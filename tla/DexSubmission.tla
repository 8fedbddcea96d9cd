---------------------------- MODULE DexSubmission ----------------------------
(***************************************************************************)
(* The swaps of one tab: a Quote, then an Accept, or a Cancel or Recover   *)
(* of a slow swap, each a transaction the wallet is asked to send.         *)
(*                                                                         *)
(* sessionStorage holds the attempt that is under way, the lookups of      *)
(* accepted swaps and the record of charges; the page's memory holds the   *)
(* budget, which the record is written from.  A reload loses the memory    *)
(* and keeps the storage, the wallet's prompt and the chain.  The page     *)
(* runs one call of the adapter at a time (busy, checking); the model has  *)
(* the steps between which a reload, another transaction of the wallet or  *)
(* a block may fall.                                                       *)
(*                                                                         *)
(* A scope is the hash of one Quote's data, new with every Quote.  Token   *)
(* approvals, amounts, gas and a repriced transaction are left out, and so *)
(* are the reservations in memory, which repeat the keys of the budget.    *)
(***************************************************************************)
EXTENDS Naturals, Sequences

CONSTANTS
  Scopes,                   \* the quotes a user may ask for
  Fast,                     \* those that settle in their Accept
  NoScope,                  \* no quote
  MaxNonce                  \* bound: transactions of the wallet

ASSUME DexAssumption ==
  Fast \subseteq Scopes /\ NoScope \notin Scopes /\ MaxNonce \in Nat

VARIABLES
  wire,                     \* our transactions, in the order of their nonces
  next, settled,            \* the wallet's pending and latest nonce
  stage, expired,           \* the swaps on the chain; deadlines passed
  prompt,                   \* the wallet still asks for the pending attempt
  pending, lookups, barred, record,        \* sessionStorage
  held, budget, live, issued, op           \* the page's memory

chain == <<wire, next, settled, stage, expired>>
storage == <<pending, lookups, barred, record>>
memory == <<held, budget, live, issued, op>>
dexVars == <<chain, prompt, storage, memory>>

Phases == {"quote", "accept", "cancel", "recover"}
Calls == Phases \X Scopes
NoCall == <<"quote", NoScope>>
NoAttempt == [call |-> NoCall, nonce |-> 0, hash |-> FALSE]
Empty == [active |-> NoScope, charges |-> << >>]
Rest == [at |-> "idle", call |-> NoCall, nonce |-> 0]

DexInit ==
  /\ wire = << >> /\ next = 0 /\ settled = 0
  /\ stage = [s \in Scopes |-> "none"] /\ expired = {}
  /\ prompt = FALSE
  /\ pending = NoAttempt /\ lookups = {} /\ barred = {} /\ record = Empty
  /\ held = FALSE /\ budget = Empty
  /\ live = NoCall /\ issued = NoScope /\ op = Rest

------------------------------------------------------------------------------
(* What the page and the adapter look at.                                  *)

At(step) == op.at = step
MovesTo(step) == op' = [op EXCEPT !.at = step]
Ends == op' = Rest
Begins(step, c, n) == op' = [at |-> step, call |-> c, nonce |-> n]

(* requireNativeResources: nothing of the wallet is unmined.               *)
Quiet == next = settled

Charged(ledger, c) == \E i \in DOMAIN ledger.charges : ledger.charges[i].call = c
Hashed(ledger) == \A i \in DOMAIN ledger.charges : ledger.charges[i].hash
Charge(ledger, c, n) ==
  [ledger EXCEPT !.charges = Append(@, [call |-> c, nonce |-> n, hash |-> FALSE])]

(* recordCurrentNativeSwapHash: the charge of a nonce gets its hash.       *)
WithHash(ledger, n) ==
  [ledger EXCEPT !.charges =
     [i \in DOMAIN @ |-> IF @[i].nonce = n THEN [@[i] EXCEPT !.hash = TRUE] ELSE @[i]]]
Filled(ledger) == WithHash(ledger, pending.nonce)

(* completeCurrentNativeSwapScope.                                         *)
Complete(ledger, s) ==
  [ledger EXCEPT !.active = IF @ = s THEN NoScope ELSE @]

(* validateCurrentNativeSwapCheckpoint: only the active swap's last charge *)
(* may lack a hash.                                                        *)
Valid(ledger) ==
  \A i \in DOMAIN ledger.charges :
    ~ledger.charges[i].hash =>
       i = Len(ledger.charges) /\ ledger.active = ledger.charges[i].call[2]

Has(c, state) == \E i \in DOMAIN wire : wire[i].call = c /\ wire[i].state = state

(* currentHead and the nonce read again before each step of a send.        *)
Proceeds ==
  /\ Quiet /\ next = op.nonce
  /\ op.call[1] \in {"quote", "accept"} => op.call[2] \notin expired

------------------------------------------------------------------------------
(* Asking for a transaction.                                               *)

(* getQuote: nothing is left of an earlier swap.  The scope is new.        *)
Quote(s) ==
  /\ op = Rest /\ live = NoCall /\ issued = NoScope
  /\ pending = NoAttempt /\ lookups = {}
  /\ record.active = NoScope /\ Hashed(record)
  /\ ~held \/ budget = record
  /\ ~Charged(record, <<"quote", s>>)
  /\ Quiet /\ next < MaxNonce
  /\ held' = TRUE /\ budget' = record
  /\ Begins("admitted", <<"quote", s>>, next)
  /\ UNCHANGED <<chain, prompt, storage, live, issued>>

(* refreshReady and currentCheapDexOwnerActionEligible.                    *)
Eligible(p, s) ==
  CASE p = "accept" -> stage[s] = "ready" /\ s \notin expired
    [] p = "cancel" -> s \notin Fast /\ stage[s] \in {"preparing", "ready"}
    [] p = "recover" -> s \notin Fast /\ stage[s] = "funded"
    [] OTHER -> FALSE

(* The guards of an action on the quote the page shows: admitOwnerRecord   *)
(* for its scope, and the check of the signing budget.                     *)
Admitted(p, s) ==
  /\ op = Rest /\ live = NoCall /\ issued = s /\ pending = NoAttempt
  /\ Eligible(p, s)
  /\ record.active \in {NoScope, s} /\ Hashed(record) /\ lookups \subseteq {s}
  /\ held /\ budget.active = s /\ ~Charged(budget, <<p, s>>)

Act(p, s) ==
  /\ Admitted(p, s) /\ Quiet /\ next < MaxNonce
  /\ Begins("admitted", <<p, s>>, next)
  /\ UNCHANGED <<chain, prompt, storage, held, budget, live, issued>>

(* A fast quote that turns out unfilled on review is closed, not accepted. *)
Unfilled(s) ==
  /\ s \in Fast /\ Admitted("accept", s)
  /\ budget' = Complete(budget, s)
  /\ Begins("closing", <<"accept", s>>, 0)
  /\ UNCHANGED <<chain, prompt, storage, held, live, issued>>

(* Mutant: nothing is written before the wallet is asked.                  *)
CommitUnsaved ==
  /\ At("admitted") /\ Proceeds /\ Valid(budget)
  /\ \A i \in DOMAIN budget.charges : budget.charges[i].nonce < op.nonce
  /\ budget' = [Charge(budget, op.call, op.nonce) EXCEPT
                  !.active = IF op.call[1] = "quote" THEN op.call[2] ELSE @]
  /\ MovesTo("reserving")
  /\ UNCHANGED <<chain, prompt, storage, held, live, issued>>

(* authorizeSigning: the budget is charged in memory, for a nonce later    *)
(* than all it holds ...                                                   *)
Commit ==
  /\ At("admitted") /\ Proceeds /\ Valid(budget)
  /\ \A i \in DOMAIN budget.charges : budget.charges[i].nonce < op.nonce
  /\ budget' = [Charge(budget, op.call, op.nonce) EXCEPT
                  !.active = IF op.call[1] = "quote" THEN op.call[2] ELSE @]
  /\ MovesTo("committed")
  /\ UNCHANGED <<chain, prompt, storage, held, live, issued>>

(* Mutant: what is written is not validated.                               *)
PersistUnchecked ==
  /\ At("committed")
  /\ record' = budget
  /\ MovesTo("reserving")
  /\ UNCHANGED <<chain, prompt, pending, lookups, barred, held, budget, live, issued>>

(* ... and in storage, before anything is sent.                            *)
Persist ==
  /\ At("committed") /\ Valid(budget)
  /\ record' = budget
  /\ MovesTo("reserving")
  /\ UNCHANGED <<chain, prompt, pending, lookups, barred, held, budget, live, issued>>

(* The nonce is read again, the attempt is saved, the wallet is asked.     *)
Reserve ==
  /\ At("reserving") /\ Proceeds /\ pending = NoAttempt
  /\ pending' = [call |-> op.call, nonce |-> op.nonce, hash |-> FALSE]
  /\ prompt' = TRUE
  /\ MovesTo("asked")
  /\ UNCHANGED <<chain, lookups, barred, record, held, budget, live, issued>>

(* An estimate, a nonce, a deadline, the storage: a send may end before    *)
(* the wallet is asked.  A consumed budget stays consumed.                 *)
Fails ==
  /\ op.at \in {"admitted", "committed", "reserving"}
  /\ Ends
  /\ UNCHANGED <<chain, prompt, storage, held, budget, live, issued>>

(* The wallet sends what it was asked with the nonce it was given, whether *)
(* or not the page that asked is still there.                              *)
WalletSends ==
  /\ prompt /\ next = pending.nonce
  /\ wire' = Append(wire, [call |-> pending.call, nonce |-> next, state |-> "sent"])
  /\ next' = next + 1
  /\ prompt' = FALSE
  /\ IF At("asked") THEN MovesTo("sent") ELSE op' = op
  /\ UNCHANGED <<settled, stage, expired, storage, held, budget, live, issued>>

(* The attempt stays as it is: it may not be known whether it was sent.    *)
WalletRejects ==
  /\ prompt /\ prompt' = FALSE
  /\ IF At("asked") THEN Ends ELSE op' = op
  /\ UNCHANGED <<chain, storage, held, budget, live, issued>>

(* The hash callback of the wallet.                                        *)
HashReturned ==
  /\ At("sent")
  /\ pending' = [pending EXCEPT !.hash = TRUE]
  /\ MovesTo("hashed")
  /\ UNCHANGED <<chain, prompt, lookups, barred, record, held, budget, live, issued>>

(* Mutant: the hash is not recorded in the charge.                         *)
SubmittedUnrecorded ==
  /\ At("hashed")
  /\ MovesTo("remembering")
  /\ UNCHANGED <<chain, prompt, storage, held, budget, live, issued>>

(* rememberHash: the hash joins the charge in memory, then in storage, and *)
(* the page keeps what verifies the transaction.                           *)
Submitted ==
  /\ At("hashed")
  /\ budget' = WithHash(budget, op.nonce)
  /\ MovesTo("remembering")
  /\ UNCHANGED <<chain, prompt, storage, held, live, issued>>

RememberHash ==
  /\ At("remembering")
  /\ record' = budget /\ live' = op.call
  /\ Ends
  /\ UNCHANGED <<chain, prompt, pending, lookups, barred, held, budget, issued>>

(* The answer of the wallet is lost or refused, or a write fails: the call *)
(* throws and what it has written stays.                                   *)
Throws ==
  /\ op.at \in {"sent", "hashed", "remembering", "closing", "restoring", "abandoning"}
  /\ Ends
  /\ UNCHANGED <<chain, prompt, storage, held, budget, live, issued>>

------------------------------------------------------------------------------
(* Verifying what was sent in this session.                                *)

Cleared == pending' = NoAttempt

(* The page is idle and verifies the call it has just sent.                *)
Verifies(p, s) ==
  /\ op = Rest /\ live = <<p, s>> /\ pending.call = live /\ Has(live, "ok")

(* recoverQuote.                                                           *)
VerifyQuote(s) ==
  /\ Verifies("quote", s)
  /\ Cleared /\ issued' = s /\ live' = NoCall
  /\ UNCHANGED <<chain, prompt, lookups, barred, record, held, budget, op>>

(* Mutant: the attempt is cleared and no lookup is left.                   *)
VerifyAcceptForgets(s) ==
  /\ Verifies("accept", s) /\ s \notin Fast
  /\ Cleared /\ live' = NoCall
  /\ UNCHANGED <<chain, prompt, lookups, barred, record, held, budget, issued, op>>

(* acceptanceResult: a slow swap leaves a lookup in place of the attempt,  *)
(* barred as it is when an earlier verification of it has failed.          *)
VerifyAccept(s) ==
  /\ Verifies("accept", s) /\ s \notin Fast
  /\ lookups' = lookups \cup {s} /\ Cleared /\ live' = NoCall
  /\ barred' \in {barred, barred \cup {s}}
  /\ UNCHANGED <<chain, prompt, record, held, budget, issued, op>>

(* A fast one is over, and so is its scope.                                *)
VerifyFast(s) ==
  /\ Verifies("accept", s) /\ s \in Fast
  /\ Cleared /\ budget' = Complete(budget, s)
  /\ Begins("closing", live, 0)
  /\ UNCHANGED <<chain, prompt, lookups, barred, record, held, live, issued>>

(* recover of an owner action: the swap is released.                       *)
VerifyRelease(s) ==
  /\ Verifies("cancel", s) \/ Verifies("recover", s)
  /\ Cleared /\ lookups' = lookups \ {s} /\ barred' = barred \ {s}
  /\ budget' = Complete(budget, s)
  /\ Begins("closing", live, 0)
  /\ UNCHANGED <<chain, prompt, record, held, live, issued>>

Final(s) == stage[s] \in {"settled", "released"}

(* readCurrentCheapDelivery: the private result of the swap that is shown. *)
ReadDelivery(s) ==
  /\ op = Rest /\ live = NoCall /\ issued = s /\ pending = NoAttempt /\ Final(s)
  /\ lookups' = lookups \ {s} /\ barred' = barred \ {s}
  /\ budget' = Complete(budget, s)
  /\ Begins("closing", <<"accept", s>>, 0)
  /\ UNCHANGED <<chain, prompt, pending, record, held, live, issued>>

(* failPrivateVerification: the private result is not what it should be.   *)
Bar(s) ==
  /\ op = Rest /\ issued = s /\ s \in lookups \ barred /\ Final(s)
  /\ live = NoCall /\ pending = NoAttempt
  /\ barred' = barred \cup {s}
  /\ UNCHANGED <<chain, prompt, pending, lookups, record, memory>>

(* persistBudget at the end of a verification.                             *)
Close ==
  /\ At("closing") /\ held /\ Valid(budget)
  /\ record' = budget /\ live' = NoCall
  /\ Ends
  /\ UNCHANGED <<chain, prompt, pending, lookups, barred, held, budget, issued>>

------------------------------------------------------------------------------
(* Reconciling what an earlier page, or a send that threw, has left.       *)

(* recoverPending on a reverted transaction; its hash is the saved one or  *)
(* the user's.                                                             *)
Reverted ==
  /\ op = Rest /\ pending # NoAttempt /\ Has(pending.call, "reverted")
  /\ Cleared
  /\ IF pending.call[1] = "quote"
       THEN /\ budget' = Complete(budget, pending.call[2])
            /\ Begins("closing", pending.call, 0)
            /\ live' = live
       ELSE live' = NoCall /\ UNCHANGED <<budget, op>>
  /\ UNCHANGED <<chain, prompt, lookups, barred, record, held, issued>>

(* refresh: the verification of a mined Quote failed, and the page lets go *)
(* of it for the restoration.                                              *)
LetGo(s) ==
  /\ Verifies("quote", s)
  /\ live' = NoCall
  /\ UNCHANGED <<chain, prompt, storage, held, budget, issued, op>>

(* readCurrentCheapRestoreHint: the quote of the active swap, or the last  *)
(* one that was accepted.                                                  *)
Hint(s) ==
  \E i \in DOMAIN record.charges :
    /\ record.charges[i].call = <<"quote", s>>
    /\ record.active \in {NoScope, s}
    /\ record.active = NoScope => Charged(record, <<"accept", s>>)
    /\ \A j \in DOMAIN record.charges :
         j > i => record.charges[j].call[1] # "quote"

(* refresh restores a quote when nothing is pending, or the Quote itself   *)
(* is and is mined.  Every charge must be known and nothing unmined.       *)
Restore(s) ==
  /\ op = Rest /\ live = NoCall /\ issued = NoScope
  /\ pending = NoAttempt \/ (pending.call = <<"quote", s>> /\ pending.hash)
  /\ Hint(s) /\ Has(<<"quote", s>>, "ok") /\ lookups \cap barred = {}
  /\ s \in Fast => record.active = s \/ Charged(record, <<"accept", s>>)
  /\ LET whole == IF pending = NoAttempt THEN record ELSE Filled(record)
     IN /\ Hashed(whole) /\ Valid(whole) /\ Quiet
        /\ ~held \/ budget = whole
        /\ budget' = whole
  /\ held' = TRUE
  /\ Begins("restoring", <<"quote", s>>, 0)
  /\ UNCHANGED <<chain, prompt, storage, live, issued>>

(* A fast quote that expired without an Accept cannot hold tokens.         *)
Unfunded(s) ==
  /\ s \in Fast /\ stage[s] = "ready" /\ s \in expired
  /\ ~Charged(budget, <<"accept", s>>)

Restored ==
  /\ At("restoring")
  /\ record' = budget
  /\ IF Unfunded(op.call[2])
       THEN /\ budget' = Complete(budget, op.call[2])
            /\ MovesTo("abandoning")
            /\ UNCHANGED <<pending, issued>>
       ELSE issued' = op.call[2] /\ Cleared /\ budget' = budget /\ Ends
  /\ UNCHANGED <<chain, prompt, lookups, barred, held, live>>

Abandoned ==
  /\ At("abandoning")
  /\ record' = budget /\ issued' = op.call[2] /\ Cleared
  /\ Ends
  /\ UNCHANGED <<chain, prompt, lookups, barred, held, budget, live>>

(* discardCurrentFastQuote: the user cancels a fast quote locally.         *)
Discard(s) ==
  /\ op = Rest /\ live = NoCall /\ issued = s /\ s \in Fast /\ stage[s] = "ready"
  /\ pending = NoAttempt /\ lookups = {}
  /\ held /\ budget = record /\ record.active = s
  /\ Hashed(record) /\ ~Charged(record, <<"accept", s>>) /\ Quiet
  /\ record' = Complete(record, s) /\ budget' = Complete(budget, s)
  /\ issued' = NoScope
  /\ UNCHANGED <<chain, prompt, pending, lookups, barred, held, live, op>>

(* startNewQuote: the page forgets a swap that is over.                    *)
NewQuote ==
  /\ op = Rest /\ live = NoCall /\ pending = NoAttempt /\ issued # NoScope
  /\ Final(issued) \/ (issued \in Fast /\ issued \in expired)
  /\ issued' = NoScope
  /\ UNCHANGED <<chain, prompt, storage, held, budget, live, op>>

Reload ==
  /\ held' = FALSE /\ budget' = Empty
  /\ live' = NoCall /\ issued' = NoScope /\ op' = Rest
  /\ UNCHANGED <<chain, prompt, storage>>

------------------------------------------------------------------------------
(* The chain, with the keeper and the wallet's other transactions.         *)

Other ==
  /\ next < MaxNonce /\ next' = next + 1
  /\ UNCHANGED <<wire, settled, stage, expired, prompt, storage, memory>>

(* What a call finds on the chain, and the stage it leads to.              *)
Succeeds(p, s) ==
  CASE p = "quote" -> stage[s] = "none" /\ s \notin expired
    [] p = "accept" -> stage[s] = "ready" /\ s \notin expired
    [] p = "cancel" -> stage[s] \in {"preparing", "ready"}
    [] p = "recover" -> stage[s] = "funded" /\ s \in expired
    [] OTHER -> FALSE
Reached(p, s) ==
  CASE p = "quote" -> IF s \in Fast THEN "ready" ELSE "preparing"
    [] p = "accept" -> IF s \in Fast THEN "settled" ELSE "funded"
    [] OTHER -> "released"

(* One of our transactions gets its receipt ...                            *)
MineOwn(i, state) ==
  /\ wire[i].nonce = settled
  /\ state = "ok" => Succeeds(wire[i].call[1], wire[i].call[2])
  /\ wire' = [wire EXCEPT ![i].state = state]
  /\ stage' = IF state = "ok"
                THEN [stage EXCEPT ![wire[i].call[2]] = Reached(wire[i].call[1], wire[i].call[2])]
                ELSE stage
  /\ settled' = settled + 1
  /\ UNCHANGED <<next, expired, prompt, storage, memory>>

(* ... or another one of the wallet.                                       *)
MineOther ==
  /\ settled < next /\ \A i \in DOMAIN wire : wire[i].nonce # settled
  /\ settled' = settled + 1
  /\ UNCHANGED <<wire, next, stage, expired, prompt, storage, memory>>

Keeper(s) ==
  /\ \/ stage[s] = "preparing" /\ stage' = [stage EXCEPT ![s] = "ready"]
     \/ stage[s] = "funded" /\ stage' = [stage EXCEPT ![s] = "settled"]
  /\ UNCHANGED <<wire, next, settled, expired, prompt, storage, memory>>

Expire(s) ==
  /\ s \notin expired /\ Charged(record, <<"quote", s>>)
  /\ expired' = expired \cup {s}
  /\ UNCHANGED <<wire, next, settled, stage, prompt, storage, memory>>

------------------------------------------------------------------------------
Sending ==
  \/ \E s \in Scopes : Quote(s) \/ Unfilled(s)
  \/ \E p \in Phases, s \in Scopes : Act(p, s)
  \/ Commit \/ Persist \/ Reserve \/ Fails
  \/ WalletSends \/ WalletRejects \/ HashReturned \/ Submitted \/ RememberHash \/ Throws

Checking ==
  \/ \E s \in Scopes : VerifyQuote(s) \/ VerifyAccept(s) \/ VerifyFast(s) \/ VerifyRelease(s)
                       \/ ReadDelivery(s) \/ Bar(s) \/ LetGo(s) \/ Restore(s) \/ Discard(s)
  \/ Close \/ Reverted \/ Restored \/ Abandoned \/ NewQuote

Mining == MineOther \/ \E i \in DOMAIN wire, state \in {"ok", "reverted"} : MineOwn(i, state)
Environment == Reload \/ Other \/ Mining \/ \E s \in Scopes : Keeper(s) \/ Expire(s)

DexNext == Sending \/ Checking \/ Environment

DexSpec == DexInit /\ [][DexNext]_dexVars

------------------------------------------------------------------------------
Charges == [call : Calls, nonce : Nat, hash : BOOLEAN]
Ledgers == [active : Scopes \cup {NoScope}, charges : Seq(Charges)]
Steps == {"idle", "admitted", "committed", "reserving", "asked", "sent", "hashed",
          "remembering", "closing", "restoring", "abandoning"}

(* The variables keep their types, a record in storage is one the page     *)
(* would accept again, and a call under way is one of a scope.             *)
DexTypeOK ==
  /\ wire \in Seq([call : Calls, nonce : Nat, state : {"sent", "ok", "reverted"}])
  /\ next \in Nat /\ settled \in 0..next
  /\ stage \in [Scopes -> {"none", "preparing", "ready", "funded", "settled", "released"}]
  /\ expired \subseteq Scopes /\ prompt \in BOOLEAN
  /\ pending \in Charges \cup {NoAttempt}
  /\ lookups \subseteq Scopes /\ barred \subseteq lookups
  /\ record \in Ledgers /\ Valid(record)
  /\ held \in BOOLEAN /\ budget \in Ledgers
  /\ live \in Calls \cup {NoCall} /\ issued \in Scopes \cup {NoScope}
  /\ op \in [at : Steps, call : Calls, nonce : Nat] \cup {Rest}

Journal == INSTANCE SubmissionJournal WITH
  journal <- [i \in DOMAIN record.charges |-> record.charges[i].call],
  wire <- [i \in DOMAIN wire |-> wire[i].call],
  mined <- IF wire # << >> /\ wire[Len(wire)].state = "sent"
             THEN Len(wire) - 1 ELSE Len(wire)

(* Through reloads, lost answers, failed writes and other transactions of  *)
(* the wallet, the page sends nothing it has not journalled, nothing       *)
(* twice, and nothing before what it sent last is mined.                   *)
ImplementsJournal == Journal!Spec

(* A transaction that was sent and did not revert can be found again from  *)
(* the storage alone: its charge has its hash, or it is the saved attempt. *)
SentIsTraceable ==
  \A i \in DOMAIN wire :
    wire[i].state # "reverted" =>
      \/ record.charges[i].hash
      \/ pending.call = wire[i].call /\ pending.nonce = wire[i].nonce

(* While a slow swap holds the user's tokens, the storage says so: its     *)
(* scope is the active one, and its Accept is the saved attempt or in the  *)
(* lookups.  "Its operation must remain discoverable until authenticated   *)
(* terminal verification."                                                 *)
FundedIsRemembered ==
  \A s \in Scopes : stage[s] = "funded" =>
    /\ record.active = s
    /\ s \in lookups \/ pending.call = <<"accept", s>>

------------------------------------------------------------------------------
(* Blocks come, and the user keeps checking the state of the swap.         *)
DexFairSpec == DexSpec /\ WF_dexVars(Mining) /\ WF_dexVars(Checking)

Saved(s) == pending.call = <<"accept", s>> /\ pending.hash /\ Has(pending.call, "ok")

(* A confirmed Accept that is saved is verified in the end, once the page  *)
(* is no longer reloaded.                                                  *)
SavedAcceptIsVerified ==
  <>[][~Reload]_dexVars => \A s \in Scopes : Saved(s) ~> ~Saved(s)

==============================================================================
