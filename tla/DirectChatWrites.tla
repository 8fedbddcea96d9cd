-------------------------- MODULE DirectChatWrites --------------------------
(***************************************************************************)
(* Sending a direct message: the write coordinator                         *)
(* (src/lib/directChatV2WriteCoordinator.ts), the part of the session that *)
(* submits (directChatV2Session.ts, directChatV2Chain.ts) and the store    *)
(* that retires encryption nonces (directChatV2NonceRetirement.ts), with   *)
(* the rows App.tsx shows.                                                 *)
(*                                                                         *)
(* Several tabs of one owner write to one peer.  They share the chain and  *)
(* the nonce store, which is in IndexedDB and survives a reload; each has  *)
(* its own rows, its own runtime and one send at a time.  Every await of   *)
(* the code is a boundary between two actions: the user may open another   *)
(* contact, the runtime may be replaced, another wallet operation may take *)
(* the session and the tab may be reloaded between any two of them.        *)
(*                                                                         *)
(* A send is named by the number its optimistic row is given; the message  *)
(* it puts on the chain carries the same number.                           *)
(***************************************************************************)
EXTENDS Naturals, FiniteSets

CONSTANTS
  Tabs,         \* browser tabs of the owner
  Nonces,       \* the nonces the encryption draws from
  NoNonce,      \* no nonce drawn yet
  MaxSends,     \* bound: sends begun
  MaxBreaks     \* bound: reloads and replaced runtimes

ASSUME WriteAssumption ==
  /\ NoNonce \notin Nonces
  /\ MaxSends \in Nat /\ MaxBreaks \in Nat

Sends == 1..MaxSends

VARIABLES
  retired,      \* nonces in the retirement store
  submitted,    \* [Sends -> Nonces \cup {NoNonce}]: what the wallet was handed
  mined,        \* sends whose message is on the chain
  begun,        \* sends begun so far, over all tabs
  breaks,       \* reloads and replacements so far
  step,         \* [Tabs -> Steps]: where the tab's send is
  sending,      \* [Tabs -> Sends \cup {0}]: the send in flight
  nonce,        \* [Tabs -> Nonces \cup {NoNonce}]: the nonce it drew
  live,         \* [Tabs -> BOOLEAN]: the runtime the send began with is current
  open,         \* [Tabs -> BOOLEAN]: the peer is the contact on screen
  taken,        \* [Tabs -> BOOLEAN]: another operation holds the session
  draft,        \* [Tabs -> [Sends -> Draft]]: optimistic rows
  shown,        \* [Tabs -> [Sends -> Finality]]: rows of confirmed messages
  ended         \* [Sends -> Endings], a history: how the coordinator left the send

chainVars == <<submitted, mined>>
scopeVars == <<live, open, taken>>
rowVars   == <<draft, shown>>
writeVars == <<retired, submitted, mined, begun, breaks, step, sending, nonce,
               live, open, taken, draft, shown, ended>>

Steps    == {"idle", "ensuring", "inserted", "preparing", "claiming",
             "claimed", "waiting"}
Draft    == {"none", "pending", "failed"}
Finality == {"none", "confirmed", "finalized"}

(* "unseen": it ended, with its receipt or without, while the scope was    *)
(* gone; "disputed": the receipt is of another block than the row it found. *)
Endings  == {"open", "received", "disputed", "refused", "unseen"}

(* The steps at which the send holds the session's mutation flag. *)
Holding == {"ensuring", "preparing", "claiming", "claimed", "waiting"}

WriteInit ==
  /\ retired = {} /\ mined = {} /\ ended = [s \in Sends |-> "open"]
  /\ submitted = [s \in Sends |-> NoNonce]
  /\ begun = 0 /\ breaks = 0
  /\ step = [t \in Tabs |-> "idle"] /\ sending = [t \in Tabs |-> 0]
  /\ nonce = [t \in Tabs |-> NoNonce]
  /\ live = [t \in Tabs |-> TRUE] /\ open = [t \in Tabs |-> TRUE]
  /\ taken = [t \in Tabs |-> FALSE]
  /\ draft = [t \in Tabs |-> [s \in Sends |-> "none"]]
  /\ shown = [t \in Tabs |-> [s \in Sends |-> "none"]]

-----------------------------------------------------------------------------
(* shouldContinue: the runtime is the one the send began with and the peer *)
(* is the contact on screen.                                               *)
ScopeCurrent(t) == live[t] /\ open[t]

(* Mutant: the flag is released and the send is not. *)
SettleKeepsSend(t) ==
  /\ step' = [step EXCEPT ![t] = "idle"]
  /\ UNCHANGED sending
  /\ nonce' = [nonce EXCEPT ![t] = NoNonce]

(* The send of t is over: sendingRef is released. *)
Settle(t) ==
  /\ step' = [step EXCEPT ![t] = "idle"]
  /\ sending' = [sending EXCEPT ![t] = 0]
  /\ nonce' = [nonce EXCEPT ![t] = NoNonce]

Advance(t, to) ==
  /\ step' = [step EXCEPT ![t] = to]
  /\ UNCHANGED sending

Ends(t, how) == ended' = [ended EXCEPT ![sending[t]] = how]

(* The coordinator's catch: onFailure only while the scope is current. *)
SendFails(t) ==
  /\ Settle(t)
  /\ IF ScopeCurrent(t)
       THEN /\ draft' = [draft EXCEPT ![t][sending[t]] =
                           IF @ = "pending" THEN "failed" ELSE @]
            /\ Ends(t, "refused")
       ELSE UNCHANGED draft /\ Ends(t, "unseen")
  /\ UNCHANGED shown

(* sendMessage up to session.ensure: nothing starts while a send is in     *)
(* flight, and a session another operation holds refuses before any row.   *)
Begin(t) ==
  /\ step[t] = "idle" /\ open[t] /\ ~taken[t]
  /\ begun < MaxSends
  /\ begun' = begun + 1
  /\ step' = [step EXCEPT ![t] = "ensuring"]
  /\ sending' = [sending EXCEPT ![t] = begun + 1]
  /\ live' = [live EXCEPT ![t] = TRUE]
  /\ UNCHANGED <<retired, chainVars, breaks, nonce, open, taken, rowVars, ended>>

(* ensure resolved: the optimistic row is inserted if the scope held. *)
Ensured(t) ==
  /\ step[t] = "ensuring"
  /\ \/ /\ ScopeCurrent(t)
        /\ draft' = [draft EXCEPT ![t][sending[t]] = "pending"]
        /\ Advance(t, "inserted")
        /\ UNCHANGED nonce
     \/ /\ ~ScopeCurrent(t)
        /\ Settle(t)
        /\ UNCHANGED draft
  /\ UNCHANGED <<retired, chainVars, begun, breaks, scopeVars, shown, ended>>

(* ensure rejected: the wallet refused, a read failed. *)
EnsureFails(t) ==
  /\ step[t] = "ensuring"
  /\ Settle(t)
  /\ UNCHANGED <<retired, chainVars, begun, breaks, scopeVars, rowVars, ended>>

(* The scope is asserted once more and session.send takes the flag. *)
SendStarts(t) ==
  /\ step[t] = "inserted"
  /\ IF ScopeCurrent(t) /\ ~taken[t]
       THEN /\ Advance(t, "preparing")
            /\ UNCHANGED <<nonce, rowVars, ended>>
       ELSE SendFails(t)
  /\ UNCHANGED <<retired, chainVars, begun, breaks, scopeVars>>

(* encryptDirectChatV2Message draws a random nonce: any nonce. *)
Encrypt(t) ==
  /\ step[t] = "preparing"
  /\ \E n \in Nonces : nonce' = [nonce EXCEPT ![t] = n]
  /\ Advance(t, "claiming")
  /\ UNCHANGED <<retired, chainVars, begun, breaks, scopeVars, rowVars, ended>>

(* Mutant: the record is looked up and not added. *)
ClaimUnrecorded(t) ==
  /\ step[t] = "claiming"
  /\ IF nonce[t] \notin retired
       THEN Advance(t, "claimed") /\ UNCHANGED <<nonce, rowVars, ended>>
       ELSE SendFails(t)
  /\ UNCHANGED <<retired, chainVars, begun, breaks, scopeVars>>

(* retireNonceAttempt: one readwrite transaction adds the record or finds  *)
(* it present, and the answer comes after it committed.                    *)
Claim(t) ==
  /\ step[t] = "claiming"
  /\ IF nonce[t] \notin retired
       THEN /\ retired' = retired \cup {nonce[t]}
            /\ Advance(t, "claimed")
            /\ UNCHANGED <<nonce, rowVars, ended>>
       ELSE /\ SendFails(t)
            /\ UNCHANGED retired
  /\ UNCHANGED <<chainVars, begun, breaks, scopeVars>>

(* isMessageNonceUsed is false, the wallet signs, the transaction is out. *)
Submit(t) ==
  /\ step[t] = "claimed"
  /\ \A s \in mined : submitted[s] # nonce[t]
  /\ submitted' = [submitted EXCEPT ![sending[t]] = nonce[t]]
  /\ Advance(t, "waiting")
  /\ UNCHANGED <<retired, mined, nonce, begun, breaks, scopeVars, rowVars, ended>>

(* Anything else inside session.send: a read, the store, the check of the  *)
(* nonce or the wallet refuses; after submission the wait rejects, or the  *)
(* receipt is a failure, a cancelled replacement or another transaction.   *)
SendRejects(t) ==
  /\ step[t] \in {"preparing", "claiming", "claimed", "waiting"}
  /\ SendFails(t)
  /\ UNCHANGED <<retired, chainVars, begun, breaks, scopeVars>>

(* Mutants: a row the history brought first ends the update; the receipt   *)
(* writes its finality over the row's.                                     *)
ReceiptStopsAtRow(t, s) ==
  /\ draft' = IF shown[t][s] = "none" THEN [draft EXCEPT ![t][s] = "none"] ELSE draft
  /\ shown' = IF draft[t][s] = "none" THEN shown
              ELSE [shown EXCEPT ![t][s] = IF @ = "none" THEN "confirmed" ELSE @]

ReceiptConfirms(t, s) ==
  IF draft[t][s] = "none" /\ shown[t][s] = "none"
    THEN UNCHANGED rowVars
    ELSE /\ draft' = [draft EXCEPT ![t][s] = "none"]
         /\ shown' = [shown EXCEPT ![t][s] = "confirmed"]

(* applyDirectChatV2ReceiptUpdate on the rows of t. *)
ReceiptApplied(t, s) ==
  IF draft[t][s] = "none" /\ shown[t][s] = "none"
    THEN UNCHANGED rowVars      \* throws: the row is unavailable
    ELSE /\ draft' = [draft EXCEPT ![t][s] = "none"]
         /\ shown' = [shown EXCEPT ![t][s] =
                        IF @ = "finalized" THEN "finalized" ELSE "confirmed"]

(* The receipt names the message: reconciled only while the scope holds.   *)
(* identityMatches: a row the history brought from another block, before   *)
(* or after a reorganisation, makes it throw.                              *)
Receipt(t) ==
  /\ step[t] = "waiting" /\ sending[t] \in mined
  /\ \/ ScopeCurrent(t) /\ ReceiptApplied(t, sending[t]) /\ Ends(t, "received")
     \/ /\ ScopeCurrent(t) /\ shown[t][sending[t]] # "none"
        /\ Ends(t, "disputed") /\ UNCHANGED rowVars
     \/ ~ScopeCurrent(t) /\ Ends(t, "unseen") /\ UNCHANGED rowVars
  /\ Settle(t)
  /\ UNCHANGED <<retired, chainVars, begun, breaks, scopeVars>>

-----------------------------------------------------------------------------
(* The chain takes a submitted message, whoever still waits for it. *)
Mine ==
  /\ \E s \in Sends \ mined :
        submitted[s] # NoNonce /\ mined' = mined \cup {s}
  /\ UNCHANGED <<retired, submitted, begun, breaks, step, sending, nonce,
                 scopeVars, rowVars, ended>>

(* A history page shows mined messages as finalized and prunes no draft. *)
HistoryPage(t) ==
  /\ \E s \in mined :
        /\ shown[t][s] # "finalized"
        /\ shown' = [shown EXCEPT ![t][s] = "finalized"]
  /\ UNCHANGED <<retired, chainVars, begun, breaks, step, sending, nonce,
                 scopeVars, draft, ended>>

(* A reset for replay drops the rows of the chain and keeps the drafts. *)
Replay(t) ==
  /\ \E s \in Sends : shown[t][s] # "none"
  /\ shown' = [shown EXCEPT ![t] = [s \in Sends |-> "none"]]
  /\ UNCHANGED <<retired, chainVars, begun, breaks, step, sending, nonce,
                 scopeVars, draft, ended>>

(* The user opens another contact, or comes back. *)
Look(t) ==
  /\ open' = [open EXCEPT ![t] = ~@]
  /\ UNCHANGED <<retired, chainVars, begun, breaks, step, sending, nonce, live,
                 taken, rowVars, ended>>

(* Another mutation of the session (a nickname, a rotation) takes the flag *)
(* or releases it.                                                         *)
OtherMutation(t) ==
  /\ taken[t] \/ ~(live[t] /\ step[t] \in Holding)
  /\ taken' = [taken EXCEPT ![t] = ~@]
  /\ UNCHANGED <<retired, chainVars, begun, breaks, step, sending, nonce, live,
                 open, rowVars, ended>>

(* Mutant: the rows are emptied and the runtime stays current. *)
ReplaceKeepsRuntime(t) ==
  /\ breaks < MaxBreaks /\ breaks' = breaks + 1
  /\ draft' = [draft EXCEPT ![t] = [s \in Sends |-> "none"]]
  /\ shown' = [shown EXCEPT ![t] = [s \in Sends |-> "none"]]
  /\ taken' = [taken EXCEPT ![t] = FALSE]
  /\ UNCHANGED <<retired, chainVars, begun, step, sending, nonce, live, open, ended>>

(* The runtime is replaced.  A change of wallet or privacy scope empties   *)
(* the rows as well; a change of the cloud session keeps them.             *)
Replace(t) ==
  /\ breaks < MaxBreaks /\ breaks' = breaks + 1
  /\ live' = [live EXCEPT ![t] = FALSE]
  /\ taken' = [taken EXCEPT ![t] = FALSE]
  /\ \/ UNCHANGED <<open, rowVars>>
     \/ /\ draft' = [draft EXCEPT ![t] = [s \in Sends |-> "none"]]
        /\ shown' = [shown EXCEPT ![t] = [s \in Sends |-> "none"]]
        /\ open' = [open EXCEPT ![t] = FALSE]
  /\ UNCHANGED <<retired, chainVars, begun, step, sending, nonce, ended>>

(* A reload: the tab forgets everything but what IndexedDB holds. *)
Reload(t) ==
  /\ breaks < MaxBreaks /\ breaks' = breaks + 1
  /\ Settle(t)
  /\ live' = [live EXCEPT ![t] = TRUE]
  /\ open' = [open EXCEPT ![t] = FALSE]
  /\ taken' = [taken EXCEPT ![t] = FALSE]
  /\ draft' = [draft EXCEPT ![t] = [s \in Sends |-> "none"]]
  /\ shown' = [shown EXCEPT ![t] = [s \in Sends |-> "none"]]
  /\ UNCHANGED <<retired, chainVars, begun, ended>>

WriteNext ==
  \/ Mine
  \/ \E t \in Tabs :
       \/ Begin(t) \/ Ensured(t) \/ EnsureFails(t) \/ SendStarts(t)
       \/ Encrypt(t) \/ Claim(t) \/ Submit(t) \/ SendRejects(t) \/ Receipt(t)
       \/ HistoryPage(t) \/ Replay(t) \/ Look(t) \/ OtherMutation(t)
       \/ Replace(t) \/ Reload(t)

WriteSpec == WriteInit /\ [][WriteNext]_writeVars

-----------------------------------------------------------------------------
(* Type correctness; a tab has a send exactly while one is under way. *)
WriteTypeOK ==
  /\ retired \subseteq Nonces /\ mined \subseteq Sends
  /\ ended \in [Sends -> Endings]
  /\ submitted \in [Sends -> Nonces \cup {NoNonce}]
  /\ begun \in 0..MaxSends /\ breaks \in 0..MaxBreaks
  /\ step \in [Tabs -> Steps] /\ sending \in [Tabs -> 0..MaxSends]
  /\ nonce \in [Tabs -> Nonces \cup {NoNonce}]
  /\ live \in [Tabs -> BOOLEAN] /\ open \in [Tabs -> BOOLEAN]
  /\ taken \in [Tabs -> BOOLEAN]
  /\ draft \in [Tabs -> [Sends -> Draft]]
  /\ shown \in [Tabs -> [Sends -> Finality]]
  /\ \A t \in Tabs : sending[t] = 0 <=> step[t] = "idle"

(* No two transactions handed to the wallet, by any tab, before or after   *)
(* any reload, carry the same nonce: the claim is durable before the       *)
(* ciphertext leaves the page.                                             *)
NonceUsedOnce ==
  \A r, s \in Sends :
    submitted[r] # NoNonce /\ submitted[r] = submitted[s] => r = s

(* What a draft says is what became of its send.  One shown as pending has *)
(* its send in flight, or the coordinator left that send while its contact *)
(* was not on screen or its runtime was replaced, or with a receipt of     *)
(* another block than the row on screen: then, and only then, a draft may  *)
(* stay pending beside its message.  One shown as failed belongs to a send *)
(* that was refused.  So no draft is left of a send whose receipt was      *)
(* taken, and a refused one does not stay pending, whatever pages, replays *)
(* and replaced runtimes came between.                                     *)
DraftSaysTheOutcome ==
  \A t \in Tabs, s \in Sends :
    /\ draft[t][s] = "pending" => sending[t] = s \/ ended[s] \in {"unseen", "disputed"}
    /\ draft[t][s] = "failed" => ended[s] = "refused"

(* A receipt that arrives while the scope holds always finds the row it    *)
(* replaces, so a send that succeeded is never reported as one whose row   *)
(* is unavailable.                                                         *)
ReceiptFindsItsRow ==
  \A t \in Tabs :
    step[t] = "waiting" /\ ScopeCurrent(t) => draft[t][sending[t]] = "pending"

(* A row shown as finalized is never shown as merely confirmed again: a    *)
(* receipt that loses the race against the history page keeps finality.    *)
FinalityIsKept ==
  [][\A t \in Tabs, s \in Sends :
       shown[t][s] = "finalized" => shown'[t][s] # "confirmed"]_writeVars
=============================================================================
