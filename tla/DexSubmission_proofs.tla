------------------------ MODULE DexSubmission_proofs ------------------------
(***************************************************************************)
(* What the DEX submission promises, for any number of quotes: the types,  *)
(* that every transaction sent can be found again from storage, that a     *)
(* swap that holds tokens is remembered, and that the page implements the  *)
(* write-ahead journal of SubmissionJournal.                               *)
(*                                                                         *)
(* The invariant relates three sequences: what was sent (wire), what is    *)
(* recorded and what the page has in its budget.  The record is at most    *)
(* one charge ahead of the wire; the budget is ahead of the record only    *)
(* while nothing is pending and all that was sent is mined.                *)
(***************************************************************************)
EXTENDS DexSubmission, SequenceTheorems, TLAPS

Kept == record.charges
Meant == budget.charges

(* The last transaction sent has its receipt. *)
LastMined == wire = << >> \/ wire[Len(wire)].state # "sent"

(* Nonces are spent in order, and are mined in order. *)
NoncesInOrder ==
  /\ \A i \in DOMAIN wire : /\ wire[i].nonce < next
                            /\ wire[i].state = "sent" <=> settled <= wire[i].nonce
  /\ \A i, j \in DOMAIN wire : wire[i].nonce = wire[j].nonce => i = j

(* What was sent is recorded, and at most one call besides. *)
WireIsKept ==
  /\ Len(wire) <= Len(Kept) /\ Len(Kept) <= Len(wire) + 1
  /\ \A i \in DOMAIN wire : Kept[i].call = wire[i].call /\ Kept[i].nonce = wire[i].nonce

(* A ledger names each call once, and has hashes only of what was sent. *)
Sound(ledger) ==
  /\ \A i, j \in DOMAIN ledger.charges :
       ledger.charges[i].call = ledger.charges[j].call => i = j
  /\ \A i \in DOMAIN ledger.charges : ledger.charges[i].hash => i <= Len(wire)

(* One ledger has all that is in another. *)
Covers(ledger, other) ==
  /\ Len(other.charges) <= Len(ledger.charges)
  /\ \A i \in DOMAIN other.charges :
       /\ ledger.charges[i].call = other.charges[i].call
       /\ ledger.charges[i].nonce = other.charges[i].nonce
       /\ other.charges[i].hash => ledger.charges[i].hash

(* What the page means to send next, while nothing is on its way. *)
MeantIsNext ==
  held /\ Len(Meant) > Len(Kept) =>
    Len(wire) = Len(Kept) /\ LastMined /\ pending = NoAttempt

(* The pending attempt is the last call recorded. *)
PendingIsLast ==
  pending # NoAttempt =>
    /\ Kept # << >>
    /\ Kept[Len(Kept)].call = pending.call /\ Kept[Len(Kept)].nonce = pending.nonce
    /\ pending.hash => Len(wire) = Len(Kept)

(* The wallet asks for a call that was not sent. *)
PromptIsUnsent ==
  prompt =>
    pending # NoAttempt /\ ~pending.hash /\ Len(Kept) = Len(wire) + 1 /\ LastMined

(* What the page verifies has its hash in the record. *)
LiveIsHashed ==
  live # NoCall /\ pending.call = live => Kept[Len(Kept)].hash

(* What each step of the page relies on. *)
Starts ==
  op.at \in {"admitted", "committed", "reserving"} =>
    held /\ pending = NoAttempt /\ live = NoCall
Admits == At("admitted") => Hashed(record) /\ ~Charged(budget, op.call)
Commits ==
  At("committed") =>
    /\ Len(Meant) > Len(Kept)
    /\ Meant[Len(Meant)].call = op.call /\ Meant[Len(Meant)].nonce = op.nonce
Reserves ==
  At("reserving") =>
    /\ Valid(budget) /\ Len(Meant) = Len(Kept) /\ Len(Kept) = Len(wire) + 1 /\ LastMined
    /\ Kept[Len(Kept)].call = op.call /\ Kept[Len(Kept)].nonce = op.nonce
Asks ==
  op.at \in {"asked", "sent", "hashed", "remembering"} =>
    /\ held /\ Valid(budget) /\ Len(Meant) = Len(Kept)
    /\ pending # NoAttempt /\ pending.call = op.call /\ pending.nonce = op.nonce
Sent == op.at \in {"sent", "hashed", "remembering"} => Len(wire) = Len(Kept)
Remembers == At("remembering") => Meant[Len(Meant)].hash
Restores ==
  op.at \in {"restoring", "abandoning"} =>
    /\ held /\ Hashed(budget) /\ Len(Meant) = Len(Kept)
    /\ pending = NoAttempt \/ pending.hash
Closes == At("closing") => pending = NoAttempt

Ledger ==
  /\ NoncesInOrder /\ WireIsKept /\ Sound(record) /\ Sound(budget)
  /\ held => Covers(budget, record)
  /\ MeantIsNext /\ PendingIsLast /\ PromptIsUnsent /\ LiveIsHashed

Step ==
  /\ Starts /\ Admits /\ Commits /\ Reserves /\ Asks /\ Sent /\ Remembers
  /\ Restores /\ Closes

DexInv == DexTypeOK /\ Ledger /\ Step /\ SentIsTraceable

-----------------------------------------------------------------------------
(* Ledgers.                                                                *)

(* NoAttempt and NoCall are of no quote. *)
LEMMA NoCallIsNoCall == NoCall \notin Calls /\ NoAttempt \notin Charges
<1>1. NoCall \notin Calls
  BY DexAssumption DEF NoCall, Calls
<1> QED  BY <1>1 DEF NoAttempt, Charges

(* A charge is added at the end. *)
LEMMA ChargeAdds ==
  ASSUME NEW l \in Ledgers, NEW c \in Calls, NEW n \in Nat
  PROVE  /\ Charge(l, c, n) \in Ledgers
         /\ Charge(l, c, n).active = l.active
         /\ Len(Charge(l, c, n).charges) = Len(l.charges) + 1
         /\ \A i \in DOMAIN l.charges : Charge(l, c, n).charges[i] = l.charges[i]
         /\ Charge(l, c, n).charges[Len(l.charges) + 1] = [call |-> c, nonce |-> n, hash |-> FALSE]
         /\ DOMAIN Charge(l, c, n).charges = 1..(Len(l.charges) + 1)
<1> DEFINE e == [call |-> c, nonce |-> n, hash |-> FALSE]
<1>1. l.charges \in Seq(Charges) /\ l.active \in Scopes \cup {NoScope}
  BY DEF Ledgers
<1>2. e \in Charges
  BY DEF Charges
<1> HIDE DEF e
<1>3. /\ Append(l.charges, e) \in Seq(Charges)
      /\ Len(Append(l.charges, e)) = Len(l.charges) + 1
      /\ \A i \in DOMAIN l.charges : Append(l.charges, e)[i] = l.charges[i]
      /\ Append(l.charges, e)[Len(l.charges) + 1] = e
      /\ DOMAIN Append(l.charges, e) = 1..(Len(l.charges) + 1)
  BY <1>1, <1>2
<1>4. Charge(l, c, n) = [l EXCEPT !.charges = Append(l.charges, e)]
  BY DEF Charge, e
<1>6. /\ Charge(l, c, n).charges = Append(l.charges, e)
      /\ Charge(l, c, n).active = l.active
      /\ Charge(l, c, n) = [active |-> l.active, charges |-> Append(l.charges, e)]
  BY ONLY <1>4, l \in Ledgers DEF Ledgers
<1>5. Charge(l, c, n) \in Ledgers
  BY <1>1, <1>3, <1>6 DEF Ledgers
<1> QED  BY <1>3, <1>6, <1>5 DEF e

(* A hash changes the charges of its nonce, and nothing else of them. *)
LEMMA WithHashKeeps ==
  ASSUME NEW l \in Ledgers, NEW n \in Nat
  PROVE  /\ WithHash(l, n) \in Ledgers
         /\ WithHash(l, n).active = l.active
         /\ Len(WithHash(l, n).charges) = Len(l.charges)
         /\ DOMAIN WithHash(l, n).charges = DOMAIN l.charges
         /\ \A i \in DOMAIN l.charges :
              /\ WithHash(l, n).charges[i].call = l.charges[i].call
              /\ WithHash(l, n).charges[i].nonce = l.charges[i].nonce
              /\ WithHash(l, n).charges[i].hash <=> (l.charges[i].hash \/ l.charges[i].nonce = n)
<1> DEFINE h == [i \in DOMAIN l.charges |-> IF l.charges[i].nonce = n
                                             THEN [l.charges[i] EXCEPT !.hash = TRUE]
                                             ELSE l.charges[i]]
<1>1. l.charges \in Seq(Charges) /\ l.active \in Scopes \cup {NoScope}
  BY DEF Ledgers
<1>7. WithHash(l, n) = [l EXCEPT !.charges = h]
  BY <1>1 DEF WithHash, Ledgers
<1>2. /\ WithHash(l, n).charges = h
      /\ WithHash(l, n).active = l.active
      /\ WithHash(l, n) = [active |-> l.active, charges |-> h]
  <2> HIDE DEF h
  <2> QED  BY ONLY <1>7, l \in Ledgers DEF Ledgers
<1>3. ASSUME NEW i \in DOMAIN l.charges
      PROVE  /\ h[i] \in Charges
             /\ h[i].call = l.charges[i].call /\ h[i].nonce = l.charges[i].nonce
             /\ h[i].hash <=> (l.charges[i].hash \/ l.charges[i].nonce = n)
  <2>1. l.charges[i] \in [call : Calls, nonce : Nat, hash : BOOLEAN]
    BY <1>1, LenProperties, ElementOfSeq DEF Charges
  <2> DEFINE e == l.charges[i]
  <2>2. h[i] = IF e.nonce = n THEN [e EXCEPT !.hash = TRUE] ELSE e
    OBVIOUS
  <2> HIDE DEF e, h
  <2>3. e \in [call : Calls, nonce : Nat, hash : BOOLEAN]
    BY <2>1 DEF e
  <2>4. /\ h[i] \in [call : Calls, nonce : Nat, hash : BOOLEAN]
        /\ h[i].call = e.call /\ h[i].nonce = e.nonce
        /\ h[i].hash <=> (e.hash \/ e.nonce = n)
    BY ONLY <2>2, <2>3
  <2> QED  BY <2>4 DEF e, Charges
<1>4. DOMAIN h = 1..Len(l.charges) /\ DOMAIN l.charges = 1..Len(l.charges) /\ Len(l.charges) \in Nat
  BY <1>1
<1>8. h = [i \in DOMAIN h |-> h[i]]
  OBVIOUS
<1> HIDE DEF h
<1>5. h \in Seq(Charges) /\ Len(h) = Len(l.charges)
  BY <1>3, <1>4, <1>8
<1>6. WithHash(l, n) \in Ledgers
  BY <1>1, <1>2, <1>5 DEF Ledgers
<1> QED  BY <1>2, <1>3, <1>4, <1>5, <1>6

(* Completing a scope leaves the charges. *)
LEMMA CompleteKeeps ==
  ASSUME NEW l \in Ledgers, NEW s
  PROVE  Complete(l, s) \in Ledgers /\ Complete(l, s).charges = l.charges
  BY DEF Complete, Ledgers

(* So does setting it. *)
LEMMA ActiveKeeps ==
  ASSUME NEW l \in Ledgers, NEW s \in Scopes \cup {NoScope}
  PROVE  /\ [l EXCEPT !.active = s] \in Ledgers
         /\ [l EXCEPT !.active = s].charges = l.charges
         /\ [l EXCEPT !.active = s].active = s
  BY DEF Ledgers

(* A ledger with every hash is one the page accepts, and stays one it      *)
(* accepts as hashes join it.                                              *)
LEMMA HashedIsValid ==
  ASSUME NEW l, Hashed(l)
  PROVE  Valid(l)
  BY DEF Hashed, Valid

(* A charge with its hash is a charge.                                     *)
LEMMA WithHashIsValid ==
  ASSUME NEW l \in Ledgers, NEW n \in Nat, Valid(l)
  PROVE  Valid(WithHash(l, n))
  BY WithHashKeeps DEF Valid

-----------------------------------------------------------------------------
(* Types.                                                                  *)

Sends == [call : Calls, nonce : Nat, state : {"sent", "ok", "reverted"}]

(* The three sequences, as the provers want them. *)
LEMMA SequenceFacts ==
  ASSUME DexTypeOK
  PROVE  /\ wire \in Seq(Sends) /\ Len(wire) \in Nat /\ DOMAIN wire = 1..Len(wire)
         /\ Kept \in Seq(Charges) /\ Len(Kept) \in Nat /\ DOMAIN Kept = 1..Len(Kept)
         /\ Meant \in Seq(Charges) /\ Len(Meant) \in Nat /\ DOMAIN Meant = 1..Len(Meant)
         /\ \A i \in DOMAIN wire : wire[i] \in Sends
         /\ \A i \in DOMAIN Kept : Kept[i] \in Charges
         /\ \A i \in DOMAIN Meant : Meant[i] \in Charges
<1>1. wire \in Seq(Sends) /\ Kept \in Seq(Charges) /\ Meant \in Seq(Charges)
  BY DEF DexTypeOK, Ledgers, Kept, Meant, Sends
<1> QED  BY <1>1, LenProperties, ElementOfSeq

(* The initial state. *)
LEMMA InitInv == DexInit => DexInv
<1> SUFFICES ASSUME DexInit PROVE DexInv
  OBVIOUS
<1>1. Empty \in Ledgers /\ Valid(Empty) /\ Empty.charges = << >>
  BY EmptySeq DEF Empty, Ledgers, Valid
<1>2. wire = << >> /\ record = Empty /\ budget = Empty /\ pending = NoAttempt /\ ~prompt /\ op = Rest
      /\ ~held /\ live = NoCall /\ settled = 0 /\ next = 0
  BY DEF DexInit
<1>3. op.at = "idle"
  BY <1>2 DEF Rest
<1>4. DexTypeOK
  <2>1. wire \in Seq([call : Calls, nonce : Nat, state : {"sent", "ok", "reverted"}])
    BY <1>2, EmptySeq
  <2>2. next \in Nat /\ settled \in 0..next
    BY <1>2
  <2>3. stage \in [Scopes -> {"none", "preparing", "ready", "funded", "settled", "released"}]
    BY DEF DexInit
  <2>4. /\ expired \subseteq Scopes /\ prompt \in BOOLEAN /\ pending \in Charges \cup {NoAttempt}
        /\ lookups \subseteq Scopes /\ barred \subseteq lookups
        /\ held \in BOOLEAN /\ live \in Calls \cup {NoCall} /\ issued \in Scopes \cup {NoScope}
    BY DEF DexInit
  <2> QED  BY <1>1, <1>2, <2>1, <2>2, <2>3, <2>4 DEF DexTypeOK
<1>5. DOMAIN wire = {} /\ Len(wire) = 0 /\ DOMAIN record.charges = {} /\ Len(record.charges) = 0
      /\ DOMAIN budget.charges = {} /\ Len(budget.charges) = 0
  BY <1>1, <1>2
<1>6. Ledger
  BY <1>1, <1>2, <1>5 DEF Ledger, NoncesInOrder, WireIsKept, Sound, MeantIsNext, PendingIsLast,
     PromptIsUnsent, LiveIsHashed, Kept, Meant
<1>7. Step
  BY <1>3 DEF Step, Starts, Admits, Commits, Reserves, Asks, Sent, Remembers, Restores, Closes, At
<1>8. SentIsTraceable
  BY <1>5 DEF SentIsTraceable
<1> QED  BY <1>4, <1>6, <1>7, <1>8 DEF DexInv

(* The steps the type of op allows. *)
LEMMA OpTyped ==
  ASSUME DexTypeOK
  PROVE  /\ op.at \in Steps
         /\ op.at # "idle" => op \in [at : Steps, call : Calls, nonce : Nat]
         /\ Rest.at = "idle" /\ Rest \notin [at : Steps, call : Calls, nonce : Nat]
         /\ \A step \in Steps : op \in [at : Steps, call : Calls, nonce : Nat] =>
              [op EXCEPT !.at = step] \in [at : Steps, call : Calls, nonce : Nat]
<1> DEFINE Ops == [at : Steps, call : Calls, nonce : Nat]
<1>1. op \in Ops \cup {Rest}
  BY DEF DexTypeOK
<1>2. Rest.at = "idle" /\ Rest.call = NoCall /\ "idle" \in Steps
  BY DEF Rest, Steps
<1>3. Rest \notin Ops
  BY <1>2, NoCallIsNoCall
<1>4. ASSUME NEW step \in Steps, op \in Ops
      PROVE  [op EXCEPT !.at = step] \in Ops
  BY ONLY <1>4
<1>5. op \in Ops => op.at \in Steps
  BY ONLY TRUE
<1> QED  BY <1>1, <1>2, <1>3, <1>4, <1>5

(* A call of the page under way moves on, with its call and nonce. *)
LEMMA MovesToKeeps ==
  ASSUME DexTypeOK, op.at # "idle", NEW step \in Steps, MovesTo(step)
  PROVE  /\ op' \in [at : Steps, call : Calls, nonce : Nat]
         /\ op'.at = step /\ op'.call = op.call /\ op'.nonce = op.nonce
<1>1. op \in [at : Steps, call : Calls, nonce : Nat] /\ op' = [op EXCEPT !.at = step]
  BY OpTyped DEF MovesTo
<1> QED  BY ONLY <1>1, step \in Steps

(* A call of the page begins with the nonce it will use.                   *)
LEMMA BeginsWith ==
  ASSUME NEW step \in Steps, NEW c \in Calls, NEW n \in Nat, Begins(step, c, n)
  PROVE  /\ op' \in [at : Steps, call : Calls, nonce : Nat]
         /\ op'.at = step /\ op'.call = c /\ op'.nonce = n
  BY DEF Begins

(* The types, in three parts. *)
Entries == Seq([call : Calls, nonce : Nat, state : {"sent", "ok", "reverted"}])
Stages == [Scopes -> {"none", "preparing", "ready", "funded", "settled", "released"}]
Ops == [at : Steps, call : Calls, nonce : Nat]

ChainTyped ==
  /\ wire \in Entries /\ next \in Nat /\ settled \in 0..next
  /\ stage \in Stages /\ expired \subseteq Scopes /\ prompt \in BOOLEAN
StoreTyped ==
  /\ pending \in Charges \cup {NoAttempt}
  /\ lookups \subseteq Scopes /\ barred \subseteq lookups
  /\ record \in Ledgers /\ Valid(record)
PageTyped ==
  /\ held \in BOOLEAN /\ budget \in Ledgers
  /\ live \in Calls \cup {NoCall} /\ issued \in Scopes \cup {NoScope}
  /\ op \in Ops \cup {Rest}

(* The type invariant is that of its three parts.                          *)
LEMMA TypeParts == DexTypeOK <=> ChainTyped /\ StoreTyped /\ PageTyped
  BY DEF DexTypeOK, ChainTyped, StoreTyped, PageTyped, Entries, Stages, Ops

(* The parts of the types, after a step. *)
LEMMA TypePartsNext == DexTypeOK' <=> ChainTyped' /\ StoreTyped' /\ PageTyped'
  BY TypeParts, PTL

(* A part that a step leaves alone keeps its type. *)
LEMMA ChainStays ==
  ASSUME ChainTyped, UNCHANGED chain, prompt' \in BOOLEAN
  PROVE  ChainTyped'
  BY DEF ChainTyped, chain

(* So does what is stored.                                                 *)
LEMMA StoreStays ==
  ASSUME StoreTyped, UNCHANGED storage
  PROVE  StoreTyped'
  BY DEF StoreTyped, storage

(* A new record has the type of the budget it is written from. *)
LEMMA RecordTyped ==
  ASSUME StoreTyped, PageTyped, record' = budget, Valid(budget),
         UNCHANGED <<lookups, barred>>, pending' = pending \/ Cleared
  PROVE  StoreTyped'
  BY DEF StoreTyped, PageTyped, Cleared

(* The steps of a send keep the types. *)
LEMMA SendingTyped ==
  ASSUME DexInv, Sending
  PROVE  DexTypeOK'
<1>t. ChainTyped /\ StoreTyped /\ PageTyped /\ DexTypeOK
  BY TypeParts DEF DexInv
<1>s. {"idle", "admitted", "committed", "reserving", "asked", "sent", "hashed",
          "remembering", "closing", "restoring", "abandoning"} = Steps
  BY DEF Steps
<1>n. next \in Nat /\ 0 \in Nat
  BY <1>t DEF ChainTyped
<1>o. op.at # "idle" => op \in Ops
  BY <1>t, OpTyped DEF Ops
<1>c. \A p \in Phases, s \in Scopes : <<p, s>> \in Calls
  BY DEF Calls
<1>p. {"quote", "accept"} \subseteq Phases
  BY DEF Phases
<1>1. ASSUME NEW s \in Scopes, Quote(s) PROVE DexTypeOK'
  <2>1. op' \in Ops
    <3>1. <<"quote", s>> \in Calls /\ "admitted" \in Steps
      BY <1>c, <1>p, <1>s
    <3> QED  BY <1>1, <3>1, <1>n, BeginsWith DEF Quote, Ops
  <2>2. PageTyped'
    BY <1>1, <1>t, <2>1 DEF Quote, PageTyped, StoreTyped
  <2> QED  BY <1>1, <1>t, <2>2, ChainStays, StoreStays, TypePartsNext DEF Quote, ChainTyped
<1>2. ASSUME NEW s \in Scopes, Unfilled(s) PROVE DexTypeOK'
  <2>1. op' \in Ops
    <3>1. <<"accept", s>> \in Calls /\ "closing" \in Steps
      BY <1>c, <1>p, <1>s
    <3> QED  BY <1>2, <3>1, <1>n, BeginsWith DEF Unfilled, Ops
  <2>2. PageTyped'
    BY <1>2, <1>t, <2>1, CompleteKeeps DEF Unfilled, PageTyped
  <2> QED  BY <1>2, <1>t, <2>2, ChainStays, StoreStays, TypePartsNext DEF Unfilled, ChainTyped
<1>3. ASSUME NEW p \in Phases, NEW s \in Scopes, Act(p, s) PROVE DexTypeOK'
  <2>1. op' \in Ops
    <3>1. <<p, s>> \in Calls /\ "admitted" \in Steps
      BY <1>c, <1>s
    <3> QED  BY <1>3, <3>1, <1>n, BeginsWith DEF Act, Ops
  <2>2. PageTyped'
    BY <1>3, <1>t, <2>1 DEF Act, PageTyped
  <2> QED  BY <1>3, <1>t, <2>2, ChainStays, StoreStays, TypePartsNext DEF Act, ChainTyped
<1>4. ASSUME Commit PROVE DexTypeOK'
  <2>1. op \in Ops /\ op.call \in Calls /\ op.nonce \in Nat /\ op.call[2] \in Scopes
    <3>1. op \in Ops
      BY <1>4, <1>o DEF Commit, At
    <3>2. op.call \in Calls /\ op.nonce \in Nat
      BY <3>1 DEF Ops
    <3> QED  BY <3>1, <3>2 DEF Calls
  <2>2. op' \in Ops
    BY <1>4, <1>s, <1>t, MovesToKeeps DEF Commit, At, Ops
  <2>3. budget' \in Ledgers
    <3> DEFINE l == Charge(budget, op.call, op.nonce)
    <3>1. l \in Ledgers /\ l.active \in Scopes \cup {NoScope}
      BY <2>1, <1>t, ChargeAdds DEF PageTyped, Ledgers
    <3>2. budget' = [l EXCEPT !.active = IF op.call[1] = "quote" THEN op.call[2] ELSE l.active]
      BY <1>4 DEF Commit
    <3> HIDE DEF l
    <3> QED  BY <2>1, <3>1, <3>2, ActiveKeeps
  <2>4. PageTyped'
    BY <1>4, <1>t, <2>2, <2>3 DEF Commit, PageTyped
  <2> QED  BY <1>4, <1>t, <2>4, ChainStays, StoreStays, TypePartsNext DEF Commit, ChainTyped
<1>5. ASSUME Persist PROVE DexTypeOK'
  <2>1. op' \in Ops
    BY <1>5, <1>s, <1>t, MovesToKeeps DEF Persist, At, Ops
  <2>2. PageTyped'
    BY <1>5, <1>t, <2>1 DEF Persist, PageTyped
  <2> QED  BY <1>5, <1>t, <2>2, ChainStays, RecordTyped, TypePartsNext DEF Persist, ChainTyped
<1>6. ASSUME Reserve PROVE DexTypeOK'
  <2>1. op' \in Ops
    BY <1>6, <1>s, <1>t, MovesToKeeps DEF Reserve, At, Ops
  <2>2. PageTyped'
    BY <1>6, <1>t, <2>1 DEF Reserve, PageTyped
  <2>3. pending' \in Charges
    <3>1. op \in Ops
      BY <1>6, <1>o DEF Reserve, At
    <3> QED  BY <1>6, <3>1 DEF Reserve, Charges, Ops
  <2>4. StoreTyped'
    BY <1>6, <1>t, <2>3 DEF Reserve, StoreTyped
  <2> QED  BY <1>6, <1>t, <2>2, <2>4, ChainStays, TypePartsNext DEF Reserve
<1>7. ASSUME Fails \/ Throws PROVE DexTypeOK'
  <2>1. PageTyped'
    BY <1>7, <1>t DEF Fails, Throws, Ends, PageTyped
  <2> QED
    BY <1>7, <1>t, <2>1, ChainStays, StoreStays, TypePartsNext DEF Fails, Throws, ChainTyped
<1>8. ASSUME WalletSends PROVE DexTypeOK'
  <2>1. op' \in Ops \cup {Rest}
    <3>1. CASE At("asked")
      BY <1>8, <3>1, <1>s, <1>t, MovesToKeeps DEF WalletSends, At, Ops
    <3>2. CASE ~At("asked")
      BY <1>8, <3>2, <1>t DEF WalletSends, PageTyped
    <3> QED  BY <3>1, <3>2
  <2>2. PageTyped'
    BY <1>8, <1>t, <2>1 DEF WalletSends, PageTyped
  <2>3. pending \in Charges
    <3>1. pending # NoAttempt
      BY <1>8 DEF WalletSends, DexInv, Ledger, PromptIsUnsent
    <3> QED  BY <3>1, <1>t DEF StoreTyped
  <2>4. wire' \in Entries
    <3> DEFINE e == [call |-> pending.call, nonce |-> next, state |-> "sent"]
    <3>1. e \in [call : Calls, nonce : Nat, state : {"sent", "ok", "reverted"}]
      BY <2>3, <1>n DEF Charges
    <3>2. wire' = Append(wire, e)
      BY <1>8 DEF WalletSends
    <3> HIDE DEF e
    <3> QED  BY <3>1, <3>2, <1>t DEF ChainTyped, Entries
  <2>5. ChainTyped'
    <3>1. next' = next + 1 /\ settled' = settled /\ settled \in 0..next
      BY <1>8, <1>t DEF WalletSends, ChainTyped
    <3>2. next' \in Nat /\ settled' \in 0..next'
      BY <3>1, <1>n
    <3>3. prompt' = FALSE /\ UNCHANGED <<stage, expired>>
      BY <1>8 DEF WalletSends
    <3> QED  BY <1>t, <2>4, <3>2, <3>3 DEF ChainTyped
  <2> QED  BY <1>8, <1>t, <2>2, <2>5, StoreStays, TypePartsNext DEF WalletSends
<1>9. ASSUME WalletRejects PROVE DexTypeOK'
  <2>1. PageTyped'
    BY <1>9, <1>t DEF WalletRejects, Ends, PageTyped, MovesTo
  <2> QED  BY <1>9, <1>t, <2>1, ChainStays, StoreStays, TypePartsNext DEF WalletRejects
<1>10. ASSUME HashReturned PROVE DexTypeOK'
  <2>1. op' \in Ops
    BY <1>10, <1>s, <1>t, MovesToKeeps DEF HashReturned, At, Ops
  <2>2. PageTyped'
    BY <1>10, <1>t, <2>1 DEF HashReturned, PageTyped
  <2>3. pending \in Charges
    BY <1>10, <1>t DEF HashReturned, At, DexInv, Step, Asks, StoreTyped
  <2>4. pending' \in Charges
    BY <1>10, <2>3 DEF HashReturned, Charges
  <2>5. StoreTyped'
    BY <1>10, <1>t, <2>4 DEF HashReturned, StoreTyped
  <2> QED  BY <1>10, <1>t, <2>2, <2>5, ChainStays, TypePartsNext DEF HashReturned, ChainTyped
<1>11. ASSUME Submitted PROVE DexTypeOK'
  <2>1. op' \in Ops /\ op.nonce \in Nat
    BY <1>11, <1>s, <1>t, <1>o, MovesToKeeps DEF Submitted, At, Ops
  <2>2. PageTyped'
    BY <1>11, <1>t, <2>1, WithHashKeeps DEF Submitted, PageTyped
  <2> QED  BY <1>11, <1>t, <2>2, ChainStays, StoreStays, TypePartsNext DEF Submitted, ChainTyped
<1>12. ASSUME RememberHash PROVE DexTypeOK'
  <2>1. op.call \in Calls
    BY <1>12, <1>o DEF RememberHash, At, Ops
  <2>2. PageTyped'
    BY <1>12, <1>t, <2>1 DEF RememberHash, PageTyped, Ends
  <2>3. Valid(budget)
    BY <1>12 DEF RememberHash, At, DexInv, Step, Asks
  <2> QED
    BY <1>12, <1>t, <2>2, <2>3, ChainStays, RecordTyped, TypePartsNext DEF RememberHash, ChainTyped
<1> QED
  BY <1>1, <1>2, <1>3, <1>4, <1>5, <1>6, <1>7, <1>8, <1>9, <1>10, <1>11, <1>12 DEF Sending

(* The page verifies a call of its own; what it saved is cleared. *)
LEMMA ClearedTyped == Cleared => pending' \in Charges \cup {NoAttempt}
  BY DEF Cleared

(* So do the steps that verify and reconcile. *)
LEMMA CheckingTyped ==
  ASSUME DexInv, Checking
  PROVE  DexTypeOK'
<1>t. ChainTyped /\ StoreTyped /\ PageTyped /\ DexTypeOK
  BY TypeParts DEF DexInv
<1>s. {"closing", "restoring", "abandoning"} \subseteq Steps
  BY DEF Steps
<1>c. \A p \in Phases, s \in Scopes : <<p, s>> \in Calls
  BY DEF Calls
<1>p. {"quote", "accept", "cancel", "recover"} = Phases
  BY DEF Phases
<1>r. \A s \in Scopes : Complete(budget, s) \in Ledgers
  BY <1>t, CompleteKeeps DEF PageTyped
<1>q. NoCall \in Calls \cup {NoCall} /\ NoScope \in Scopes \cup {NoScope}
  OBVIOUS
<1>1. ASSUME NEW s \in Scopes, VerifyQuote(s) \/ VerifyAccept(s) PROVE DexTypeOK'
  <2>1. PageTyped'
    BY <1>1, <1>t DEF VerifyQuote, VerifyAccept, PageTyped
  <2>2. StoreTyped'
    BY <1>1, <1>t, ClearedTyped DEF VerifyQuote, VerifyAccept, StoreTyped
  <2> QED
    BY <1>1, <1>t, <2>1, <2>2, ChainStays, TypePartsNext DEF VerifyQuote, VerifyAccept, ChainTyped
<1>2. ASSUME NEW s \in Scopes, VerifyFast(s) PROVE DexTypeOK'
  <2>0. live = <<"accept", s>> /\ live \in Calls
    BY <1>2, <1>c, <1>p DEF VerifyFast, Verifies
  <2>1. op' \in Ops
    BY <1>2, <2>0, <1>s, BeginsWith DEF VerifyFast, Ops
  <2>2. PageTyped'
    BY <1>2, <1>t, <2>1, <1>r DEF VerifyFast, PageTyped
  <2>3. StoreTyped'
    BY <1>2, <1>t, ClearedTyped DEF VerifyFast, StoreTyped
  <2> QED  BY <1>2, <1>t, <2>2, <2>3, ChainStays, TypePartsNext DEF VerifyFast, ChainTyped
<1>3. ASSUME NEW s \in Scopes, VerifyRelease(s) PROVE DexTypeOK'
  <2>0. live \in Calls
    BY <1>3, <1>c, <1>p DEF VerifyRelease, Verifies
  <2>1. op' \in Ops
    BY <1>3, <2>0, <1>s, BeginsWith DEF VerifyRelease, Ops
  <2>2. PageTyped'
    BY <1>3, <1>t, <2>1, <1>r DEF VerifyRelease, PageTyped
  <2>3. StoreTyped'
    BY <1>3, <1>t, ClearedTyped DEF VerifyRelease, StoreTyped
  <2> QED  BY <1>3, <1>t, <2>2, <2>3, ChainStays, TypePartsNext DEF VerifyRelease, ChainTyped
<1>4. ASSUME NEW s \in Scopes, ReadDelivery(s) PROVE DexTypeOK'
  <2>0. <<"accept", s>> \in Calls
    BY <1>c, <1>p
  <2>1. op' \in Ops
    BY <1>4, <2>0, <1>s, BeginsWith DEF ReadDelivery, Ops
  <2>2. PageTyped'
    BY <1>4, <1>t, <2>1, <1>r DEF ReadDelivery, PageTyped
  <2>3. StoreTyped'
    BY <1>4, <1>t DEF ReadDelivery, StoreTyped
  <2> QED  BY <1>4, <1>t, <2>2, <2>3, ChainStays, TypePartsNext DEF ReadDelivery, ChainTyped
<1>5. ASSUME NEW s \in Scopes, Bar(s) \/ LetGo(s) PROVE DexTypeOK'
  <2>1. PageTyped'
    BY <1>5, <1>t DEF Bar, LetGo, PageTyped, memory
  <2>2. StoreTyped'
    BY <1>5, <1>t DEF Bar, LetGo, StoreTyped, storage
  <2> QED  BY <1>5, <1>t, <2>1, <2>2, ChainStays, TypePartsNext DEF Bar, LetGo, ChainTyped
<1>6. ASSUME NEW s \in Scopes, Restore(s) PROVE DexTypeOK'
  <2>0. <<"quote", s>> \in Calls
    BY <1>c, <1>p
  <2>1. op' \in Ops
    BY <1>6, <2>0, <1>s, BeginsWith DEF Restore, Ops
  <2>2. budget' \in Ledgers
    <3>1. CASE pending = NoAttempt
      BY <1>6, <3>1, <1>t DEF Restore, StoreTyped
    <3>2. CASE pending # NoAttempt
      <4>1. pending.nonce \in Nat
        BY <3>2, <1>t DEF StoreTyped, Charges
      <4> QED  BY <1>6, <3>2, <4>1, <1>t, WithHashKeeps DEF Restore, StoreTyped, Filled
    <3> QED  BY <3>1, <3>2
  <2>3. PageTyped'
    BY <1>6, <1>t, <2>1, <2>2 DEF Restore, PageTyped
  <2> QED  BY <1>6, <1>t, <2>3, ChainStays, StoreStays, TypePartsNext DEF Restore, ChainTyped
<1>7. ASSUME NEW s \in Scopes, Discard(s) PROVE DexTypeOK'
  <2>1. PageTyped'
    BY <1>7, <1>t, <1>r DEF Discard, PageTyped
  <2>2. record' = Complete(record, s) /\ Complete(record, s) \in Ledgers /\ Hashed(Complete(record, s))
    BY <1>7, <1>t, CompleteKeeps DEF Discard, StoreTyped, Hashed
  <2>3. StoreTyped'
    BY <1>7, <1>t, <2>2, HashedIsValid DEF Discard, StoreTyped
  <2> QED  BY <1>7, <1>t, <2>1, <2>3, ChainStays, TypePartsNext DEF Discard, ChainTyped
<1>8. ASSUME Close PROVE DexTypeOK'
  <2>1. PageTyped'
    BY <1>8, <1>t, <1>q DEF Close, PageTyped, Ends
  <2> QED  BY <1>8, <1>t, <2>1, ChainStays, RecordTyped, TypePartsNext DEF Close, ChainTyped
<1>9. ASSUME Reverted PROVE DexTypeOK'
  <2>1. pending \in Charges /\ pending.call \in Calls /\ pending.call[2] \in Scopes
    <3>1. pending \in Charges
      BY <1>9, <1>t DEF Reverted, StoreTyped
    <3>2. pending.call \in Calls
      BY <3>1 DEF Charges
    <3> QED  BY <3>1, <3>2 DEF Calls
  <2>2. PageTyped'
    <3>1. CASE pending.call[1] = "quote"
      <4>1. op' \in Ops
        BY <1>9, <3>1, <2>1, <1>s, BeginsWith DEF Reverted, Ops
      <4> QED  BY <1>9, <3>1, <2>1, <1>t, <4>1, <1>r DEF Reverted, PageTyped
    <3>2. CASE pending.call[1] # "quote"
      BY <1>9, <3>2, <1>t DEF Reverted, PageTyped
    <3> QED  BY <3>1, <3>2
  <2>3. StoreTyped'
    BY <1>9, <1>t, ClearedTyped DEF Reverted, StoreTyped
  <2> QED  BY <1>9, <1>t, <2>2, <2>3, ChainStays, TypePartsNext DEF Reverted, ChainTyped
<1>10. ASSUME Restored PROVE DexTypeOK'
  <2>1. Valid(budget)
    BY <1>10, HashedIsValid DEF Restored, At, DexInv, Step, Restores
  <2>2. op.call[2] \in Scopes
    <3>1. op.call \in Calls
      BY <1>10, <1>t, OpTyped DEF Restored, At, Ops
    <3> QED  BY <3>1 DEF Calls
  <2>3. PageTyped' /\ (pending' = pending \/ Cleared)
    <3>1. CASE Unfunded(op.call[2])
      <4>1. op' \in Ops
        BY <1>10, <3>1, <1>s, <1>t, MovesToKeeps DEF Restored, At, Ops
      <4> QED  BY <1>10, <3>1, <2>2, <4>1, <1>t, <1>r DEF Restored, PageTyped
    <3>2. CASE ~Unfunded(op.call[2])
      BY <1>10, <3>2, <2>2, <1>t DEF Restored, PageTyped, Ends
    <3> QED  BY <3>1, <3>2
  <2> QED
    BY <1>10, <1>t, <2>1, <2>3, ChainStays, RecordTyped, TypePartsNext DEF Restored, ChainTyped
<1>11. ASSUME Abandoned PROVE DexTypeOK'
  <2>1. Valid(budget)
    BY <1>11, HashedIsValid DEF Abandoned, At, DexInv, Step, Restores
  <2>2. op.call[2] \in Scopes
    <3>1. op.call \in Calls
      BY <1>11, <1>t, OpTyped DEF Abandoned, At, Ops
    <3> QED  BY <3>1 DEF Calls
  <2>3. PageTyped'
    BY <1>11, <1>t, <2>2 DEF Abandoned, PageTyped, Ends
  <2> QED
    BY <1>11, <1>t, <2>1, <2>3, ChainStays, RecordTyped, TypePartsNext DEF Abandoned, ChainTyped
<1>12. ASSUME NewQuote PROVE DexTypeOK'
  <2>1. PageTyped'
    BY <1>12, <1>t DEF NewQuote, PageTyped
  <2> QED  BY <1>12, <1>t, <2>1, ChainStays, StoreStays, TypePartsNext DEF NewQuote, ChainTyped
<1> QED
  BY <1>1, <1>2, <1>3, <1>4, <1>5, <1>6, <1>7, <1>8, <1>9, <1>10, <1>11, <1>12 DEF Checking

(* And what happens around the page. *)
LEMMA EnvironmentTyped ==
  ASSUME DexInv, Environment
  PROVE  DexTypeOK'
<1>t. ChainTyped /\ StoreTyped /\ PageTyped /\ DexTypeOK
  BY TypeParts DEF DexInv
<1>n. next \in Nat /\ settled \in 0..next
  BY <1>t DEF ChainTyped
<1>m. UNCHANGED memory => PageTyped'
  BY <1>t DEF memory, PageTyped
<1>1. ASSUME Reload PROVE DexTypeOK'
  <2>1. PageTyped'
    BY <1>1, EmptySeq DEF Reload, PageTyped, Empty, Ledgers
  <2> QED  BY <1>1, <1>t, <2>1, ChainStays, StoreStays, TypePartsNext DEF Reload, ChainTyped
<1>2. ASSUME Other PROVE DexTypeOK'
  <2>1. next' \in Nat /\ settled' \in 0..next'
    BY <1>2, <1>n DEF Other
  <2>2. ChainTyped'
    BY <1>2, <1>t, <2>1 DEF Other, ChainTyped
  <2> QED  BY <1>2, <1>t, <1>m, <2>2, StoreStays, TypePartsNext DEF Other
<1>3. ASSUME MineOther PROVE DexTypeOK'
  <2>1. settled' \in 0..next'
    BY <1>3, <1>n DEF MineOther
  <2>2. ChainTyped'
    BY <1>3, <1>t, <2>1 DEF MineOther, ChainTyped
  <2> QED  BY <1>3, <1>t, <1>m, <2>2, StoreStays, TypePartsNext DEF MineOther
<1>4. ASSUME NEW i \in DOMAIN wire, NEW state \in {"ok", "reverted"}, MineOwn(i, state)
      PROVE  DexTypeOK'
  <2>0. wire[i].nonce < next /\ wire[i] \in Sends /\ i \in 1..Len(wire) /\ wire \in Seq(Sends)
    BY <1>t, SequenceFacts DEF DexInv, Ledger, NoncesInOrder
  <2>1. settled' \in 0..next'
    BY <1>4, <1>n, <2>0 DEF MineOwn
  <2>2. wire' \in Entries
    <3> DEFINE e == [wire[i] EXCEPT !.state = state]
    <3>1. e \in Sends
      BY <2>0 DEF Sends
    <3>2. wire' = [wire EXCEPT ![i] = e]
      BY <1>4 DEF MineOwn
    <3> HIDE DEF e
    <3>3. wire' \in Seq(Sends)
      BY <3>1, <3>2, <2>0, ExceptSeq
    <3> QED  BY <3>3 DEF Entries, Sends
  <2>3. stage' \in Stages
    <3>1. wire[i].call \in Calls
      BY <2>0 DEF Sends
    <3>2. wire[i].call[2] \in Scopes
      BY <3>1 DEF Calls
    <3>3. \A p, s : Reached(p, s) \in {"ready", "preparing", "settled", "funded", "released"}
      BY DEF Reached
    <3> QED  BY <1>4, <1>t, <3>2, <3>3 DEF MineOwn, ChainTyped, Stages
  <2>4. ChainTyped'
    BY <1>4, <1>t, <2>1, <2>2, <2>3 DEF MineOwn, ChainTyped
  <2> QED  BY <1>4, <1>t, <1>m, <2>4, StoreStays, TypePartsNext DEF MineOwn
<1>5. ASSUME NEW s \in Scopes, Keeper(s) \/ Expire(s) PROVE DexTypeOK'
  <2>1. stage' \in Stages /\ expired' \subseteq Scopes
    BY <1>5, <1>t DEF Keeper, Expire, ChainTyped, Stages
  <2>2. ChainTyped'
    BY <1>5, <1>t, <2>1 DEF Keeper, Expire, ChainTyped
  <2> QED  BY <1>5, <1>t, <1>m, <2>2, StoreStays, TypePartsNext DEF Keeper, Expire
<1> QED  BY <1>1, <1>2, <1>3, <1>4, <1>5 DEF Environment, Mining

-----------------------------------------------------------------------------
(* The ledgers.                                                            *)

SequencesTyped ==
  /\ wire \in Seq(Sends) /\ Len(wire) \in Nat /\ DOMAIN wire = 1..Len(wire)
  /\ Len(Kept) \in Nat /\ DOMAIN Kept = 1..Len(Kept)
  /\ Kept # << >> => Len(Kept) \in 1..Len(Kept)
  /\ Len(Meant) \in Nat /\ DOMAIN Meant = 1..Len(Meant)
  /\ \A i \in DOMAIN wire :
       wire[i].call \in Calls /\ wire[i].nonce \in Nat /\ wire[i].call # NoCall
  /\ next \in Nat /\ settled \in Nat /\ settled <= next

(* The type invariant gives them.                                          *)
LEMMA SequencesAre == DexTypeOK => SequencesTyped
<1> SUFFICES ASSUME DexTypeOK PROVE SequencesTyped
  OBVIOUS
<1>1. next \in Nat /\ settled \in 0..next
  BY DEF DexTypeOK
<1>2. \A i \in DOMAIN wire :
        wire[i].call \in Calls /\ wire[i].nonce \in Nat /\ wire[i].call # NoCall
  BY SequenceFacts, NoCallIsNoCall DEF Sends
<1>3. Kept # << >> => Len(Kept) \in Nat \ {0}
  BY SequenceFacts, EmptySeq
<1>4. Kept # << >> => Len(Kept) \in 1..Len(Kept)
  BY ONLY <1>3
<1> QED  BY <1>1, <1>2, <1>4, SequenceFacts DEF SequencesTyped

Ledgered == Ledger /\ SentIsTraceable

(* A step that changes no charge, no attempt and nothing sent.             *)
LEMMA LedgerStays ==
  ASSUME DexInv, UNCHANGED <<wire, pending, held, Kept, Meant>>, NoncesInOrder',
         prompt' => prompt, live' \in {live, NoCall}
  PROVE  Ledgered'
<1>1. /\ WireIsKept' /\ Sound(record)' /\ Sound(budget)' /\ MeantIsNext' /\ PendingIsLast'
      /\ PromptIsUnsent' /\ LiveIsHashed'
  BY DEF DexInv, Ledger, WireIsKept, Sound, MeantIsNext, PendingIsLast,
         PromptIsUnsent, LiveIsHashed, Kept, Meant, LastMined
<1>2. held' => Covers(budget, record)'
  BY DEF DexInv, Ledger, Covers, Kept, Meant
<1>3. SentIsTraceable'
  BY DEF DexInv, SentIsTraceable, Kept
<1> QED  BY <1>1, <1>2, <1>3 DEF Ledgered, Ledger

(* With the nonces unchanged. *)
LEMMA NoncesStay ==
  ASSUME DexInv, UNCHANGED <<wire, next, settled>>
  PROVE  NoncesInOrder'
  BY DEF DexInv, Ledger, NoncesInOrder

(* The attempt is cleared, and what it sent is reverted or has its hash.   *)
LEMMA LedgerClears ==
  ASSUME DexInv, UNCHANGED <<wire, next, settled, prompt, held, Kept, Meant>>,
         ~prompt, Cleared, live' \in {live, NoCall},
         \A i \in DOMAIN wire :
           wire[i].call = pending.call /\ wire[i].state # "reverted" => Kept[i].hash
  PROVE  Ledgered'
<1>1. /\ NoncesInOrder' /\ WireIsKept' /\ Sound(record)' /\ Sound(budget)' /\ MeantIsNext'
      /\ PendingIsLast' /\ PromptIsUnsent'
  BY NoncesStay
     DEF DexInv, Ledger, WireIsKept, Sound, MeantIsNext, PendingIsLast,
         PromptIsUnsent, Kept, Meant, LastMined, Cleared
<1>2. LiveIsHashed'
  BY DEF LiveIsHashed, Cleared, NoAttempt
<1>3. held' => Covers(budget, record)'
  BY DEF DexInv, Ledger, Covers, Kept, Meant
<1>4. SentIsTraceable'
  BY DEF DexInv, SentIsTraceable, Kept
<1> QED  BY <1>1, <1>2, <1>3, <1>4 DEF Ledgered, Ledger

(* Only one transaction is of a call.                                      *)
LEMMA SentOnce ==
  ASSUME DexInv
  PROVE  \A i, j \in DOMAIN wire : wire[i].call = wire[j].call => i = j
<1>1. SequencesTyped
  BY SequencesAre DEF DexInv
<1>2. WireIsKept /\ Sound(record)
  BY DEF DexInv, Ledger
<1> SUFFICES ASSUME NEW i \in DOMAIN wire, NEW j \in DOMAIN wire, wire[i].call = wire[j].call
             PROVE  i = j
  OBVIOUS
<1>3. i \in DOMAIN Kept /\ j \in DOMAIN Kept
  BY <1>1, <1>2 DEF SequencesTyped, WireIsKept
<1>4. Kept[i].call = wire[i].call /\ Kept[j].call = wire[j].call
  BY <1>2 DEF WireIsKept
<1>5. \A m, n \in DOMAIN Kept : Kept[m].call = Kept[n].call => m = n
  BY <1>2 DEF Sound, Kept
<1> QED  BY ONLY <1>3, <1>4, <1>5, wire[i].call = wire[j].call

(* The call that is pending is the last one recorded: if it was sent, it   *)
(* was sent last.                                                          *)
LEMMA SentLast ==
  ASSUME DexInv, pending # NoAttempt, NEW k \in DOMAIN wire, wire[k].call = pending.call
  PROVE  k = Len(Kept) /\ Len(wire) = Len(Kept) /\ ~prompt
<1>1. SequencesTyped
  BY SequencesAre DEF DexInv
<1>2. WireIsKept /\ Sound(record) /\ PendingIsLast /\ PromptIsUnsent
  BY DEF DexInv, Ledger
<1>3. /\ Len(wire) \in Nat /\ Len(Kept) \in Nat /\ DOMAIN wire = 1..Len(wire)
      /\ DOMAIN Kept = 1..Len(Kept) /\ Len(wire) <= Len(Kept)
  BY <1>1, <1>2 DEF SequencesTyped, WireIsKept
<1>4. k \in 1..Len(wire) /\ k \in 1..Len(Kept) /\ Len(Kept) \in 1..Len(Kept)
  BY ONLY <1>3, k \in DOMAIN wire
<1>5. Kept[k].call = wire[k].call /\ Kept[Len(Kept)].call = pending.call
  BY <1>2 DEF WireIsKept, PendingIsLast
<1>6. k = Len(Kept)
  BY <1>2, <1>3, <1>4, <1>5 DEF Sound, Kept
<1> DEFINE sent == Len(wire)
           kept == Len(Kept)
<1>7. sent \in Nat /\ kept \in Nat /\ sent <= kept /\ kept \in 1..sent
  BY <1>3, <1>4, <1>6
<1> HIDE DEF sent, kept
<1>8. sent = kept /\ ~(kept = sent + 1)
  BY ONLY <1>7
<1> QED  BY <1>2, <1>6, <1>8 DEF PromptIsUnsent, sent, kept

(* The budget becomes the record, when it has no call more than it.        *)
LEMMA LedgerWrites ==
  ASSUME DexInv, held, Len(Meant) = Len(Kept), record' = budget, UNCHANGED Meant,
         UNCHANGED <<wire, next, settled, prompt, held>>,
         pending' = pending \/ (Cleared /\ Hashed(budget) /\ ~prompt),
         live' # NoCall /\ pending'.call = live' => Meant[Len(Meant)].hash
  PROVE  Ledgered'
<1>1. SequencesTyped
  BY SequencesAre DEF DexInv
<1>2. Kept' = Meant /\ Meant' = Meant /\ Covers(budget, record) /\ Len(Kept') = Len(Kept)
  BY DEF DexInv, Ledger, Kept, Meant
<1>3. NoncesInOrder'
  BY NoncesStay
<1>4. WireIsKept'
  BY <1>1, <1>2 DEF DexInv, Ledger, WireIsKept, Covers, Kept, Meant, SequencesTyped
<1>5. Sound(record)' /\ Sound(budget)'
  BY <1>2 DEF DexInv, Ledger, Sound, Kept, Meant
<1>6. Covers(budget, record)'
  BY <1>1, <1>2 DEF Covers, Kept, Meant, SequencesTyped
<1>7. MeantIsNext'
  <2>1. Kept' = Meant /\ Meant' = Meant /\ Len(Meant) \in Nat
    BY <1>1, <1>2 DEF SequencesTyped
  <2>2. ~(Len(Meant') > Len(Kept'))
    BY ONLY <2>1
  <2> QED  BY <2>2 DEF MeantIsNext
<1>8. PendingIsLast' /\ PromptIsUnsent'
  <2>1. CASE pending' = pending
    <3>1. pending # NoAttempt =>
            /\ Kept # << >> /\ Len(Kept) \in 1..Len(Kept)
            /\ Kept[Len(Kept)].call = pending.call /\ Kept[Len(Kept)].nonce = pending.nonce
            /\ pending.hash => Len(wire) = Len(Kept)
      BY <1>1 DEF DexInv, Ledger, PendingIsLast, SequencesTyped
    <3>2. pending # NoAttempt =>
            /\ Meant[Len(Kept)].call = pending.call /\ Meant[Len(Kept)].nonce = pending.nonce
            /\ Meant # << >>
      BY <1>1, <1>2, <3>1 DEF Covers, Kept, Meant, SequencesTyped
    <3>3. PendingIsLast'
      BY <1>2, <2>1, <3>1, <3>2 DEF PendingIsLast
    <3>4. PromptIsUnsent'
      BY <1>2, <2>1 DEF DexInv, Ledger, PromptIsUnsent, LastMined
    <3> QED  BY <3>3, <3>4
  <2>2. CASE Cleared /\ ~prompt
    BY <2>2 DEF Cleared, PendingIsLast, PromptIsUnsent
  <2> QED  BY <2>1, <2>2
<1>9. LiveIsHashed'
  BY <1>2 DEF LiveIsHashed
<1>10. SentIsTraceable'
  <2> SUFFICES ASSUME NEW i \in DOMAIN wire, wire[i].state # "reverted"
               PROVE  Meant[i].hash \/ (pending'.call = wire[i].call /\ pending'.nonce = wire[i].nonce)
    BY <1>2 DEF SentIsTraceable, Kept
  <2>1. i \in DOMAIN Kept /\ i \in DOMAIN Meant
    BY <1>1, <1>2 DEF DexInv, Ledger, WireIsKept, SequencesTyped
  <2>2. CASE pending' = pending
    BY <1>2, <2>1, <2>2 DEF DexInv, SentIsTraceable, Covers, Kept, Meant
  <2>3. CASE Hashed(budget)
    BY <2>1, <2>3 DEF Hashed, Meant
  <2> QED  BY <2>2, <2>3
<1> QED
  BY <1>3, <1>4, <1>5, <1>6, <1>7, <1>8, <1>9, <1>10 DEF Ledgered, Ledger

(* What the page does between two calls asks nothing of the ledgers.       *)
LEMMA StepRests == op'.at = "idle" => Step'
  BY DEF Step, Starts, Admits, Commits, Reserves, Asks, Sent, Remembers, Restores, Closes, At

(* Nor does a call that closes where no attempt is saved.                  *)
LEMMA StepCloses == op'.at = "closing" /\ pending' = NoAttempt => Step'
  BY DEF Step, Starts, Admits, Commits, Reserves, Asks, Sent, Remembers, Restores, Closes, At

(* A page at rest is idle.                                                 *)
LEMMA RestRests == Rest.at = "idle"
  BY DEF Rest

(* A step elsewhere leaves the page where it was.                          *)
LEMMA StepStays ==
  ASSUME DexInv, UNCHANGED <<pending, record, held, budget, live, op>>,
         Len(wire') = Len(wire), LastMined => LastMined'
  PROVE  Step'
  BY DEF DexInv, Step, Starts, Admits, Commits, Reserves, Asks, Sent, Remembers, Restores,
         Closes, At, Kept, Meant

-----------------------------------------------------------------------------
(* The steps of a send.                                                    *)

(* What a step of the page is to keep, the types aside.                    *)
BooksKept == Ledgered /\ Step

(* When nothing of the wallet is unmined, nothing of ours is; and when     *)
(* every charge has its hash, every charge was sent.                       *)
LEMMA QuietIsMined ==
  ASSUME DexInv, Quiet
  PROVE  LastMined
<1>1. SequencesTyped /\ NoncesInOrder
  BY SequencesAre DEF DexInv, Ledger
<1>2. CASE wire = << >>
  BY <1>2 DEF LastMined
<1>3. CASE wire # << >>
  <2>1. Len(wire) \in DOMAIN wire
    <3>1. Len(wire) \in Nat \ {0}
      BY <1>1, <1>3, EmptySeq DEF SequencesTyped
    <3>2. Len(wire) \in 1..Len(wire)
      BY ONLY <3>1
    <3> QED  BY <1>1, <3>2 DEF SequencesTyped
  <2>2. wire[Len(wire)].nonce \in Nat /\ wire[Len(wire)].nonce < settled /\ settled \in Nat
    BY <1>1, <2>1 DEF Quiet, NoncesInOrder, SequencesTyped
  <2>3. ~(settled <= wire[Len(wire)].nonce)
    BY ONLY <2>2
  <2> QED  BY <1>1, <2>1, <2>3 DEF NoncesInOrder, LastMined
<1> QED  BY <1>2, <1>3

(* A charge with a hash was sent.                                          *)
LEMMA HashedIsSent ==
  ASSUME DexInv, Hashed(record)
  PROVE  Len(wire) = Len(Kept)
<1> DEFINE sent == Len(wire)
           kept == Len(Kept)
<1>1. SequencesTyped /\ WireIsKept /\ Sound(record)
  BY SequencesAre DEF DexInv, Ledger
<1>2. sent \in Nat /\ kept \in Nat /\ sent <= kept /\ DOMAIN Kept = 1..kept
  BY <1>1 DEF SequencesTyped, WireIsKept
<1>3. \A k \in DOMAIN Kept : k <= sent
  BY <1>1 DEF Hashed, Sound, Kept
<1> HIDE DEF sent, kept
<1>4. kept # 0 => kept \in 1..kept
  BY ONLY <1>2
<1>5. kept # 0 => kept <= sent
  BY <1>2, <1>3, <1>4
<1>6. sent = kept
  BY ONLY <1>2, <1>5
<1> QED  BY <1>6 DEF sent, kept

(* The page starts from what is recorded.                                  *)
LEMMA QuoteKeeps ==
  ASSUME DexInv, NEW s \in Scopes, Quote(s)
  PROVE  BooksKept'
<1>1. SequencesTyped
  BY SequencesAre DEF DexInv
<1>2. /\ UNCHANGED <<wire, next, settled, prompt, pending, record, live>>
      /\ held' = TRUE /\ budget' = record /\ Hashed(record) /\ pending = NoAttempt /\ live = NoCall
      /\ ~Charged(record, <<"quote", s>>)
  BY DEF Quote, chain, storage
<1>3. op'.at = "admitted" /\ op'.call = <<"quote", s>>
  BY DEF Quote, Begins
<1>4. Kept' = Kept /\ Meant' = Kept
  BY <1>2 DEF Kept, Meant
<1>5. /\ NoncesInOrder' /\ WireIsKept' /\ Sound(record)' /\ Sound(budget)'
      /\ PendingIsLast' /\ PromptIsUnsent' /\ LiveIsHashed'
  BY <1>2, <1>4, NoncesStay
     DEF DexInv, Ledger, WireIsKept, Sound, PendingIsLast, PromptIsUnsent, LiveIsHashed,
         LastMined
<1>6. Covers(budget, record)'
  BY <1>1, <1>2 DEF Covers, SequencesTyped, Kept
<1>7. MeantIsNext'
  <2> DEFINE kept == Len(Kept)
  <2>1. kept \in Nat /\ Len(Meant') = kept /\ Len(Kept') = kept
    BY <1>1, <1>4 DEF SequencesTyped
  <2> HIDE DEF kept
  <2>2. ~(Len(Meant') > Len(Kept'))
    BY ONLY <2>1
  <2> QED  BY <2>2 DEF MeantIsNext
<1>8. SentIsTraceable'
  BY <1>2 DEF DexInv, SentIsTraceable
<1>9. Step'
  BY <1>2, <1>3
     DEF Step, Starts, Admits, Commits, Reserves, Asks, Sent, Remembers, Restores, Closes, At,
         Hashed, Charged
<1> QED  BY <1>5, <1>6, <1>7, <1>8, <1>9 DEF BooksKept, Ledgered, Ledger

(* A call of a quote that is open starts.                                  *)
LEMMA ActKeeps ==
  ASSUME DexInv, NEW p \in Phases, NEW s \in Scopes, Act(p, s)
  PROVE  BooksKept'
<1>1. /\ UNCHANGED <<wire, next, settled, prompt, pending, record, held, budget, live>>
      /\ held /\ Hashed(record) /\ pending = NoAttempt /\ live = NoCall
      /\ ~Charged(budget, <<p, s>>)
  BY DEF Act, Admitted, chain, storage
<1>2. op'.at = "admitted" /\ op'.call = <<p, s>>
  BY DEF Act, Begins
<1>3. Ledgered'
  BY <1>1, LedgerStays, NoncesStay DEF Kept, Meant
<1>4. Step'
  BY <1>1, <1>2
     DEF Step, Starts, Admits, Commits, Reserves, Asks, Sent, Remembers, Restores, Closes, At,
         Hashed, Charged
<1> QED  BY <1>3, <1>4 DEF BooksKept

(* A fast quote that turns out unfilled is closed.                         *)
LEMMA UnfilledKeeps ==
  ASSUME DexInv, NEW s \in Scopes, Unfilled(s)
  PROVE  BooksKept'
<1>1. /\ UNCHANGED <<wire, next, settled, prompt, pending, record, held, live>>
      /\ pending = NoAttempt /\ budget' = Complete(budget, s) /\ op'.at = "closing"
  BY DEF Unfilled, Admitted, chain, storage, Begins
<1>2. Kept' = Kept /\ Meant' = Meant
  BY <1>1, CompleteKeeps DEF Kept, Meant, DexInv, DexTypeOK
<1>3. Ledgered'
  BY <1>1, <1>2, LedgerStays, NoncesStay
<1> QED  BY <1>1, <1>3, StepCloses DEF BooksKept

(* A charge is added to the budget while everything recorded is sent.      *)
LEMMA CommitKeeps ==
  ASSUME DexInv, Commit
  PROVE  BooksKept'
<1> DEFINE kept == Len(Kept)
           meant == Len(Meant)
<1>1. SequencesTyped /\ DexTypeOK
  BY SequencesAre DEF DexInv
<1>2. /\ UNCHANGED <<wire, next, settled, prompt, pending, record, held, live>>
      /\ At("admitted") /\ Quiet
  BY DEF Commit, Proceeds, chain, storage
<1>3. /\ held /\ pending = NoAttempt /\ live = NoCall /\ Hashed(record)
      /\ ~Charged(budget, op.call) /\ Covers(budget, record)
  BY <1>2 DEF DexInv, Step, Starts, Admits, At, Ledger
<1>4. op.call \in Calls /\ op.nonce \in Nat /\ op.call[2] \in Scopes
  <2>1. op.call \in Calls /\ op.nonce \in Nat
    BY <1>1, <1>2, OpTyped DEF At
  <2> QED  BY <2>1 DEF Calls
<1>5. op'.at = "committed" /\ op'.call = op.call /\ op'.nonce = op.nonce
  BY <1>1, MovesToKeeps DEF Commit, At, Steps
<1>6. /\ DOMAIN Meant = 1..meant /\ DOMAIN Meant' = 1..(meant + 1) /\ Len(Meant') = meant + 1
      /\ \A k \in 1..meant : Meant'[k] = Meant[k]
      /\ Meant'[meant + 1] = [call |-> op.call, nonce |-> op.nonce, hash |-> FALSE]
  <2> DEFINE l == Charge(budget, op.call, op.nonce)
  <2>1. budget \in Ledgers /\ l \in Ledgers /\ l.active \in Scopes \cup {NoScope}
    BY <1>1, <1>4, ChargeAdds DEF DexTypeOK, Ledgers
  <2>2. budget' = [l EXCEPT !.active = IF op.call[1] = "quote" THEN op.call[2] ELSE l.active]
    BY DEF Commit
  <2>3. Meant' = l.charges
    <3> HIDE DEF l
    <3> QED  BY <1>4, <2>1, <2>2, ActiveKeeps DEF Meant
  <2> QED  BY SMTT(40), <1>1, <1>4, <2>1, <2>3, ChargeAdds DEF SequencesTyped, Meant
<1>7. Kept' = Kept /\ meant \in Nat /\ kept \in Nat /\ kept <= meant /\ DOMAIN Kept = 1..kept
  BY <1>1, <1>2, <1>3 DEF Kept, Meant, SequencesTyped, Covers
<1>8. Len(wire) = kept /\ LastMined
  BY <1>2, <1>3, HashedIsSent, QuietIsMined
<1>9. Sound(budget)'
  <2>1. \A k \in 1..meant : Meant[k].call # op.call
    BY <1>3, <1>6 DEF Charged, Meant
  <2>2. /\ \A i, j \in 1..meant : Meant[i].call = Meant[j].call => i = j
        /\ \A i \in 1..meant : Meant[i].hash => i <= kept
    BY <1>6, <1>8 DEF DexInv, Ledger, Sound, Meant
  <2> HIDE DEF kept, meant
  <2>3. \A i \in 1..(meant + 1) : i \in 1..meant \/ i = meant + 1
    BY ONLY <1>7
  <2>4. \A i, j \in 1..(meant + 1) : Meant'[i].call = Meant'[j].call => i = j
    BY <1>6, <2>1, <2>2, <2>3
  <2>5. \A i \in 1..(meant + 1) : Meant'[i].hash => i <= kept
    BY <1>6, <2>2, <2>3
  <2> QED  BY <1>2, <1>6, <1>8, <2>4, <2>5 DEF Sound, Meant
<1>10. Covers(budget, record)'
  <2> HIDE DEF kept, meant
  <2>1. kept <= meant + 1 /\ \A k \in 1..kept : k \in 1..meant
    BY ONLY <1>7
  <2>2. \A k \in 1..kept : /\ Meant'[k].call = Kept[k].call /\ Meant'[k].nonce = Kept[k].nonce
                           /\ Kept[k].hash => Meant'[k].hash
    BY <1>3, <1>6, <1>7, <2>1 DEF Covers, Kept, Meant
  <2> QED  BY <1>6, <1>7, <2>1, <2>2 DEF Covers, Kept, Meant, kept
<1>11. /\ NoncesInOrder' /\ WireIsKept' /\ Sound(record)'
       /\ PendingIsLast' /\ PromptIsUnsent' /\ LiveIsHashed' /\ SentIsTraceable'
  BY <1>2, <1>7, NoncesStay
     DEF DexInv, Ledger, WireIsKept, Sound, PendingIsLast, PromptIsUnsent, LiveIsHashed,
         LastMined, Kept, SentIsTraceable
<1>12. MeantIsNext'
  BY <1>2, <1>3, <1>7, <1>8 DEF MeantIsNext, LastMined
<1>13. Step'
  <2>1. Meant'[Len(Meant')].call = op.call /\ Meant'[Len(Meant')].nonce = op.nonce
    BY <1>6
  <2>2. Len(Meant') > Len(Kept')
    <3>1. Len(Kept') = kept
      BY <1>7
    <3> HIDE DEF kept, meant
    <3> QED  BY ONLY <1>6, <1>7, <3>1
  <2> QED
    BY <1>2, <1>3, <1>5, <2>1, <2>2
       DEF Step, Starts, Admits, Commits, Reserves, Asks, Sent, Remembers, Restores, Closes, At
<1> QED  BY <1>9, <1>10, <1>11, <1>12, <1>13 DEF BooksKept, Ledgered, Ledger

(* What the budget had ahead becomes the last charge of the record.        *)
LEMMA NewChargeIsNext ==
  ASSUME DexInv, held, Len(Meant) > Len(Kept), Valid(budget)
  PROVE  /\ Len(Meant) = Len(Kept) + 1 /\ Len(Kept) = Len(wire)
         /\ LastMined /\ pending = NoAttempt
<1> DEFINE sent == Len(wire)
           kept == Len(Kept)
           meant == Len(Meant)
<1>1. SequencesTyped /\ Sound(budget)
  BY SequencesAre DEF DexInv, Ledger
<1>2. sent = kept /\ LastMined /\ pending = NoAttempt
  BY DEF DexInv, Ledger, MeantIsNext
<1>3. kept \in Nat /\ meant \in Nat /\ meant > kept /\ DOMAIN Meant = 1..meant
  BY <1>1 DEF SequencesTyped
<1>4. \A k \in 1..meant : k = meant \/ k <= sent
  BY <1>1, <1>3 DEF Valid, Sound, Meant
<1> HIDE DEF sent, kept, meant
<1>5. meant = kept + 1
  <2>1. meant # kept + 1 => kept + 1 \in 1..meant /\ ~(kept + 1 <= sent)
    BY ONLY <1>2, <1>3
  <2> QED  BY <1>4, <2>1
<1> QED  BY <1>2, <1>5 DEF sent, kept, meant

(* The record grows by the charge of a call that may be sent next.         *)
LEMMA LedgerGrows ==
  ASSUME DexInv, held, Len(Meant) > Len(Kept), Valid(budget), record' = budget,
         UNCHANGED <<Meant, wire, next, settled, prompt, pending, held>>
  PROVE  Ledgered' /\ Len(Kept') = Len(wire) + 1 /\ Kept' = Meant
<1> DEFINE sent == Len(wire)
           kept == Len(Kept)
           meant == Len(Meant)
<1>1. SequencesTyped
  BY SequencesAre DEF DexInv
<1>2. /\ Kept' = Meant /\ Covers(budget, record) /\ LastMined /\ pending = NoAttempt
      /\ meant = sent + 1 /\ sent = kept /\ sent \in Nat
  BY <1>1, NewChargeIsNext DEF DexInv, Ledger, Kept, Meant, SequencesTyped
<1>3. ~prompt
  BY <1>2 DEF DexInv, Ledger, PromptIsUnsent
<1>4. NoncesInOrder'
  BY NoncesStay
<1>5. WireIsKept'
  <2>1. Len(wire') = sent /\ Len(Kept') = meant
    BY <1>2
  <2>2. \A i \in DOMAIN wire : Meant[i].call = wire[i].call /\ Meant[i].nonce = wire[i].nonce
    BY <1>1, <1>2 DEF DexInv, Ledger, WireIsKept, Covers, Kept, Meant, SequencesTyped
  <2>3. Len(wire') <= Len(Kept') /\ Len(Kept') <= Len(wire') + 1
    <3> HIDE DEF sent, kept, meant
    <3> QED  BY ONLY <1>2, <2>1
  <2> QED  BY <1>2, <2>2, <2>3 DEF WireIsKept
<1>6. Sound(record)' /\ Sound(budget)'
  BY <1>2 DEF DexInv, Ledger, Sound, Kept, Meant
<1>7. Covers(budget, record)' /\ MeantIsNext'
  <2>1. Len(Meant') = meant /\ Len(Kept') = meant
    BY <1>2
  <2>2. Len(Kept') <= Len(Meant') /\ ~(Len(Meant') > Len(Kept'))
    <3> HIDE DEF sent, kept, meant
    <3> QED  BY ONLY <1>2, <2>1
  <2> QED  BY <1>2, <2>2 DEF Covers, MeantIsNext, Kept, Meant
<1>8. PendingIsLast' /\ PromptIsUnsent' /\ LiveIsHashed'
  BY <1>2, <1>3 DEF PendingIsLast, PromptIsUnsent, LiveIsHashed, NoAttempt
<1>9. SentIsTraceable'
  BY <1>1, <1>2 DEF DexInv, Ledger, WireIsKept, SentIsTraceable, Covers, Kept, Meant, SequencesTyped
<1> QED  BY <1>2, <1>4, <1>5, <1>6, <1>7, <1>8, <1>9 DEF Ledgered, Ledger

(* The record becomes the budget, if it is written.                        *)
LEMMA PersistKeeps ==
  ASSUME DexInv, Persist
  PROVE  BooksKept'
<1>1. SequencesTyped /\ DexTypeOK
  BY SequencesAre DEF DexInv
<1>2. /\ UNCHANGED <<wire, next, settled, prompt, pending, held, budget, live>>
      /\ At("committed") /\ Valid(budget) /\ record' = budget
  BY DEF Persist, chain
<1>3. /\ held /\ pending = NoAttempt /\ live = NoCall /\ Len(Meant) > Len(Kept)
      /\ Meant[Len(Meant)].call = op.call /\ Meant[Len(Meant)].nonce = op.nonce
  BY <1>2 DEF DexInv, Step, Starts, Commits, At
<1>4. Meant' = Meant
  BY <1>2 DEF Meant
<1>5. Ledgered' /\ Len(Kept') = Len(wire) + 1 /\ Kept' = Meant
  BY <1>2, <1>3, <1>4, LedgerGrows
<1>6. op'.at = "reserving" /\ op'.call = op.call /\ op'.nonce = op.nonce
  BY <1>1, MovesToKeeps DEF Persist, At, Steps
<1>7. LastMined' /\ Valid(budget') /\ Len(wire') = Len(wire) /\ Len(Kept') = Len(Meant')
  BY <1>2, <1>3, <1>4, <1>5, NewChargeIsNext DEF LastMined
<1>8. Step'
  BY <1>2, <1>3, <1>4, <1>5, <1>6, <1>7
     DEF Step, Starts, Admits, Commits, Reserves, Asks, Sent, Remembers, Restores, Closes, At
<1> QED  BY <1>5, <1>8 DEF BooksKept

(* The attempt is reserved before the wallet is asked.                     *)
LEMMA ReserveKeeps ==
  ASSUME DexInv, Reserve
  PROVE  BooksKept'
<1>1. SequencesTyped /\ DexTypeOK
  BY SequencesAre DEF DexInv
<1>2. /\ UNCHANGED <<wire, next, settled, record, held, budget, live>>
      /\ At("reserving") /\ prompt' = TRUE
      /\ pending' = [call |-> op.call, nonce |-> op.nonce, hash |-> FALSE]
  BY DEF Reserve, chain
<1>3. /\ held /\ pending = NoAttempt /\ live = NoCall /\ Valid(budget) /\ Len(Meant) = Len(Kept)
      /\ Len(Kept) = Len(wire) + 1 /\ LastMined
      /\ Kept[Len(Kept)].call = op.call /\ Kept[Len(Kept)].nonce = op.nonce
  BY <1>2 DEF DexInv, Step, Starts, Reserves, At
<1>4. Kept' = Kept /\ Meant' = Meant /\ LastMined' /\ Kept # << >>
  <2>1. Len(wire) \in Nat /\ Len(Kept) = Len(wire) + 1
    BY <1>1, <1>3 DEF SequencesTyped
  <2>2. Len(Kept) # 0
    <3> DEFINE sent == Len(wire)
               kept == Len(Kept)
    <3>1. sent \in Nat /\ kept = sent + 1
      BY <2>1
    <3> HIDE DEF sent, kept
    <3>2. kept # 0
      BY ONLY <3>1
    <3> QED  BY <3>2 DEF kept
  <2> QED  BY <1>2, <1>3, <2>2, EmptySeq DEF Kept, Meant, LastMined
<1>5. op'.at = "asked" /\ op'.call = op.call /\ op'.nonce = op.nonce
  BY <1>1, MovesToKeeps DEF Reserve, At, Steps
<1>6. pending' # NoAttempt /\ pending'.call = op.call /\ pending'.nonce = op.nonce /\ ~pending'.hash
  <2>1. op.call \in Calls
    BY <1>1, <1>2, OpTyped DEF At
  <2> QED  BY <1>2, <2>1, NoCallIsNoCall DEF NoAttempt
<1>7. /\ NoncesInOrder' /\ WireIsKept' /\ Sound(record)' /\ Sound(budget)'
      /\ (held => Covers(budget, record))'
  BY <1>2, <1>4, NoncesStay DEF DexInv, Ledger, WireIsKept, Sound, Covers
<1>8. PendingIsLast' /\ PromptIsUnsent' /\ LiveIsHashed'
  BY <1>2, <1>3, <1>4, <1>6 DEF PendingIsLast, PromptIsUnsent, LiveIsHashed
<1>9. MeantIsNext'
  <2> DEFINE kept == Len(Kept)
  <2>1. kept \in Nat /\ Len(Meant') = kept /\ Len(Kept') = kept
    BY <1>1, <1>3, <1>4 DEF SequencesTyped
  <2> HIDE DEF kept
  <2>2. ~(Len(Meant') > Len(Kept'))
    BY ONLY <2>1
  <2> QED  BY <2>2 DEF MeantIsNext
<1>10. SentIsTraceable'
  BY <1>1, <1>2, <1>3 DEF DexInv, SentIsTraceable, SequencesTyped, NoAttempt
<1>11. Step'
  BY <1>2, <1>3, <1>4, <1>5, <1>6
     DEF Step, Starts, Admits, Commits, Reserves, Asks, Sent, Remembers, Restores, Closes, At
<1> QED  BY <1>7, <1>8, <1>9, <1>10, <1>11 DEF BooksKept, Ledgered, Ledger

(* A send that ends early leaves everything as it is.                      *)
LEMMA EndsKeep ==
  ASSUME DexInv, Fails \/ Throws \/ WalletRejects
  PROVE  BooksKept'
<1>1. /\ UNCHANGED <<wire, next, settled, pending, record, held, budget, live>>
      /\ prompt' => prompt
      /\ op' = Rest \/ op' = op
  BY DEF Fails, Throws, WalletRejects, Ends, chain, storage
<1>2. Ledgered'
  BY <1>1, LedgerStays, NoncesStay DEF Kept, Meant
<1>3. Step'
  BY <1>1, StepRests, RestRests, StepStays DEF LastMined
<1> QED  BY <1>2, <1>3 DEF BooksKept

(* The wallet sends the last call recorded, which was not sent before.     *)
LEMMA WalletSendsKeeps ==
  ASSUME DexInv, WalletSends
  PROVE  BooksKept'
<1> DEFINE sent == Len(wire)
           kept == Len(Kept)
           e == [call |-> pending.call, nonce |-> next, state |-> "sent"]
<1>1. SequencesTyped /\ DexTypeOK /\ NoncesInOrder /\ WireIsKept
  BY SequencesAre DEF DexInv, Ledger
<1>2. /\ UNCHANGED <<settled, pending, record, held, budget, live>>
      /\ prompt /\ prompt' = FALSE /\ next = pending.nonce /\ next' = next + 1
      /\ wire' = Append(wire, e)
  BY DEF WalletSends, storage
<1>3. /\ pending # NoAttempt /\ ~pending.hash /\ kept = sent + 1 /\ LastMined
      /\ Kept[kept].call = pending.call /\ Kept[kept].nonce = pending.nonce
  BY <1>2 DEF DexInv, Ledger, PromptIsUnsent, PendingIsLast
<1>4. /\ sent \in Nat /\ kept \in Nat /\ next \in Nat /\ settled \in Nat /\ settled <= next
      /\ DOMAIN wire = 1..sent
  BY <1>1 DEF SequencesTyped
<1>5. /\ Len(wire') = sent + 1 /\ DOMAIN wire' = 1..(sent + 1)
      /\ \A k \in 1..sent : wire'[k] = wire[k]
      /\ wire'[sent + 1] = e
  <2>1. e \in Sends
    <3>1. pending \in Charges
      BY <1>1, <1>3 DEF DexTypeOK
    <3> QED  BY <1>4, <3>1 DEF Sends, Charges
  <2> HIDE DEF e
  <2> QED  BY <1>1, <1>2, <2>1 DEF SequencesTyped
<1>6. Kept' = Kept /\ Meant' = Meant
  BY <1>2 DEF Kept, Meant
<1>7. e.call = pending.call /\ e.nonce = next /\ e.state = "sent"
  OBVIOUS
<1>s. \A k \in 1..(sent + 1) : k \in 1..sent \/ k = sent + 1
  <2> HIDE DEF sent
  <2> QED  BY ONLY <1>4
<1> HIDE DEF e
<1>8. NoncesInOrder'
  <2>1. \A k \in 1..sent : wire[k].nonce \in Nat /\ wire[k].nonce < next
                           /\ (wire[k].state = "sent" <=> settled <= wire[k].nonce)
    BY <1>1, <1>4 DEF NoncesInOrder, SequencesTyped
  <2>2. \A k \in 1..(sent + 1) : wire'[k].nonce < next'
                           /\ (wire'[k].state = "sent" <=> settled' <= wire'[k].nonce)
    <3> SUFFICES ASSUME NEW k \in 1..(sent + 1)
                 PROVE  wire'[k].nonce < next'
                           /\ (wire'[k].state = "sent" <=> settled' <= wire'[k].nonce)
      OBVIOUS
    <3>1. CASE k \in 1..sent
      <4>1. wire'[k] = wire[k]
        BY <1>5, <3>1
      <4>2. wire[k].nonce < next + 1
        BY <1>4, <2>1, <3>1
      <4> QED  BY <1>2, <2>1, <3>1, <4>1, <4>2
    <3>2. CASE k = sent + 1
      <4>1. wire'[k] = e /\ next < next + 1
        BY <1>4, <1>5, <3>2
      <4> QED  BY <1>2, <1>4, <1>7, <4>1
    <3> QED  BY <1>s, <3>1, <3>2
  <2>3. \A i, j \in 1..(sent + 1) : wire'[i].nonce = wire'[j].nonce => i = j
    <3>1. \A i, j \in 1..sent : wire[i].nonce = wire[j].nonce => i = j
      BY <1>1, <1>4 DEF NoncesInOrder
    <3>2. \A k \in 1..sent : wire[k].nonce # next
      BY <1>4, <2>1
    <3> QED  BY <1>s, <1>5, <1>7, <3>1, <3>2
  <2> QED  BY <1>5, <2>2, <2>3 DEF NoncesInOrder
<1>9. WireIsKept'
  <2>1. \A k \in 1..sent : Kept[k].call = wire[k].call /\ Kept[k].nonce = wire[k].nonce
    BY <1>1, <1>4 DEF WireIsKept
  <2>2. \A k \in 1..(sent + 1) : Kept[k].call = wire'[k].call /\ Kept[k].nonce = wire'[k].nonce
    BY <1>s, <1>2, <1>3, <1>5, <1>7, <2>1
  <2>3. Len(wire') <= Len(Kept') /\ Len(Kept') <= Len(wire') + 1
    <3>1. Len(Kept') = kept
      BY <1>6
    <3> HIDE DEF sent, kept
    <3> QED  BY ONLY <1>3, <1>4, <1>5, <3>1
  <2> QED  BY <1>5, <1>6, <2>2, <2>3 DEF WireIsKept
<1>10. Sound(record)' /\ Sound(budget)'
  <2>1. \A k \in Nat : k <= sent => k <= Len(wire')
    <3> HIDE DEF sent
    <3> QED  BY ONLY <1>4, <1>5
  <2>2. DOMAIN Kept \subseteq Nat /\ DOMAIN Meant \subseteq Nat
    BY <1>1 DEF SequencesTyped
  <2> QED  BY <1>2, <2>1, <2>2 DEF DexInv, Ledger, Sound, Kept, Meant
<1>11. (held => Covers(budget, record))'
  BY <1>2 DEF DexInv, Ledger, Covers
<1>12. MeantIsNext'
  BY <1>2, <1>3, <1>6 DEF DexInv, Ledger, MeantIsNext
<1>13. PendingIsLast' /\ PromptIsUnsent' /\ LiveIsHashed'
  BY <1>2, <1>3, <1>6 DEF DexInv, Ledger, PendingIsLast, PromptIsUnsent, LiveIsHashed
<1>14. SentIsTraceable'
  <2>1. \A k \in 1..sent : wire[k].state # "reverted" =>
           Kept[k].hash \/ (pending.call = wire[k].call /\ pending.nonce = wire[k].nonce)
    BY <1>4 DEF DexInv, SentIsTraceable, Kept
  <2>2. \A k \in 1..(sent + 1) : wire'[k].state # "reverted" =>
           Kept[k].hash \/ (pending.call = wire'[k].call /\ pending.nonce = wire'[k].nonce)
    BY <1>s, <1>2, <1>5, <1>7, <2>1
  <2> QED  BY <1>2, <1>5, <2>2 DEF SentIsTraceable, Kept
<1>15. Step'
  <2>1. ~(Len(wire) = Len(Kept))
    <3> HIDE DEF sent, kept
    <3>1. sent # kept
      BY ONLY <1>3, <1>4
    <3> QED  BY <3>1 DEF sent, kept
  <2>2. CASE At("asked")
    <3>1. op'.at = "sent" /\ op'.call = op.call /\ op'.nonce = op.nonce
      BY <1>1, <2>2, MovesToKeeps DEF WalletSends, At, Steps
    <3>2. /\ held /\ Valid(budget) /\ Len(Meant) = Len(Kept)
          /\ pending.call = op.call /\ pending.nonce = op.nonce
      BY <2>2 DEF DexInv, Step, Asks, At
    <3>3. Len(wire') = Len(Kept')
      BY <1>3, <1>5, <1>6
    <3> QED
      BY <1>2, <1>3, <1>6, <3>1, <3>2, <3>3
         DEF Step, Starts, Admits, Commits, Reserves, Asks, Sent, Remembers, Restores, Closes, At
  <2>3. CASE ~At("asked")
    <3>1. op' = op
      BY <2>3 DEF WalletSends
    <3>2. op.at = "idle"
      <4>1. op.at \in Steps
        BY <1>1, OpTyped
      <4>2. op.at \notin {"admitted", "committed", "reserving", "sent", "hashed", "remembering",
                          "restoring", "abandoning", "closing"}
        BY <1>3, <2>1 DEF DexInv, Step, Starts, Sent, Restores, Closes, At
      <4> QED  BY <2>3, <4>1, <4>2 DEF Steps, At
    <3> QED  BY <3>1, <3>2, StepRests
  <2> QED  BY <2>2, <2>3
<1> QED
  BY <1>8, <1>9, <1>10, <1>11, <1>12, <1>13, <1>14, <1>15 DEF BooksKept, Ledgered, Ledger

(* The wallet answers with the hash of what it sent.                       *)
LEMMA HashReturnedKeeps ==
  ASSUME DexInv, HashReturned
  PROVE  BooksKept'
<1>1. SequencesTyped /\ DexTypeOK
  BY SequencesAre DEF DexInv
<1>2. /\ UNCHANGED <<wire, next, settled, prompt, record, held, budget, live>>
      /\ At("sent") /\ pending' = [pending EXCEPT !.hash = TRUE]
  BY DEF HashReturned, chain
<1>3. /\ held /\ Valid(budget) /\ Len(Meant) = Len(Kept) /\ Len(wire) = Len(Kept)
      /\ pending # NoAttempt /\ pending.call = op.call /\ pending.nonce = op.nonce
  BY <1>2 DEF DexInv, Step, Asks, Sent, At
<1>4. pending'.call = pending.call /\ pending'.nonce = pending.nonce /\ pending'.hash
  <2>1. pending \in Charges
    BY <1>1, <1>3 DEF DexTypeOK
  <2> QED  BY <1>2, <2>1 DEF Charges
<1>5. pending' # NoAttempt
  BY <1>4 DEF NoAttempt
<1>6. Kept' = Kept /\ Meant' = Meant
  BY <1>2 DEF Kept, Meant
<1>7. op'.at = "hashed" /\ op'.call = op.call /\ op'.nonce = op.nonce
  BY <1>1, MovesToKeeps DEF HashReturned, At, Steps
<1>8. ~prompt
  <2> DEFINE sent == Len(wire)
             kept == Len(Kept)
  <2>1. sent \in Nat /\ kept = sent
    BY <1>1, <1>3 DEF SequencesTyped
  <2> HIDE DEF sent, kept
  <2>2. ~(kept = sent + 1)
    BY ONLY <2>1
  <2> QED  BY <2>2 DEF DexInv, Ledger, PromptIsUnsent, sent, kept
<1>9. /\ NoncesInOrder' /\ WireIsKept' /\ Sound(record)' /\ Sound(budget)'
      /\ (held => Covers(budget, record))'
  BY <1>2, <1>6, NoncesStay DEF DexInv, Ledger, WireIsKept, Sound, Covers
<1>10. PendingIsLast' /\ PromptIsUnsent' /\ LiveIsHashed'
  BY <1>2, <1>3, <1>4, <1>6, <1>8
     DEF DexInv, Ledger, PendingIsLast, PromptIsUnsent, LiveIsHashed
<1>11. MeantIsNext'
  BY <1>2, <1>3, <1>6 DEF DexInv, Ledger, MeantIsNext
<1>12. SentIsTraceable'
  BY <1>2, <1>4 DEF DexInv, SentIsTraceable
<1>13. Step'
  BY <1>2, <1>3, <1>4, <1>5, <1>6, <1>7
     DEF Step, Starts, Admits, Commits, Reserves, Asks, Sent, Remembers, Restores, Closes, At
<1> QED
  BY <1>9, <1>10, <1>11, <1>12, <1>13 DEF BooksKept, Ledgered, Ledger

(* The hash joins a charge that was sent: all of them are by now.          *)
LEMMA SubmittedKeeps ==
  ASSUME DexInv, Submitted
  PROVE  BooksKept'
<1>1. SequencesTyped /\ DexTypeOK
  BY SequencesAre DEF DexInv
<1>2. /\ UNCHANGED <<wire, next, settled, prompt, pending, record, held, live>>
      /\ At("hashed") /\ budget' = WithHash(budget, op.nonce)
  BY DEF Submitted, chain, storage
<1>3. /\ held /\ Valid(budget) /\ Len(Meant) = Len(Kept) /\ Len(wire) = Len(Kept)
      /\ pending # NoAttempt /\ pending.call = op.call /\ pending.nonce = op.nonce
  BY <1>2 DEF DexInv, Step, Asks, Sent, At
<1>4. op.nonce \in Nat /\ budget \in Ledgers
  BY <1>1, <1>2, OpTyped DEF At, DexTypeOK
<1>5. Kept' = Kept
  BY <1>2 DEF Kept
<1>6. /\ Len(Meant') = Len(Meant) /\ DOMAIN Meant' = DOMAIN Meant
      /\ \A k \in DOMAIN Meant :
           /\ Meant'[k].call = Meant[k].call /\ Meant'[k].nonce = Meant[k].nonce
           /\ Meant'[k].hash <=> (Meant[k].hash \/ Meant[k].nonce = op.nonce)
  BY <1>2, <1>4, WithHashKeeps DEF Meant
<1>7. Valid(budget')
  BY <1>2, <1>3, <1>4, WithHashIsValid
<1>8. Sound(budget)'
  <2>1. \A k \in DOMAIN Meant : k <= Len(wire)
    BY <1>1, <1>3 DEF SequencesTyped
  <2>2. \A i, j \in DOMAIN Meant : Meant[i].call = Meant[j].call => i = j
    BY DEF DexInv, Ledger, Sound, Meant
  <2> QED  BY <1>2, <1>6, <2>1, <2>2 DEF Sound, Meant
<1>9. Covers(budget, record)'
  <2>1. DOMAIN Kept = DOMAIN Meant /\ Len(Kept') <= Len(Meant')
    <3> DEFINE kept == Len(Kept)
    <3>1. kept \in Nat /\ Len(Kept') = kept /\ Len(Meant') = kept
      BY <1>1, <1>3, <1>5, <1>6 DEF SequencesTyped
    <3> HIDE DEF kept
    <3>2. Len(Kept') <= Len(Meant')
      BY ONLY <3>1
    <3> QED  BY <1>1, <1>3, <3>2 DEF SequencesTyped
  <2>2. Covers(budget, record)
    BY <1>3 DEF DexInv, Ledger
  <2> QED  BY <1>2, <1>5, <1>6, <2>1, <2>2 DEF Covers, Kept, Meant
<1>10. /\ NoncesInOrder' /\ WireIsKept' /\ Sound(record)' /\ PendingIsLast' /\ PromptIsUnsent'
       /\ LiveIsHashed' /\ SentIsTraceable'
  BY <1>2, <1>5, NoncesStay
     DEF DexInv, Ledger, WireIsKept, Sound, PendingIsLast, PromptIsUnsent, LiveIsHashed,
         LastMined, Kept, SentIsTraceable
<1>11. MeantIsNext'
  BY <1>2, <1>3, <1>5, <1>6 DEF DexInv, Ledger, MeantIsNext
<1>12. Meant'[Len(Meant')].hash
  <2>1. Len(Kept) \in DOMAIN Kept /\ Kept[Len(Kept)].nonce = op.nonce
    BY <1>1, <1>3 DEF DexInv, Ledger, PendingIsLast, SequencesTyped
  <2>2. Len(Meant) \in DOMAIN Meant /\ Meant[Len(Meant)].nonce = op.nonce
    BY <1>1, <1>3, <2>1 DEF DexInv, Ledger, Covers, Kept, Meant, SequencesTyped
  <2> QED  BY <1>6, <2>2
<1>13. op'.at = "remembering" /\ op'.call = op.call /\ op'.nonce = op.nonce
  BY <1>1, MovesToKeeps DEF Submitted, At, Steps
<1>14. Step'
  BY <1>2, <1>3, <1>5, <1>6, <1>7, <1>12, <1>13
     DEF Step, Starts, Admits, Commits, Reserves, Asks, Sent, Remembers, Restores, Closes, At
<1> QED
  BY <1>8, <1>9, <1>10, <1>11, <1>14 DEF BooksKept, Ledgered, Ledger

(* The attempt that is pending takes the hash.                             *)
LEMMA RememberHashKeeps ==
  ASSUME DexInv, RememberHash
  PROVE  BooksKept'
<1>1. /\ UNCHANGED <<wire, next, settled, prompt, pending, held, budget>>
      /\ At("remembering") /\ record' = budget /\ op' = Rest
  BY DEF RememberHash, chain, Ends
<1>2. held /\ Len(Meant) = Len(Kept) /\ Meant[Len(Meant)].hash /\ Meant' = Meant
  BY <1>1 DEF DexInv, Step, Asks, Remembers, At, Meant
<1>3. Ledgered'
  BY <1>1, <1>2, LedgerWrites
<1> QED  BY <1>1, <1>3, StepRests, RestRests DEF BooksKept

-----------------------------------------------------------------------------
(* The steps that verify and reconcile.                                    *)

(* A call that is verified was sent last and has its hash.                 *)
LEMMA VerifiedIsHashed ==
  ASSUME DexInv, NEW p \in Phases, NEW s \in Scopes, Verifies(p, s)
  PROVE  /\ pending # NoAttempt /\ ~prompt /\ op = Rest
         /\ \A k \in DOMAIN wire : wire[k].call = pending.call => Kept[k].hash
<1>1. live = <<p, s>> /\ pending.call = live /\ Has(live, "ok") /\ op = Rest
  BY DEF Verifies
<1>2. live \in Calls /\ live # NoCall
  BY <1>1, NoCallIsNoCall DEF Calls
<1>3. pending # NoAttempt
  BY <1>1, <1>2 DEF NoAttempt
<1>4. Kept[Len(Kept)].hash
  BY <1>1, <1>2 DEF DexInv, Ledger, LiveIsHashed
<1>5. PICK k \in DOMAIN wire : wire[k].call = pending.call
  BY <1>1 DEF Has
<1>6. ~prompt
  BY <1>3, <1>5, SentLast
<1>7. \A j \in DOMAIN wire : wire[j].call = pending.call => Kept[j].hash
  BY <1>3, <1>4, SentLast
<1> QED  BY <1>1, <1>3, <1>6, <1>7

(* The phases are those the page verifies.                                 *)
LEMMA PhasesAre == {"quote", "accept", "cancel", "recover"} = Phases
  BY DEF Phases

(* A receipt is verified.                                                  *)
LEMMA VerifyKeeps ==
  ASSUME DexInv, NEW s \in Scopes,
         VerifyQuote(s) \/ VerifyAccept(s) \/ VerifyFast(s) \/ VerifyRelease(s)
  PROVE  BooksKept'
<1>1. PICK p \in Phases : Verifies(p, s)
  BY PhasesAre DEF VerifyQuote, VerifyAccept, VerifyFast, VerifyRelease
<1>2. /\ ~prompt /\ op = Rest
      /\ \A k \in DOMAIN wire : wire[k].call = pending.call => Kept[k].hash
  BY <1>1, VerifiedIsHashed
<1>3. /\ UNCHANGED <<wire, next, settled, prompt, record, held>> /\ Cleared
      /\ live' \in {live, NoCall}
      /\ budget' = budget \/ budget' = Complete(budget, s)
      /\ op' = op \/ op'.at = "closing"
  BY DEF VerifyQuote, VerifyAccept, VerifyFast, VerifyRelease, chain, Begins
<1>4. Kept' = Kept /\ Meant' = Meant
  BY <1>3, CompleteKeeps DEF Kept, Meant, DexInv, DexTypeOK
<1>5. Ledgered'
  BY <1>2, <1>3, <1>4, LedgerClears
<1>6. Step'
  BY <1>2, <1>3, StepRests, StepCloses, RestRests DEF Cleared
<1> QED  BY <1>5, <1>6 DEF BooksKept

(* The delivery is read.                                                   *)
LEMMA ReadDeliveryKeeps ==
  ASSUME DexInv, NEW s \in Scopes, ReadDelivery(s)
  PROVE  BooksKept'
<1>1. /\ UNCHANGED <<wire, next, settled, prompt, pending, record, held, live>>
      /\ pending = NoAttempt /\ budget' = Complete(budget, s) /\ op'.at = "closing"
  BY DEF ReadDelivery, chain, Begins
<1>2. Kept' = Kept /\ Meant' = Meant
  BY <1>1, CompleteKeeps DEF Kept, Meant, DexInv, DexTypeOK
<1>3. Ledgered'
  BY <1>1, <1>2, LedgerStays, NoncesStay
<1> QED  BY <1>1, <1>3, StepCloses DEF BooksKept

(* A bar, a page that lets go of a call and a new quote leave the ledgers. *)
LEMMA IdleKeeps ==
  ASSUME DexInv, (\E s \in Scopes : Bar(s) \/ LetGo(s)) \/ NewQuote
  PROVE  BooksKept'
<1>1. /\ UNCHANGED <<wire, next, settled, prompt, pending, record, held, budget>>
      /\ live' \in {live, NoCall} /\ op = Rest /\ op' = op
  BY DEF Bar, LetGo, NewQuote, Verifies, chain, storage, memory
<1>2. Ledgered'
  BY <1>1, LedgerStays, NoncesStay DEF Kept, Meant
<1> QED  BY <1>1, <1>2, StepRests, RestRests DEF BooksKept

(* A quote that the user gives up is closed in both ledgers.               *)
LEMMA DiscardKeeps ==
  ASSUME DexInv, NEW s \in Scopes, Discard(s)
  PROVE  BooksKept'
<1>1. /\ UNCHANGED <<wire, next, settled, prompt, pending, held, live>>
      /\ record' = Complete(record, s) /\ budget' = Complete(budget, s)
      /\ op = Rest /\ op' = op
  BY DEF Discard, chain
<1>2. Kept' = Kept /\ Meant' = Meant
  BY <1>1, CompleteKeeps DEF Kept, Meant, DexInv, DexTypeOK
<1>3. Ledgered'
  BY <1>1, <1>2, LedgerStays, NoncesStay
<1> QED  BY <1>1, <1>3, StepRests, RestRests DEF BooksKept

(* A scope is closed, and the record written.                              *)
LEMMA CloseKeeps ==
  ASSUME DexInv, Close
  PROVE  BooksKept'
<1>1. /\ UNCHANGED <<wire, next, settled, prompt, pending, held, budget>>
      /\ At("closing") /\ held /\ Valid(budget) /\ record' = budget /\ live' = NoCall /\ op' = Rest
  BY DEF Close, chain, Ends
<1>2. Meant' = Meant /\ SequencesTyped
  BY <1>1, SequencesAre DEF Meant, DexInv
<1>3. CASE Len(Meant) = Len(Kept)
  <2>1. Ledgered'
    BY <1>1, <1>2, <1>3, LedgerWrites
  <2> QED  BY <1>1, <2>1, StepRests, RestRests DEF BooksKept
<1>4. CASE Len(Meant) > Len(Kept)
  <2>1. Ledgered'
    BY <1>1, <1>2, <1>4, LedgerGrows
  <2> QED  BY <1>1, <2>1, StepRests, RestRests DEF BooksKept
<1>5. Len(Meant) = Len(Kept) \/ Len(Meant) > Len(Kept)
  <2> DEFINE kept == Len(Kept)
             meant == Len(Meant)
  <2>1. kept \in Nat /\ meant \in Nat /\ kept <= meant
    BY <1>1, <1>2 DEF SequencesTyped, DexInv, Ledger, Covers, Kept, Meant
  <2> HIDE DEF kept, meant
  <2>2. kept = meant \/ meant > kept
    BY ONLY <2>1
  <2> QED  BY <2>2 DEF kept, meant
<1> QED  BY <1>3, <1>4, <1>5

(* A call that reverted is cleared.                                        *)
LEMMA RevertedKeeps ==
  ASSUME DexInv, Reverted
  PROVE  BooksKept'
<1>1. /\ UNCHANGED <<wire, next, settled, prompt, record, held>> /\ Cleared
      /\ op = Rest /\ pending # NoAttempt /\ Has(pending.call, "reverted")
      /\ live' \in {live, NoCall}
      /\ budget' = budget \/ budget' = Complete(budget, pending.call[2])
      /\ op' = op \/ op'.at = "closing"
  BY DEF Reverted, chain, Begins
<1>2. Kept' = Kept /\ Meant' = Meant
  BY <1>1, CompleteKeeps DEF Kept, Meant, DexInv, DexTypeOK
<1>3. PICK k \in DOMAIN wire : wire[k].call = pending.call /\ wire[k].state = "reverted"
  BY <1>1 DEF Has
<1>4. ~prompt
  BY <1>1, <1>3, SentLast
<1>5. \A j \in DOMAIN wire :
        wire[j].call = pending.call /\ wire[j].state # "reverted" => Kept[j].hash
  BY <1>3, SentOnce
<1>6. Ledgered'
  BY <1>1, <1>2, <1>4, <1>5, LedgerClears
<1> QED  BY <1>1, <1>6, StepRests, StepCloses, RestRests DEF BooksKept, Cleared

(* The budget is read back from the record, with the hash of the attempt.  *)
LEMMA RestoreKeeps ==
  ASSUME DexInv, NEW s \in Scopes, Restore(s)
  PROVE  BooksKept'
<1> DEFINE whole == IF pending = NoAttempt THEN record ELSE Filled(record)
<1>1. SequencesTyped /\ DexTypeOK
  BY SequencesAre DEF DexInv
<1>2. /\ UNCHANGED <<wire, next, settled, prompt, pending, record, live>>
      /\ held' = TRUE /\ budget' = whole /\ Hashed(whole)
      /\ pending = NoAttempt \/ pending.hash
      /\ op'.at = "restoring"
  BY DEF Restore, chain, storage, Begins
<1>3. Kept' = Kept
  BY <1>2 DEF Kept
<1>4. pending # NoAttempt => Len(wire) = Len(Kept)
  BY <1>2 DEF DexInv, Ledger, PendingIsLast
<1>5. /\ Len(Meant') = Len(Kept) /\ DOMAIN Meant' = DOMAIN Kept
      /\ \A k \in DOMAIN Kept :
           /\ Meant'[k].call = Kept[k].call /\ Meant'[k].nonce = Kept[k].nonce
           /\ Kept[k].hash => Meant'[k].hash
           /\ Meant'[k].hash => Kept[k].hash \/ pending # NoAttempt
  <2>1. CASE pending = NoAttempt
    BY <1>2, <2>1 DEF Meant, Kept
  <2>2. CASE pending # NoAttempt
    <3>1. record \in Ledgers /\ pending.nonce \in Nat
      BY <1>1, <2>2 DEF DexTypeOK, Charges
    <3>2. budget' = WithHash(record, pending.nonce)
      BY <1>2, <2>2 DEF Filled
    <3> QED  BY <2>2, <3>1, <3>2, WithHashKeeps DEF Meant, Kept
  <2> QED  BY <2>1, <2>2
<1> HIDE DEF whole
<1>6. Sound(budget)'
  <2>1. \A k \in DOMAIN Kept : Kept[k].hash => k <= Len(wire)
    BY DEF DexInv, Ledger, Sound, Kept
  <2>2. \A k \in DOMAIN Kept : pending # NoAttempt => k <= Len(wire)
    BY <1>1, <1>4 DEF SequencesTyped
  <2>3. \A i, j \in DOMAIN Kept : Kept[i].call = Kept[j].call => i = j
    BY DEF DexInv, Ledger, Sound, Kept
  <2> QED  BY <1>2, <1>5, <2>1, <2>2, <2>3 DEF Sound, Meant
<1>7. Covers(budget, record)' /\ MeantIsNext'
  <2> DEFINE kept == Len(Kept)
  <2>1. kept \in Nat /\ Len(Meant') = kept /\ Len(Kept') = kept
    BY <1>1, <1>3, <1>5 DEF SequencesTyped
  <2> HIDE DEF kept
  <2>2. Len(Kept') <= Len(Meant') /\ ~(Len(Meant') > Len(Kept'))
    BY ONLY <2>1
  <2> QED  BY <1>3, <1>5, <2>2 DEF Covers, MeantIsNext, Kept, Meant
<1>8. /\ NoncesInOrder' /\ WireIsKept' /\ Sound(record)' /\ PendingIsLast' /\ PromptIsUnsent'
      /\ LiveIsHashed' /\ SentIsTraceable'
  BY <1>2, <1>3, NoncesStay
     DEF DexInv, Ledger, WireIsKept, Sound, PendingIsLast, PromptIsUnsent, LiveIsHashed,
         LastMined, Kept, SentIsTraceable
<1>9. Step'
  BY <1>2, <1>3, <1>5
     DEF Step, Starts, Admits, Commits, Reserves, Asks, Sent, Remembers, Restores, Closes, At,
         Hashed
<1> QED  BY <1>6, <1>7, <1>8, <1>9 DEF BooksKept, Ledgered, Ledger

(* What was read back is written.                                          *)
LEMMA RestoredKeeps ==
  ASSUME DexInv, Restored \/ Abandoned
  PROVE  BooksKept'
<1>1. /\ UNCHANGED <<wire, next, settled, prompt, held, live>> /\ record' = budget
      /\ op.at \in {"restoring", "abandoning"}
      /\ pending' = pending \/ Cleared
      /\ budget' = budget \/ budget' = Complete(budget, op.call[2])
  BY DEF Restored, Abandoned, chain, At
<1>2. /\ held /\ Hashed(budget) /\ Len(Meant) = Len(Kept)
      /\ pending = NoAttempt \/ pending.hash
  BY <1>1 DEF DexInv, Step, Restores
<1>3. Meant' = Meant /\ Kept' = Meant
  BY <1>1, CompleteKeeps DEF Meant, Kept, DexInv, DexTypeOK
<1>4. ~prompt
  BY <1>2 DEF DexInv, Ledger, PromptIsUnsent
<1>5. live' # NoCall /\ pending'.call = live' => Meant[Len(Meant)].hash
  <2> SUFFICES ASSUME live' # NoCall, pending'.call = live' PROVE Meant[Len(Meant)].hash
    OBVIOUS
  <2>1. pending # NoAttempt
    BY <1>1 DEF Cleared, NoAttempt
  <2>2. Len(Meant) \in DOMAIN Meant
    BY <1>2, <2>1, SequencesAre DEF DexInv, Ledger, PendingIsLast, SequencesTyped
  <2> QED  BY <1>2, <2>2 DEF Hashed, Meant
<1>6. Ledgered'
  BY <1>1, <1>2, <1>3, <1>4, <1>5, LedgerWrites
<1>7. Step'
  <2>1. CASE op'.at = "idle"
    BY <2>1, StepRests
  <2>2. CASE op'.at = "abandoning"
    <3>1. Hashed(budget') /\ held' /\ Len(Meant') = Len(Kept')
      BY <1>1, <1>2, <1>3 DEF Hashed, Meant
    <3>2. pending' = NoAttempt \/ pending'.hash
      BY <1>1, <1>2 DEF Cleared
    <3> QED
      BY <2>2, <3>1, <3>2
         DEF Step, Starts, Admits, Commits, Reserves, Asks, Sent, Remembers, Restores, Closes, At
  <2>3. op'.at \in {"idle", "abandoning"}
    <3>1. DexTypeOK /\ "abandoning" \in Steps /\ op.at # "idle"
      BY <1>1 DEF DexInv, Steps
    <3>2. op' = Rest \/ MovesTo("abandoning")
      BY DEF Restored, Abandoned, Ends
    <3> QED  BY <3>1, <3>2, MovesToKeeps, RestRests
  <2> QED  BY <2>1, <2>2, <2>3
<1> QED  BY <1>6, <1>7 DEF BooksKept

-----------------------------------------------------------------------------
(* What happens around the page.                                           *)

(* A reload loses the budget and the page alone.                           *)
LEMMA ReloadKeeps ==
  ASSUME DexInv, Reload
  PROVE  BooksKept'
<1>1. /\ UNCHANGED <<wire, next, settled, prompt, pending, record>>
      /\ held' = FALSE /\ budget' = Empty /\ live' = NoCall /\ op' = Rest
  BY DEF Reload, chain, storage
<1>2. Kept' = Kept
  BY <1>1 DEF Kept
<1>3. Sound(budget)'
  BY <1>1 DEF Sound, Empty
<1>4. /\ NoncesInOrder' /\ WireIsKept' /\ Sound(record)' /\ PendingIsLast' /\ PromptIsUnsent'
      /\ LiveIsHashed' /\ SentIsTraceable' /\ MeantIsNext' /\ ~held'
  BY <1>1, <1>2, NoncesStay
     DEF DexInv, Ledger, WireIsKept, Sound, PendingIsLast, PromptIsUnsent, LiveIsHashed,
         LastMined, Kept, SentIsTraceable, MeantIsNext
<1> QED  BY <1>1, <1>3, <1>4, StepRests, RestRests DEF BooksKept, Ledgered, Ledger

(* What happens elsewhere changes no ledger but the wallet's nonces.       *)
LEMMA ElsewhereKeeps ==
  ASSUME DexInv, Other \/ MineOther \/ (\E s \in Scopes : Keeper(s) \/ Expire(s))
  PROVE  BooksKept'
<1>1. UNCHANGED <<wire, prompt, pending, record, held, budget, live, op>>
  BY DEF Other, MineOther, Keeper, Expire, storage, memory
<1>2. SequencesTyped /\ NoncesInOrder
  BY SequencesAre DEF DexInv, Ledger
<1>3. NoncesInOrder'
  <2>1. CASE Other
    <3>1. \A k \in DOMAIN wire : wire[k].nonce < next + 1
      BY <1>2 DEF NoncesInOrder, SequencesTyped
    <3> QED  BY <1>1, <1>2, <2>1, <3>1 DEF NoncesInOrder, Other
  <2>2. CASE MineOther
    <3>1. \A k \in DOMAIN wire : settled + 1 <= wire[k].nonce <=> settled <= wire[k].nonce
      BY <1>2, <2>2 DEF MineOther, SequencesTyped
    <3> QED  BY <1>1, <1>2, <2>2, <3>1 DEF NoncesInOrder, MineOther
  <2>3. CASE \E s \in Scopes : Keeper(s) \/ Expire(s)
    <3>1. UNCHANGED <<next, settled>>
      BY <2>3 DEF Keeper, Expire
    <3> QED  BY <1>1, <3>1, NoncesStay
  <2> QED  BY <2>1, <2>2, <2>3
<1>4. Ledgered'
  BY <1>1, <1>3, LedgerStays DEF Kept, Meant
<1>5. Step'
  BY <1>1, StepStays DEF LastMined
<1> QED  BY <1>4, <1>5 DEF BooksKept

(* A receipt is of the oldest transaction without one.                     *)
LEMMA MineOwnKeeps ==
  ASSUME DexInv, NEW m \in DOMAIN wire, NEW state \in {"ok", "reverted"}, MineOwn(m, state)
  PROVE  BooksKept'
<1>1. /\ UNCHANGED <<next, prompt, pending, record, held, budget, live, op>>
      /\ wire[m].nonce = settled /\ settled' = settled + 1
      /\ wire' = [wire EXCEPT ![m].state = state]
  BY DEF MineOwn, storage, memory
<1>2. SequencesTyped /\ NoncesInOrder /\ DexTypeOK
  BY SequencesAre DEF DexInv, Ledger
<1>3. /\ Len(wire') = Len(wire) /\ DOMAIN wire' = DOMAIN wire
      /\ \A k \in DOMAIN wire :
           /\ wire'[k].call = wire[k].call /\ wire'[k].nonce = wire[k].nonce
           /\ wire'[k].state = IF k = m THEN state ELSE wire[k].state
  <2> DEFINE e == [wire[m] EXCEPT !.state = state]
  <2>1. wire[m] \in Sends
    BY <1>2, SequenceFacts
  <2>2. e \in Sends /\ e.call = wire[m].call /\ e.nonce = wire[m].nonce /\ e.state = state
    BY <2>1 DEF Sends
  <2>3. wire' = [wire EXCEPT ![m] = e] /\ m \in 1..Len(wire) /\ wire \in Seq(Sends)
    BY <1>1, <1>2 DEF SequencesTyped
  <2> HIDE DEF e
  <2>4. /\ wire' \in Seq(Sends) /\ Len(wire') = Len(wire)
        /\ \A k \in 1..Len(wire) : wire'[k] = IF k = m THEN e ELSE wire[k]
    BY <2>2, <2>3, ExceptSeq
  <2> QED  BY <1>2, <2>2, <2>4, LenProperties DEF SequencesTyped
<1>4. wire[m].state = "sent"
  BY <1>1, <1>2 DEF NoncesInOrder, SequencesTyped
<1>5. NoncesInOrder'
  <2>1. \A k \in DOMAIN wire : k # m => wire[k].nonce # settled
    BY <1>1, <1>2 DEF NoncesInOrder
  <2>2. \A k \in DOMAIN wire : wire'[k].nonce < next'
    BY <1>1, <1>2, <1>3 DEF NoncesInOrder
  <2>3. \A k \in DOMAIN wire : wire'[k].state = "sent" <=> settled' <= wire'[k].nonce
    <3> SUFFICES ASSUME NEW k \in DOMAIN wire
                 PROVE  wire'[k].state = "sent" <=> settled' <= wire'[k].nonce
      OBVIOUS
    <3> DEFINE n == wire[k].nonce
    <3>1. n \in Nat /\ settled \in Nat /\ (wire[k].state = "sent" <=> settled <= n)
      BY <1>2 DEF NoncesInOrder, SequencesTyped
    <3>2. CASE k = m
      <4>1. wire'[k].state # "sent" /\ wire'[k].nonce = settled
        BY <1>1, <1>3, <3>2
      <4>2. ~(settled + 1 <= settled)
        BY ONLY <3>1
      <4> QED  BY <1>1, <4>1, <4>2
    <3>3. CASE k # m
      <4>1. n # settled
        BY <2>1, <3>3
      <4>2. wire'[k].state = wire[k].state /\ wire'[k].nonce = n
        BY <1>3, <3>3
      <4> HIDE DEF n
      <4>3. settled + 1 <= n <=> settled <= n
        BY ONLY <3>1, <4>1
      <4> QED  BY <1>1, <3>1, <4>2, <4>3
    <3> QED  BY <3>2, <3>3
  <2>4. \A i, j \in DOMAIN wire : wire'[i].nonce = wire'[j].nonce => i = j
    BY <1>2, <1>3 DEF NoncesInOrder
  <2> QED  BY <1>3, <2>2, <2>3, <2>4 DEF NoncesInOrder
<1>6. LastMined => LastMined'
  <2>1. CASE wire = << >>
    <3>1. FALSE
      BY <1>2, <2>1
    <3> QED  BY <3>1
  <2>2. CASE wire # << >>
    <3>1. Len(wire) \in DOMAIN wire
      <4>1. Len(wire) \in Nat \ {0}
        BY <1>2, <2>2, EmptySeq DEF SequencesTyped
      <4>2. Len(wire) \in 1..Len(wire)
        BY ONLY <4>1
      <4> QED  BY <1>2, <4>2 DEF SequencesTyped
    <3> QED  BY <1>3, <2>2, <3>1 DEF LastMined
  <2> QED  BY <2>1, <2>2
<1>7. Kept' = Kept /\ Meant' = Meant
  BY <1>1 DEF Kept, Meant
<1>8. /\ WireIsKept' /\ Sound(record)' /\ Sound(budget)' /\ (held => Covers(budget, record))'
      /\ PendingIsLast' /\ PromptIsUnsent' /\ LiveIsHashed'
  BY <1>1, <1>3, <1>6, <1>7
     DEF DexInv, Ledger, WireIsKept, Sound, Covers, PendingIsLast, PromptIsUnsent, LiveIsHashed
<1>9. MeantIsNext'
  BY <1>1, <1>3, <1>6, <1>7 DEF DexInv, Ledger, MeantIsNext
<1>10. SentIsTraceable'
  <2>1. \A k \in DOMAIN wire : wire'[k].state # "reverted" => wire[k].state # "reverted"
    BY <1>3, <1>4
  <2> QED  BY <1>1, <1>3, <2>1 DEF DexInv, SentIsTraceable
<1>11. Step'
  BY <1>1, <1>3, <1>6, StepStays
<1> QED  BY <1>5, <1>8, <1>9, <1>10, <1>11 DEF BooksKept, Ledgered, Ledger

-----------------------------------------------------------------------------
(* Every step keeps the invariant.                                         *)

(* Every step keeps the invariant.                                         *)
LEMMA StepKeeps ==
  ASSUME DexInv, DexNext
  PROVE  DexInv'
<1>1. DexTypeOK'
  BY SendingTyped, CheckingTyped, EnvironmentTyped DEF DexNext
<1> SUFFICES BooksKept'
  BY <1>1 DEF BooksKept, Ledgered, DexInv
<1>2. CASE Sending
  <2>1. CASE \E s \in Scopes : Quote(s) \/ Unfilled(s)
    BY <2>1, QuoteKeeps, UnfilledKeeps
  <2>2. CASE \E p \in Phases, s \in Scopes : Act(p, s)
    BY <2>2, ActKeeps
  <2>3. CASE Commit \/ Persist \/ Reserve \/ WalletSends \/ HashReturned \/ Submitted
    BY <2>3, CommitKeeps, PersistKeeps, ReserveKeeps, WalletSendsKeeps, HashReturnedKeeps,
       SubmittedKeeps
  <2>4. CASE Fails \/ WalletRejects \/ RememberHash \/ Throws
    BY <2>4, EndsKeep, RememberHashKeeps
  <2> QED  BY <1>2, <2>1, <2>2, <2>3, <2>4 DEF Sending
<1>3. CASE Checking
  <2>1. CASE \E s \in Scopes : \/ VerifyQuote(s) \/ VerifyAccept(s) \/ VerifyFast(s)
                               \/ VerifyRelease(s)
    BY <2>1, VerifyKeeps
  <2>2. CASE \E s \in Scopes : ReadDelivery(s) \/ Restore(s) \/ Discard(s)
    BY <2>2, ReadDeliveryKeeps, RestoreKeeps, DiscardKeeps
  <2>3. CASE (\E s \in Scopes : Bar(s) \/ LetGo(s)) \/ NewQuote
    BY <2>3, IdleKeeps
  <2>4. CASE Close \/ Reverted \/ Restored \/ Abandoned
    BY <2>4, CloseKeeps, RevertedKeeps, RestoredKeeps
  <2> QED  BY <1>3, <2>1, <2>2, <2>3, <2>4 DEF Checking
<1>4. CASE Environment
  BY <1>4, ReloadKeeps, ElsewhereKeeps, MineOwnKeeps DEF Environment, Mining
<1> QED  BY <1>2, <1>3, <1>4 DEF DexNext

(* So does a step of nothing.                                              *)
LEMMA StutterKeeps ==
  ASSUME DexInv, UNCHANGED dexVars
  PROVE  DexInv'
<1>1. /\ UNCHANGED <<wire, next, settled, stage, expired, prompt, pending, lookups, barred, record>>
      /\ UNCHANGED <<held, budget, live, issued, op>>
  BY DEF dexVars, chain, storage, memory
<1>2. DexTypeOK'
  BY <1>1 DEF DexInv, DexTypeOK
<1>3. Ledgered'
  BY <1>1, LedgerStays, NoncesStay DEF Kept, Meant
<1>4. Step'
  BY <1>1, StepStays DEF LastMined
<1> QED  BY <1>2, <1>3, <1>4 DEF DexInv, Ledgered

(* The invariant holds in every run.                                       *)
THEOREM DexInvHolds == DexSpec => []DexInv
<1>1. DexInv /\ [DexNext]_dexVars => DexInv'
  BY StepKeeps, StutterKeeps
<1> QED  BY <1>1, InitInv, PTL DEF DexSpec

(* The variables keep their types, and the record in storage is one the    *)
(* page would accept again after a reload.                                 *)
THEOREM DexTypeCorrect == DexSpec => []DexTypeOK
<1>1. DexInv => DexTypeOK
  BY DEF DexInv
<1> QED  BY <1>1, DexInvHolds, PTL

(* A transaction that was sent and did not revert is found again from the  *)
(* storage alone, whatever was lost, reloaded or refused on the way.       *)
THEOREM SentsAreTraceable == DexSpec => []SentIsTraceable
<1>1. DexInv => SentIsTraceable
  BY DEF DexInv
<1> QED  BY <1>1, DexInvHolds, PTL

-----------------------------------------------------------------------------
(* The journal.                                                            *)

journalled == [i \in DOMAIN record.charges |-> record.charges[i].call]
sent == [i \in DOMAIN wire |-> wire[i].call]
done == IF wire # << >> /\ wire[Len(wire)].state = "sent" THEN Len(wire) - 1 ELSE Len(wire)

(* A step that sends nothing and records no new call is a stutter of the   *)
(* journal.                                                                *)
LEMMA JournalStays ==
  ASSUME DexInv, UNCHANGED wire,
         Kept' = Kept \/ (held /\ Len(Meant) = Len(Kept) /\ Kept' = Meant)
  PROVE  UNCHANGED <<journalled, sent, done>>
<1>1. SequencesTyped
  BY SequencesAre DEF DexInv
<1>2. DOMAIN Kept' = DOMAIN Kept /\ \A k \in DOMAIN Kept : Kept'[k].call = Kept[k].call
  BY <1>1 DEF DexInv, Ledger, Covers, Kept, Meant, SequencesTyped
<1>3. UNCHANGED journalled
  BY <1>2 DEF journalled, Kept
<1> QED  BY <1>3 DEF sent, done

(* A record that grows grows by one call, which is new, once everything    *)
(* recorded before is mined.                                               *)
LEMMA JournalLogs ==
  ASSUME DexInv, UNCHANGED wire, held, Len(Meant) > Len(Kept), Valid(budget), Kept' = Meant
  PROVE  (\E c \in Calls : Journal!Log(c))
<1> DEFINE kept == Len(Kept)
           c == Meant[kept + 1].call
<1>1. SequencesTyped /\ Sound(budget) /\ Covers(budget, record)
  BY SequencesAre DEF DexInv, Ledger
<1>2. Len(Meant) = kept + 1 /\ kept = Len(wire) /\ LastMined /\ kept \in Nat
  BY <1>1, NewChargeIsNext DEF SequencesTyped
<1>3. DOMAIN Meant = 1..(kept + 1) /\ DOMAIN Kept = 1..kept
  BY <1>1, <1>2 DEF SequencesTyped
<1>n. kept + 1 \in 1..(kept + 1) /\ \A k \in 1..kept : k \in 1..(kept + 1) /\ k # kept + 1
  <2> HIDE DEF kept
  <2> QED  BY ONLY <1>2
<1>4. c \in Calls
  <2>1. Meant[kept + 1] \in Charges
    BY <1>3, <1>n, SequenceFacts DEF DexInv
  <2> QED  BY <2>1 DEF Charges
<1>5. \A k \in 1..kept : Meant[k].call = Kept[k].call /\ Kept[k].call # c
  BY <1>1, <1>3, <1>n DEF Covers, Sound, Kept, Meant
<1>6. done = Len(journalled)
  <2>1. Len(journalled) = kept
    <3>1. journalled = [k \in 1..kept |-> Kept[k].call]
      BY <1>3 DEF journalled, Kept
    <3> HIDE DEF kept
    <3> QED  BY <1>2, <3>1
  <2>2. done = Len(wire)
    BY <1>2 DEF done, LastMined
  <2> QED  BY <1>2, <2>1, <2>2
<1>7. journalled' = Append(journalled, c)
  <2>1. journalled = [k \in 1..kept |-> Kept[k].call]
    BY <1>3 DEF journalled, Kept
  <2>2. journalled' = [k \in 1..(kept + 1) |-> Meant[k].call]
    BY <1>3 DEF journalled, Kept
  <2>3. \A k \in 1..kept : Kept[k].call \in Calls
    BY <1>3, SequenceFacts DEF DexInv, Charges
  <2>4. journalled \in Seq(Calls) /\ Len(journalled) = kept
    <3> HIDE DEF kept
    <3> QED  BY <1>2, <2>1, <2>3
  <2>5. Append(journalled, c) = [k \in 1..(kept + 1) |-> IF k = kept + 1 THEN c ELSE journalled[k]]
    <3> HIDE DEF kept, c, journalled
    <3> DEFINE a == Append(journalled, c)
    <3>1. /\ a \in Seq(Calls) /\ Len(a) = kept + 1 /\ a[kept + 1] = c
          /\ \A k \in 1..kept : a[k] = journalled[k]
      BY ONLY <1>2, <1>4, <2>4
    <3> HIDE DEF a
    <3>2. a \in [1..(kept + 1) -> Calls]
      BY <3>1, LenProperties
    <3>3. \A k \in 1..(kept + 1) : k = kept + 1 \/ k \in 1..kept
      BY ONLY <1>2
    <3>4. a = [k \in 1..(kept + 1) |-> IF k = kept + 1 THEN c ELSE journalled[k]]
      BY <3>1, <3>2, <3>3
    <3> QED  BY <3>4 DEF a
  <2>6. \A k \in 1..(kept + 1) : Meant[k].call = IF k = kept + 1 THEN c ELSE journalled[k]
    <3>1. \A k \in 1..(kept + 1) : k = kept + 1 \/ k \in 1..kept
      <4> HIDE DEF kept
      <4> QED  BY ONLY <1>2
    <3> QED  BY <1>5, <2>1, <3>1
  <2> QED  BY <2>2, <2>5, <2>6
<1>8. \A k \in 1..Len(journalled) : journalled[k] # c
  <2>1. journalled = [k \in 1..kept |-> Kept[k].call] /\ Len(journalled) = kept
    <3>1. journalled = [k \in 1..kept |-> Kept[k].call]
      BY <1>3 DEF journalled, Kept
    <3> HIDE DEF kept
    <3> QED  BY <1>2, <3>1
  <2> QED  BY <1>5, <2>1
<1>9. UNCHANGED <<sent, done>>
  BY DEF sent, done
<1> QED  BY <1>4, <1>6, <1>7, <1>8, <1>9 DEF Journal!Log, journalled, sent, done

(* The wallet sends the call that is next in the journal.                  *)
LEMMA JournalSends ==
  ASSUME DexInv, WalletSends
  PROVE  Journal!Send
<1> DEFINE n == Len(wire)
           e == [call |-> pending.call, nonce |-> next, state |-> "sent"]
<1>1. SequencesTyped /\ DexTypeOK /\ WireIsKept
  BY SequencesAre DEF DexInv, Ledger
<1>2. /\ record' = record /\ prompt /\ wire' = Append(wire, e)
  BY DEF WalletSends, storage
<1>3. /\ pending # NoAttempt /\ Len(Kept) = n + 1 /\ LastMined
      /\ Kept[n + 1].call = pending.call
  BY <1>2 DEF DexInv, Ledger, PromptIsUnsent, PendingIsLast
<1>4. e \in Sends /\ e.call = pending.call /\ e.state = "sent" /\ pending.call \in Calls
  <2>1. pending \in Charges /\ next \in Nat
    BY <1>1, <1>3 DEF DexTypeOK, SequencesTyped
  <2> QED  BY <2>1 DEF Sends, Charges
<1> HIDE DEF e
<1>5. /\ n \in Nat /\ DOMAIN wire = 1..n /\ DOMAIN Kept = 1..(n + 1) /\ wire \in Seq(Sends)
      /\ \A k \in 1..n : wire[k].call \in Calls
  BY <1>1, <1>3 DEF SequencesTyped
<1>6. /\ Len(wire') = n + 1 /\ DOMAIN wire' = 1..(n + 1)
      /\ \A k \in 1..n : wire'[k] = wire[k]
      /\ wire'[n + 1] = e
  BY <1>2, <1>4, <1>5
<1>n. n + 1 \in 1..(n + 1) /\ \A k \in 1..(n + 1) : k = n + 1 \/ k \in 1..n
  <2> HIDE DEF n
  <2> QED  BY ONLY <1>5
<1>7. Len(sent) = n /\ sent \in Seq(Calls) /\ \A k \in 1..n : sent[k] = wire[k].call
  <2>1. sent = [k \in 1..n |-> wire[k].call]
    BY <1>5 DEF sent
  <2> HIDE DEF n
  <2> QED  BY <1>5, <2>1
<1>8. Len(journalled) = n + 1 /\ journalled[n + 1] = pending.call
  <2>1. journalled = [k \in 1..(n + 1) |-> Kept[k].call]
    BY <1>5 DEF journalled, Kept
  <2> HIDE DEF n
  <2> QED  BY <1>3, <1>5, <1>n, <2>1
<1>9. sent' = Append(sent, journalled[n + 1])
  <2> DEFINE c == journalled[n + 1]
             a == Append(sent, c)
  <2>1. c = pending.call /\ c \in Calls
    BY <1>4, <1>8
  <2> HIDE DEF c
  <2>2. sent' = [k \in 1..(n + 1) |-> IF k = n + 1 THEN c ELSE sent[k]]
    <3>1. sent' = [k \in 1..(n + 1) |-> wire'[k].call]
      BY <1>6 DEF sent
    <3>2. \A k \in 1..(n + 1) : wire'[k].call = IF k = n + 1 THEN c ELSE sent[k]
      BY <1>4, <1>6, <1>7, <1>n, <2>1
    <3> QED  BY <3>1, <3>2
  <2>3. /\ a \in Seq(Calls) /\ Len(a) = n + 1 /\ a[n + 1] = c
        /\ \A k \in 1..n : a[k] = sent[k]
    <3> HIDE DEF n
    <3> QED  BY ONLY <1>5, <1>7, <2>1
  <2> HIDE DEF a
  <2>4. a \in [1..(n + 1) -> Calls]
    BY <2>3, LenProperties
  <2>5. a = [k \in 1..(n + 1) |-> IF k = n + 1 THEN c ELSE sent[k]]
    BY <1>n, <2>3, <2>4
  <2> QED  BY <2>2, <2>5 DEF a, c
<1>10. UNCHANGED <<journalled, done>>
  <2>1. done = n
    BY <1>3 DEF done, LastMined
  <2>2. wire' # << >> /\ wire'[Len(wire')].state = "sent"
    <3>1. Len(wire') # 0
      <4> HIDE DEF n
      <4> QED  BY ONLY <1>5, <1>6
    <3>2. wire' # << >>
      BY <3>1, EmptySeq
    <3> QED  BY <1>4, <1>6, <3>2
  <2>3. done' = (n + 1) - 1
    BY <1>6, <2>2 DEF done
  <2>4. (n + 1) - 1 = n
    <3> HIDE DEF n
    <3> QED  BY ONLY <1>5
  <2> QED  BY <1>2, <2>1, <2>3, <2>4 DEF journalled
<1>11. Len(sent) < Len(journalled) /\ journalled[Len(sent) + 1] = journalled[n + 1]
  <2> HIDE DEF n
  <2>1. Len(sent) < Len(journalled)
    BY ONLY <1>5, <1>7, <1>8
  <2> QED  BY <1>7, <2>1
<1> QED  BY <1>9, <1>10, <1>11 DEF Journal!Send, journalled, sent, done

(* A receipt is the journal's, when it is of the last call.                *)
LEMMA JournalMines ==
  ASSUME DexInv, NEW m \in DOMAIN wire, NEW state \in {"ok", "reverted"}, MineOwn(m, state)
  PROVE  Journal!Mine \/ UNCHANGED <<journalled, sent, done>>
<1> DEFINE n == Len(wire)
           e == [wire[m] EXCEPT !.state = state]
<1>1. SequencesTyped /\ DexTypeOK
  BY SequencesAre DEF DexInv
<1>2. wire' = [wire EXCEPT ![m] = e] /\ record' = record
  BY DEF MineOwn, storage
<1>3. e \in Sends /\ e.call = wire[m].call /\ e.state = state
  <2>1. wire[m] \in Sends
    BY <1>1, SequenceFacts
  <2> QED  BY <2>1 DEF Sends
<1>4. m \in 1..n /\ wire \in Seq(Sends) /\ n \in Nat /\ DOMAIN wire = 1..n
  BY <1>1 DEF SequencesTyped
<1> HIDE DEF e
<1>5. /\ wire' \in Seq(Sends) /\ Len(wire') = n
      /\ \A k \in 1..n : wire'[k] = IF k = m THEN e ELSE wire[k]
  BY <1>2, <1>3, <1>4, ExceptSeq
<1>6. DOMAIN wire' = 1..n /\ wire # << >> /\ wire' # << >> /\ n \in 1..n
  <2>1. DOMAIN wire' = 1..n
    BY <1>5, LenProperties
  <2>2. n # 0 /\ n \in 1..n
    <3> HIDE DEF n
    <3> QED  BY ONLY <1>4
  <2> QED  BY <1>5, <2>1, <2>2, EmptySeq
<1>7. UNCHANGED <<journalled, sent>>
  <2>1. \A k \in 1..n : wire'[k].call = wire[k].call
    BY <1>3, <1>5
  <2> QED  BY <1>2, <1>4, <1>6, <2>1 DEF journalled, sent
<1>8. CASE wire[n].state = "sent" /\ wire'[n].state # "sent"
  <2>1. done = n - 1 /\ done' = n
    BY <1>5, <1>6, <1>8 DEF done
  <2>2. Len(sent) = n
    <3>1. sent = [k \in 1..n |-> wire[k].call]
      BY <1>4 DEF sent
    <3> HIDE DEF n
    <3> QED  BY <1>4, <3>1
  <2>3. done < Len(sent) /\ done' = done + 1
    <3> HIDE DEF n
    <3> QED  BY ONLY <1>4, <2>1, <2>2
  <2> QED  BY <1>7, <2>3 DEF Journal!Mine, journalled, sent, done
<1>9. CASE ~(wire[n].state = "sent" /\ wire'[n].state # "sent")
  <2>1. wire'[n].state = "sent" => wire[n].state = "sent"
    BY <1>3, <1>5, <1>6
  <2>2. wire[n].state = "sent" <=> wire'[n].state = "sent"
    BY <1>9, <2>1
  <2>3. done' = done
    BY <1>5, <1>6, <2>2 DEF done
  <2> QED  BY <1>7, <2>3
<1> QED  BY <1>8, <1>9

(* A step of the page is a step of the journal, or none.                   *)
LEMMA StepIsJournals ==
  ASSUME DexInv, [DexNext]_dexVars
  PROVE  [Journal!Next]_(Journal!vars)
<1> DEFINE Stutters == UNCHANGED <<journalled, sent, done>>
           Logs == \E c \in Calls : Journal!Log(c)
<1>0. SUFFICES Logs \/ Journal!Send \/ Journal!Mine \/ Stutters
  BY DEF Journal!Next, Journal!vars, journalled, sent, done
<1>1. CASE UNCHANGED dexVars
  BY <1>1 DEF dexVars, chain, storage, journalled, sent, done
<1>2. CASE Sending
  <2>1. CASE WalletSends
    BY <2>1, JournalSends
  <2>2. CASE Persist
    <3>1. /\ held /\ Len(Meant) > Len(Kept) /\ Valid(budget)
          /\ wire' = wire /\ record' = budget
      BY <2>2 DEF Persist, chain, DexInv, Step, Starts, Commits, At
    <3>2. Kept' = Meant
      BY <3>1 DEF Kept, Meant
    <3> QED  BY <3>1, <3>2, JournalLogs
  <2>3. CASE RememberHash
    <3>1. held /\ Len(Meant) = Len(Kept) /\ wire' = wire /\ record' = budget
      BY <2>3 DEF RememberHash, chain, DexInv, Step, Asks, At
    <3>2. Kept' = Meant
      BY <3>1 DEF Kept, Meant
    <3> QED  BY <3>1, <3>2, JournalStays
  <2>4. CASE ~WalletSends /\ ~Persist /\ ~RememberHash
    <3>1. wire' = wire /\ record' = record
      BY <1>2, <2>4
         DEF Sending, Quote, Unfilled, Act, Commit, Reserve, Fails, WalletRejects, HashReturned,
             Submitted, Throws, chain, storage
    <3> QED  BY <3>1, JournalStays DEF Kept
  <2> QED  BY <2>1, <2>2, <2>3, <2>4
<1>3. CASE Checking
  <2>1. CASE Close
    <3>1. held /\ Valid(budget) /\ wire' = wire /\ record' = budget
      BY <2>1 DEF Close, chain
    <3>2. Kept' = Meant
      BY <3>1 DEF Kept, Meant
    <3>3. Len(Meant) = Len(Kept) \/ Len(Meant) > Len(Kept)
      <4> DEFINE kept == Len(Kept)
                 meant == Len(Meant)
      <4>1. kept \in Nat /\ meant \in Nat /\ kept <= meant
        BY <3>1, SequencesAre DEF SequencesTyped, DexInv, Ledger, Covers, Kept, Meant
      <4> HIDE DEF kept, meant
      <4>2. meant = kept \/ meant > kept
        BY ONLY <4>1
      <4> QED  BY <4>2 DEF kept, meant
    <3> QED  BY <3>1, <3>2, <3>3, JournalLogs, JournalStays
  <2>2. CASE Restored \/ Abandoned
    <3>1. held /\ Len(Meant) = Len(Kept) /\ wire' = wire /\ record' = budget
      BY <2>2 DEF Restored, Abandoned, chain, DexInv, Step, Restores, At
    <3>2. Kept' = Meant
      BY <3>1 DEF Kept, Meant
    <3> QED  BY <3>1, <3>2, JournalStays
  <2>3. CASE \E s \in Scopes : Discard(s)
    <3>1. PICK s \in Scopes : Discard(s)
      BY <2>3
    <3>2. wire' = wire /\ record' = Complete(record, s) /\ record \in Ledgers
      BY <3>1 DEF Discard, chain, DexInv, DexTypeOK
    <3>3. Kept' = Kept
      BY <3>2, CompleteKeeps DEF Kept
    <3> QED  BY <3>2, <3>3, JournalStays
  <2>4. CASE ~Close /\ ~Restored /\ ~Abandoned /\ ~(\E s \in Scopes : Discard(s))
    <3>1. wire' = wire /\ record' = record
      BY <1>3, <2>4
         DEF Checking, VerifyQuote, VerifyAccept, VerifyFast, VerifyRelease, ReadDelivery, Bar,
             LetGo, Restore, Reverted, NewQuote, chain, storage
    <3> QED  BY <3>1, JournalStays DEF Kept
  <2> QED  BY <2>1, <2>2, <2>3, <2>4
<1>4. CASE Environment
  <2>1. CASE \E i \in DOMAIN wire, state \in {"ok", "reverted"} : MineOwn(i, state)
    BY <2>1, JournalMines
  <2>2. CASE Reload \/ Other \/ MineOther \/ (\E s \in Scopes : Keeper(s) \/ Expire(s))
    <3>1. wire' = wire /\ record' = record
      BY <2>2 DEF Reload, Other, MineOther, Keeper, Expire, chain, storage
    <3> QED  BY <3>1, JournalStays DEF Kept
  <2> QED  BY <1>4, <2>1, <2>2 DEF Environment, Mining
<1> QED  BY <1>1, <1>2, <1>3, <1>4 DEF DexNext

(* Through reloads, lost answers, failed writes and other transactions of  *)
(* the wallet, the page implements a write-ahead journal.                  *)
THEOREM PageKeepsJournal == DexSpec => ImplementsJournal
<1>1. DexInit => Journal!Init
  BY DEF DexInit, Empty, Journal!Init
<1>2. DexInv /\ [DexNext]_dexVars => [Journal!Next]_(Journal!vars)
  BY StepIsJournals
<1> QED  BY <1>1, <1>2, DexInvHolds, PTL DEF DexSpec, ImplementsJournal, Journal!Spec

-----------------------------------------------------------------------------
(* A slow swap that holds tokens is remembered.  The page may forget it    *)
(* only by writing a record made for another swap, by clearing an attempt  *)
(* that is not over, or by dropping a lookup: the invariant says why none  *)
(* of these happens to a swap that is funded or about to be.               *)

(* A swap holds tokens, or an attempt to fund it is saved. *)
Owned(s) == stage[s] = "funded" \/ pending.call = <<"accept", s>>

(* Only the saved attempt may be unmined. *)
UnminedIsPending ==
  \A i \in DOMAIN wire : wire[i].state = "sent" => pending.call = wire[i].call

(* The storage, and the budget that is to replace it, are of that swap. *)
OwnedIsActive ==
  \A s \in Scopes : Owned(s) => record.active = s /\ (held => budget.active = s)

FundedIsSaved ==
  \A s \in Scopes : stage[s] = "funded" =>
    s \notin Fast /\ (s \in lookups \/ pending.call = <<"accept", s>>)

(* What the calls that succeeded have made of the swaps. *)
StagesAreSent ==
  \A s \in Scopes :
    /\ stage[s] # "none" => Has(<<"quote", s>>, "ok")
    /\ stage[s] = "funded" => Has(<<"accept", s>>, "ok")
    /\ Has(<<"cancel", s>>, "ok") \/ Has(<<"recover", s>>, "ok") => stage[s] = "released"

(* A quote is sent when no swap is active, an Accept for the active one. *)
Unsent == {"admitted", "committed", "reserving"}
QuoteIsFirst ==
  op.at \in {"admitted", "committed"} /\ op.call[1] = "quote" => record.active = NoScope
AcceptIsOfActive ==
  op.at \in Unsent /\ op.call[1] = "accept" =>
    /\ budget.active = op.call[2]
    /\ At("reserving") => record.active = op.call[2]

(* What a restoration clears is a Quote that is mined. *)
RestoreIsOfQuote ==
  op.at \in {"restoring", "abandoning"} =>
    /\ op.call[1] = "quote"
    /\ pending # NoAttempt => pending.call = op.call /\ Has(op.call, "ok")

Funding ==
  /\ UnminedIsPending /\ OwnedIsActive /\ FundedIsSaved /\ StagesAreSent
  /\ QuoteIsFirst /\ AcceptIsOfActive /\ RestoreIsOfQuote

(* The calls that are no call of a quote, as the provers want them. *)
LEMMA NoCallFunds ==
  /\ \A s : NoAttempt.call # <<"accept", s>>
  /\ \A p, s : <<p, s>>[1] = p /\ <<p, s>>[2] = s
  /\ \A c \in Calls : NoAttempt.call # c /\ c = <<c[1], c[2]>> /\ c[2] \in Scopes
<1>1. \A s \in Scopes : s # NoScope
  BY DexAssumption
<1> QED  BY <1>1 DEF NoAttempt, NoCall, Calls, Phases

(* A page that is not about to send or to restore has nothing to keep.     *)
LEMMA FundingRests ==
  ASSUME op'.at \notin {"admitted", "committed", "reserving", "restoring", "abandoning"}
  PROVE  QuoteIsFirst' /\ AcceptIsOfActive' /\ RestoreIsOfQuote'
  BY DEF QuoteIsFirst, AcceptIsOfActive, RestoreIsOfQuote, Unsent

(* A call with a receipt is not unmined, and there is no other of its kind. *)
LEMMA MinedIsMined ==
  ASSUME DexInv, NEW c, NEW state \in {"ok", "reverted"}, Has(c, state)
  PROVE  /\ \A i \in DOMAIN wire : wire[i].call = c => wire[i].state = state
         /\ Has(c, "ok") => state = "ok"
<1>1. PICK i \in DOMAIN wire : wire[i].call = c /\ wire[i].state = state
  BY DEF Has
<1>2. \A j \in DOMAIN wire : wire[j].call = c => j = i
  BY <1>1, SentOnce
<1> QED  BY <1>1, <1>2 DEF Has

(* An attempt is cleared once what it sent is mined.                       *)
LEMMA UnminedClears ==
  ASSUME DexInv, UnminedIsPending, NEW state \in {"ok", "reverted"},
         pending = NoAttempt \/ Has(pending.call, state), UNCHANGED wire
  PROVE  UnminedIsPending' /\ \A i \in DOMAIN wire : wire[i].state # "sent"
<1>1. \A i \in DOMAIN wire : wire[i].call \in Calls
  BY SequencesAre DEF DexInv, SequencesTyped, Sends
<1>2. ASSUME NEW i \in DOMAIN wire, wire[i].state = "sent" PROVE FALSE
  <2>1. pending.call = wire[i].call
    BY <1>2 DEF UnminedIsPending
  <2>2. Has(pending.call, state)
    BY <1>1, <2>1, NoCallFunds
  <2> QED  BY <1>2, <2>1, <2>2, MinedIsMined
<1> QED  BY <1>2 DEF UnminedIsPending

(* What the chain says stays, while it does.                               *)
LEMMA StagesStay ==
  ASSUME StagesAreSent, UNCHANGED <<wire, stage>>
  PROVE  StagesAreSent'
  BY DEF StagesAreSent, Has

-----------------------------------------------------------------------------
(* The steps, by what they leave alone.                                    *)

(* A step of the page that writes nothing and keeps the swap it is about.  *)
LEMMA PageFunds ==
  ASSUME DexInv, Funding, UNCHANGED <<chain, pending, lookups, record>>,
         held' => budget'.active = record.active \/ (held /\ budget'.active = budget.active)
  PROVE  UnminedIsPending' /\ OwnedIsActive' /\ FundedIsSaved' /\ StagesAreSent'
  BY StagesStay DEF Funding, UnminedIsPending, OwnedIsActive, FundedIsSaved, Owned, chain

(* A step that is over with a swap that holds no tokens.                   *)
LEMMA ClosingFunds ==
  ASSUME DexInv, Funding, UNCHANGED <<chain, record, held>>, NEW s \in Scopes,
         pending' = pending \/ (Cleared /\ (Has(pending.call, "ok") \/ Has(pending.call, "reverted"))),
         lookups' = lookups \/ lookups' = lookups \ {s},
         ~Owned(s)', budget' = Complete(budget, s),
         \A t \in Scopes : stage[t] = "funded" =>
            t # s /\ (pending' = pending \/ pending.call # <<"accept", t>>)
  PROVE  UnminedIsPending' /\ OwnedIsActive' /\ FundedIsSaved' /\ StagesAreSent'
<1>1. UNCHANGED <<wire, stage>> /\ budget \in Ledgers
  BY DEF chain, DexInv, DexTypeOK
<1>2. StagesAreSent'
  BY <1>1, StagesStay DEF Funding
<1>3. UnminedIsPending'
  BY <1>1, UnminedClears DEF Funding, UnminedIsPending
<1>4. \A t \in Scopes : Owned(t)' => Owned(t) /\ t # s
  BY <1>1, NoCallFunds DEF Owned, Cleared
<1>5. \A t \in Scopes : t # s /\ budget.active = t => budget'.active = t
  BY <1>1 DEF Complete, Ledgers
<1>6. OwnedIsActive'
  BY <1>4, <1>5 DEF Funding, OwnedIsActive
<1>7. FundedIsSaved'
  BY <1>1 DEF Funding, FundedIsSaved
<1> QED  BY <1>2, <1>3, <1>6, <1>7

(* A record is written from the budget, which is of the same swap.         *)
LEMMA WritingFunds ==
  ASSUME DexInv, Funding, UNCHANGED <<chain, lookups, held, budget>>, record' = budget, held,
         pending' = pending \/
           (Cleared /\ (pending = NoAttempt \/ Has(pending.call, "ok"))
                    /\ \A s \in Scopes : pending.call # <<"accept", s>>)
  PROVE  UnminedIsPending' /\ OwnedIsActive' /\ FundedIsSaved' /\ StagesAreSent'
<1>1. UNCHANGED <<wire, stage>>
  BY DEF chain
<1>2. StagesAreSent'
  BY <1>1, StagesStay DEF Funding
<1>3. UnminedIsPending'
  BY <1>1, UnminedClears DEF Funding, UnminedIsPending
<1>4. \A t \in Scopes : Owned(t)' => Owned(t)
  BY <1>1, NoCallFunds DEF Owned, Cleared
<1>5. OwnedIsActive'
  BY <1>4 DEF Funding, OwnedIsActive
<1>6. FundedIsSaved'
  BY <1>1 DEF Funding, FundedIsSaved
<1> QED  BY <1>2, <1>3, <1>5, <1>6

-----------------------------------------------------------------------------
(* The steps of a send.                                                    *)

(* Asking for a transaction keeps what is funded.                          *)
LEMMA SendingFunds ==
  ASSUME DexInv, Funding, Sending
  PROVE  Funding'
<1>t. budget \in Ledgers /\ record \in Ledgers
  BY DEF DexInv, DexTypeOK
<1>1. ASSUME NEW s \in Scopes, Quote(s) PROVE Funding'
  <2>1. UNCHANGED <<chain, pending, lookups, record>> /\ budget' = record
    BY <1>1 DEF Quote, storage
  <2>2. op'.at = "admitted" /\ op'.call = <<"quote", s>> /\ record'.active = NoScope
    BY <1>1 DEF Quote, Begins, storage
  <2>3. QuoteIsFirst' /\ AcceptIsOfActive' /\ RestoreIsOfQuote'
    BY <2>2 DEF QuoteIsFirst, AcceptIsOfActive, RestoreIsOfQuote
  <2> QED  BY <2>1, <2>3, PageFunds DEF Funding
<1>2. ASSUME NEW s \in Scopes, Unfilled(s) PROVE Funding'
  <2>1. UNCHANGED <<chain, pending, lookups, record, held>> /\ budget' = Complete(budget, s)
    BY <1>2 DEF Unfilled, storage
  <2>2. stage[s] = "ready" /\ pending = NoAttempt
    BY <1>2 DEF Unfilled, Admitted, Eligible
  <2>3. op'.at = "closing"
    BY <1>2 DEF Unfilled, Begins
  <2>4. ~Owned(s)'
    BY <2>1, <2>2, NoCallFunds DEF Owned, chain
  <2> QED  BY <2>1, <2>2, <2>3, <2>4, FundingRests, ClosingFunds DEF Funding
<1>3. ASSUME NEW p \in Phases, NEW s \in Scopes, Act(p, s) PROVE Funding'
  <2>1. UNCHANGED <<chain, pending, lookups, record, held, budget>>
    BY <1>3 DEF Act, storage
  <2>2. op'.at = "admitted" /\ op'.call = <<p, s>> /\ budget.active = s /\ p # "quote"
    BY <1>3 DEF Act, Begins, Admitted, Eligible
  <2>3. QuoteIsFirst' /\ AcceptIsOfActive' /\ RestoreIsOfQuote'
    BY <2>1, <2>2 DEF QuoteIsFirst, AcceptIsOfActive, RestoreIsOfQuote, At
  <2> QED  BY <2>1, <2>3, PageFunds DEF Funding
<1>4. ASSUME Commit PROVE Funding'
  <2>1. /\ UNCHANGED <<chain, pending, lookups, record, held>> /\ At("admitted")
        /\ budget' = [Charge(budget, op.call, op.nonce) EXCEPT
                        !.active = IF op.call[1] = "quote" THEN op.call[2] ELSE @]
    BY <1>4 DEF Commit, storage
  <2>2. op \in Ops /\ op'.at = "committed" /\ op'.call = op.call
    BY <2>1, <1>4, OpTyped, MovesToKeeps DEF Commit, At, DexInv, Steps, Ops
  <2>3. op.call \in Calls /\ op.nonce \in Nat /\ op.call[2] \in Scopes
    BY <2>2, NoCallFunds DEF Ops
  <2>4. budget'.active = IF op.call[1] = "quote" THEN op.call[2] ELSE budget.active
    <3> DEFINE l == Charge(budget, op.call, op.nonce)
    <3>1. l \in Ledgers /\ l.active = budget.active /\ l.active \in Scopes \cup {NoScope}
      BY <1>t, <2>3, ChargeAdds DEF Ledgers
    <3> HIDE DEF l
    <3> QED  BY <2>1, <2>3, <3>1, ActiveKeeps DEF l
  <2>5. QuoteIsFirst' /\ AcceptIsOfActive' /\ RestoreIsOfQuote'
    BY <2>1, <2>2, <2>4 DEF Funding, QuoteIsFirst, AcceptIsOfActive, RestoreIsOfQuote, At, Unsent
  <2>6. CASE op.call[1] # "quote"
    BY <2>1, <2>4, <2>5, <2>6, PageFunds DEF Funding
  <2>7. CASE op.call[1] = "quote"
    <3>1. \A s \in Scopes : ~Owned(s)
      BY <2>1, <2>7, DexAssumption DEF Funding, QuoteIsFirst, OwnedIsActive, At
    <3>2. \A s \in Scopes : ~Owned(s)'
      BY <2>1, <3>1 DEF Owned, chain
    <3>3. OwnedIsActive' /\ FundedIsSaved'
      BY <3>2 DEF OwnedIsActive, FundedIsSaved, Owned
    <3>4. UnminedIsPending' /\ StagesAreSent'
      BY <2>1, StagesStay DEF Funding, UnminedIsPending, chain
    <3> QED  BY <2>5, <3>3, <3>4 DEF Funding
  <2> QED  BY <2>6, <2>7
<1>5. ASSUME Persist PROVE Funding'
  <2>1. UNCHANGED <<chain, pending, lookups, held, budget>> /\ At("committed") /\ record' = budget
    BY <1>5 DEF Persist
  <2>2. held
    BY <2>1 DEF DexInv, Step, Starts, At
  <2>3. op'.at = "reserving" /\ op'.call = op.call
    BY <1>5, <2>1, OpTyped, MovesToKeeps DEF Persist, At, DexInv, Steps
  <2>4. QuoteIsFirst' /\ AcceptIsOfActive' /\ RestoreIsOfQuote'
    BY <2>1, <2>3 DEF Funding, QuoteIsFirst, AcceptIsOfActive, RestoreIsOfQuote, At, Unsent
  <2> QED  BY <2>1, <2>2, <2>4, WritingFunds DEF Funding
<1>6. ASSUME Reserve PROVE Funding'
  <2>1. /\ UNCHANGED <<chain, lookups, record, held, budget>> /\ At("reserving")
        /\ pending = NoAttempt /\ pending'.call = op.call
    BY <1>6 DEF Reserve
  <2>2. op'.at = "asked" /\ op \in Ops
    BY <1>6, <2>1, OpTyped, MovesToKeeps DEF Reserve, At, DexInv, Steps, Ops
  <2>3. \A s \in Scopes : Owned(s)' => Owned(s) \/ op.call = <<"accept", s>>
    BY <2>1 DEF Owned, chain
  <2>4. OwnedIsActive'
    BY <2>1, <2>3, NoCallFunds DEF Funding, OwnedIsActive, AcceptIsOfActive, At, Unsent
  <2>5. FundedIsSaved'
    BY <2>1, NoCallFunds DEF Funding, FundedIsSaved, chain
  <2>6. UnminedIsPending' /\ StagesAreSent'
    BY <2>1, StagesStay, UnminedClears DEF Funding, UnminedIsPending, chain
  <2> QED  BY <2>2, <2>4, <2>5, <2>6, FundingRests DEF Funding
<1>7. ASSUME Fails \/ WalletRejects \/ Submitted \/ Throws PROVE Funding'
  <2>1. UNCHANGED <<chain, pending, lookups, record, held>>
    BY <1>7 DEF Fails, WalletRejects, Submitted, Throws, storage
  <2>2. budget'.active = budget.active
    <3>1. CASE Submitted
      <4>1. op.nonce \in Nat
        BY <3>1, OpTyped DEF Submitted, At, DexInv
      <4> QED  BY <1>t, <3>1, <4>1, WithHashKeeps DEF Submitted
    <3>2. CASE ~Submitted
      BY <1>7, <3>2 DEF Fails, WalletRejects, Throws
    <3> QED  BY <3>1, <3>2
  <2>3. op'.at \in {"idle", "remembering"} \/ op' = op
    BY <1>7, RestRests, OpTyped, MovesToKeeps
       DEF Fails, WalletRejects, Submitted, Throws, Ends, At, DexInv, Steps
  <2>4. QuoteIsFirst' /\ AcceptIsOfActive' /\ RestoreIsOfQuote'
    <3>1. CASE op' = op
      BY <2>1, <2>2, <3>1
         DEF Funding, QuoteIsFirst, AcceptIsOfActive, RestoreIsOfQuote, At, Has, chain
    <3> QED  BY <2>3, <3>1, FundingRests
  <2> QED  BY <2>1, <2>2, <2>4, PageFunds DEF Funding
<1>8. ASSUME HashReturned PROVE Funding'
  <2>1. /\ UNCHANGED <<chain, lookups, record, held, budget>> /\ At("sent")
        /\ pending' = [pending EXCEPT !.hash = TRUE]
    BY <1>8 DEF HashReturned
  <2>2. pending'.call = pending.call
    BY <2>1 DEF DexInv, DexTypeOK, Charges, NoAttempt
  <2>3. op'.at = "hashed"
    BY <1>8, <2>1, OpTyped, MovesToKeeps DEF HashReturned, At, DexInv, Steps
  <2>4. \A s \in Scopes : Owned(s)' = Owned(s)
    BY <2>1, <2>2 DEF Owned, chain
  <2>5. OwnedIsActive' /\ FundedIsSaved' /\ UnminedIsPending' /\ StagesAreSent'
    BY <2>1, <2>2, <2>4, StagesStay
       DEF Funding, OwnedIsActive, FundedIsSaved, UnminedIsPending, chain
  <2> QED  BY <2>3, <2>5, FundingRests DEF Funding
<1>9. ASSUME RememberHash PROVE Funding'
  <2>1. UNCHANGED <<chain, pending, lookups, held, budget>> /\ record' = budget /\ held
    BY <1>9 DEF RememberHash, DexInv, Step, Asks, At
  <2>2. op'.at = "idle"
    BY <1>9, RestRests DEF RememberHash, Ends
  <2> QED  BY <2>1, <2>2, WritingFunds, FundingRests DEF Funding
<1>10. ASSUME WalletSends PROVE Funding'
  <2>1. /\ UNCHANGED <<stage, pending, lookups, record, held, budget>> /\ prompt
        /\ wire' = Append(wire, [call |-> pending.call, nonce |-> next, state |-> "sent"])
    BY <1>10 DEF WalletSends, storage
  <2>2. PICK k \in Nat : /\ DOMAIN wire = 1..k /\ DOMAIN wire' = 1..(k + 1)
                         /\ \A i \in 1..k : wire'[i] = wire[i]
                         /\ wire'[k + 1].call = pending.call /\ wire'[k + 1].state = "sent"
    <3> DEFINE e == [call |-> pending.call, nonce |-> next, state |-> "sent"]
    <3>1. wire \in Seq(Sends) /\ e \in Sends
      <4>1. pending \in Charges /\ next \in Nat
        BY <2>1 DEF DexInv, DexTypeOK, Ledger, PromptIsUnsent
      <4> QED  BY <4>1, SequencesAre DEF SequencesTyped, DexInv, Sends, Charges
    <3>2. e.call = pending.call /\ e.state = "sent"
      OBVIOUS
    <3> HIDE DEF e
    <3>3. /\ Len(wire) \in Nat /\ DOMAIN wire = 1..Len(wire) /\ DOMAIN wire' = 1..(Len(wire) + 1)
          /\ \A i \in 1..Len(wire) : wire'[i] = wire[i]
          /\ wire'[Len(wire) + 1] = e
      BY <2>1, <3>1 DEF e
    <3> QED  BY <3>2, <3>3
  <2>3. \A i \in 1..(k + 1) : i = k + 1 \/ i \in 1..k
    BY <2>2
  <2>4. \A i \in 1..k : i \in 1..(k + 1)
    BY <2>2
  <2>5. UnminedIsPending'
    BY <2>1, <2>2, <2>3 DEF Funding, UnminedIsPending
  <2>6. \A c : Has(c, "ok")' <=> Has(c, "ok")
    BY <2>2, <2>3, <2>4 DEF Has
  <2>7. StagesAreSent'
    BY <2>1, <2>6 DEF Funding, StagesAreSent
  <2>8. OwnedIsActive' /\ FundedIsSaved'
    BY <2>1 DEF Funding, OwnedIsActive, FundedIsSaved, Owned
  <2>9. op'.at = "sent" \/ op' = op
    BY <1>10, OpTyped, MovesToKeeps DEF WalletSends, At, DexInv, Steps
  <2>10. QuoteIsFirst' /\ AcceptIsOfActive' /\ RestoreIsOfQuote'
    <3>1. CASE op' = op
      BY <2>1, <2>6, <3>1 DEF Funding, QuoteIsFirst, AcceptIsOfActive, RestoreIsOfQuote, At
    <3> QED  BY <2>9, <3>1, FundingRests
  <2> QED  BY <2>5, <2>7, <2>8, <2>10 DEF Funding
<1> QED  BY <1>1, <1>2, <1>3, <1>4, <1>5, <1>6, <1>7, <1>8, <1>9, <1>10 DEF Sending

-----------------------------------------------------------------------------
(* The steps of a verification and of a restoration.                       *)

(* Verifying a call keeps what is funded: an Accept leaves its lookup, and *)
(* only a swap that is over is completed.                                  *)
LEMMA VerifyingFunds ==
  ASSUME DexInv, Funding, NEW s \in Scopes,
         VerifyQuote(s) \/ VerifyAccept(s) \/ VerifyFast(s) \/ VerifyRelease(s)
  PROVE  Funding'
<1>1. PICK p \in Phases : Verifies(p, s)
  BY DEF VerifyQuote, VerifyAccept, VerifyFast, VerifyRelease, Phases
<1>2. pending.call = <<p, s>> /\ Has(pending.call, "ok") /\ op.at = "idle"
  BY <1>1, RestRests DEF Verifies
<1>3. UNCHANGED <<chain, record, held>> /\ Cleared
  BY DEF VerifyQuote, VerifyAccept, VerifyFast, VerifyRelease
<1>4. UNCHANGED <<wire, stage>>
  BY <1>3 DEF chain
<1>5. UnminedIsPending' /\ StagesAreSent'
  BY <1>2, <1>4, UnminedClears, StagesStay DEF Funding
<1>6. op'.at \in {"idle", "closing"}
  BY <1>2 DEF VerifyQuote, VerifyAccept, VerifyFast, VerifyRelease, Begins
<1>7. CASE VerifyQuote(s) \/ VerifyAccept(s)
  <2>1. budget' = budget /\ lookups' = IF VerifyAccept(s) THEN lookups \cup {s} ELSE lookups
    BY <1>7 DEF VerifyQuote, VerifyAccept
  <2>2. VerifyAccept(s) \/ pending.call # <<"accept", s>>
    BY <1>7, NoCallFunds DEF VerifyQuote, Verifies
  <2>3. \A t \in Scopes : Owned(t)' => Owned(t)
    BY <1>3, <1>4, NoCallFunds DEF Owned, Cleared
  <2>4. OwnedIsActive'
    BY <1>3, <2>1, <2>3 DEF Funding, OwnedIsActive
  <2>5. FundedIsSaved'
    <3> SUFFICES ASSUME NEW t \in Scopes, stage[t] = "funded"
                 PROVE  t \notin Fast /\ t \in lookups'
      BY <1>4 DEF FundedIsSaved
    <3>1. t \notin Fast /\ (t \in lookups \/ pending.call = <<"accept", t>>)
      BY DEF Funding, FundedIsSaved
    <3>2. pending.call = <<"accept", t>> => t = s /\ VerifyAccept(s)
      BY <1>2, <2>2, NoCallFunds
    <3> QED  BY <2>1, <3>1, <3>2
  <2> QED  BY <1>5, <1>6, <2>4, <2>5, FundingRests DEF Funding
<1>8. CASE VerifyFast(s) \/ VerifyRelease(s)
  <2>1. budget' = Complete(budget, s) /\ lookups' \in {lookups, lookups \ {s}}
    BY <1>8 DEF VerifyFast, VerifyRelease
  <2>2. stage[s] # "funded"
    <3>1. CASE VerifyFast(s)
      BY <3>1 DEF VerifyFast, Funding, FundedIsSaved
    <3>2. CASE VerifyRelease(s)
      BY <3>2 DEF VerifyRelease, Verifies, Funding, StagesAreSent
    <3> QED  BY <1>8, <3>1, <3>2
  <2>3. ~Owned(s)'
    BY <1>3, <1>4, <2>2, NoCallFunds DEF Owned, Cleared
  <2>4. \A t \in Scopes : stage[t] = "funded" => t # s /\ pending.call # <<"accept", t>>
    BY <1>2, <2>2, NoCallFunds
  <2> QED  BY <1>2, <1>3, <1>6, <2>1, <2>3, <2>4, ClosingFunds, FundingRests DEF Funding
<1> QED  BY <1>7, <1>8

(* A revert is of an attempt that has funded nothing.                      *)
LEMMA RevertedFunds ==
  ASSUME DexInv, Funding, Reverted
  PROVE  Funding'
<1>1. /\ pending # NoAttempt /\ Has(pending.call, "reverted") /\ Cleared /\ op.at = "idle"
      /\ UNCHANGED <<chain, lookups, record, held>>
  BY RestRests DEF Reverted
<1>2. UNCHANGED <<wire, stage>>
  BY <1>1 DEF chain
<1>3. ~Has(pending.call, "ok")
  BY <1>1, MinedIsMined
<1>4. op'.at \in {"idle", "closing"}
  BY <1>1 DEF Reverted, Begins
<1>5. \A t \in Scopes : stage[t] = "funded" => pending.call # <<"accept", t>>
  BY <1>3 DEF Funding, StagesAreSent
<1>6. CASE pending.call[1] = "quote"
  <2>1. PICK s \in Scopes : pending.call = <<"quote", s>>
    <3>1. pending.call \in Calls
      BY <1>1 DEF DexInv, DexTypeOK, Charges
    <3> QED  BY <1>6, <3>1, NoCallFunds
  <2>2. budget' = Complete(budget, s)
    BY <1>6, <2>1, NoCallFunds DEF Reverted
  <2>3. stage[s] = "none"
    BY <1>3, <2>1 DEF Funding, StagesAreSent
  <2>4. ~Owned(s)'
    BY <1>1, <1>2, <2>3, NoCallFunds DEF Owned, Cleared
  <2> QED  BY <1>1, <1>4, <1>5, <2>1, <2>2, <2>3, <2>4, ClosingFunds, FundingRests DEF Funding
<1>7. CASE pending.call[1] # "quote"
  <2>1. budget' = budget
    BY <1>7 DEF Reverted
  <2>2. UnminedIsPending' /\ StagesAreSent'
    BY <1>1, <1>2, UnminedClears, StagesStay DEF Funding
  <2>3. \A t \in Scopes : Owned(t)' => Owned(t)
    BY <1>1, <1>2, NoCallFunds DEF Owned, Cleared
  <2>4. OwnedIsActive' /\ FundedIsSaved'
    BY <1>1, <1>2, <1>5, <2>1, <2>3 DEF Funding, OwnedIsActive, FundedIsSaved
  <2> QED  BY <1>4, <2>2, <2>4, FundingRests DEF Funding
<1> QED  BY <1>6, <1>7

(* A restoration writes what it has read, and abandons what was never      *)
(* accepted.                                                               *)
LEMMA RestoredFunds ==
  ASSUME DexInv, Funding, Restored
  PROVE  Funding'
<1>1. /\ At("restoring") /\ record' = budget /\ held /\ held' = held
      /\ UNCHANGED <<chain, lookups>>
  BY DEF Restored, DexInv, Step, Restores, At
<1>2. UNCHANGED <<wire, stage>>
  BY <1>1 DEF chain
<1>3. op \in Ops /\ op.call \in Calls /\ op.call[1] = "quote" /\ op.call[2] \in Scopes
  <2>1. op \in Ops
    BY <1>1, OpTyped DEF At, DexInv, Ops
  <2> QED  BY <1>1, <2>1, NoCallFunds DEF Ops, Funding, RestoreIsOfQuote, At
<1>4. /\ pending = NoAttempt \/ (pending.call = op.call /\ Has(pending.call, "ok"))
      /\ \A t : pending.call # <<"accept", t>>
  BY <1>1, <1>3, NoCallFunds DEF Funding, RestoreIsOfQuote, At
<1>5. CASE ~Unfunded(op.call[2])
  <2>1. Cleared /\ budget' = budget /\ op'.at = "idle"
    BY <1>1, <1>5, RestRests DEF Restored, Ends
  <2> QED  BY <1>1, <1>4, <2>1, WritingFunds, FundingRests DEF Funding
<1>6. CASE Unfunded(op.call[2])
  <2>1. budget' = Complete(budget, op.call[2]) /\ pending' = pending /\ MovesTo("abandoning")
    BY <1>6 DEF Restored
  <2>2. op'.at = "abandoning" /\ op'.call = op.call
    BY <1>1, <2>1, OpTyped, MovesToKeeps DEF At, DexInv, Steps
  <2>3. QuoteIsFirst' /\ AcceptIsOfActive' /\ RestoreIsOfQuote'
    BY <1>1, <1>2, <2>1, <2>2
       DEF Funding, QuoteIsFirst, AcceptIsOfActive, RestoreIsOfQuote, At, Unsent, Has
  <2>4. \A t \in Scopes : Owned(t)' => Owned(t) /\ t # op.call[2]
    BY <1>2, <1>4, <1>6, <2>1 DEF Owned, Unfunded
  <2>5. \A t \in Scopes : t # op.call[2] /\ budget.active = t => budget'.active = t
    BY <2>1 DEF Complete, DexInv, DexTypeOK, Ledgers
  <2>6. OwnedIsActive'
    BY <1>1, <2>4, <2>5 DEF Funding, OwnedIsActive
  <2>7. FundedIsSaved' /\ UnminedIsPending' /\ StagesAreSent'
    BY <1>1, <1>2, <2>1, StagesStay DEF Funding, FundedIsSaved, UnminedIsPending
  <2> QED  BY <2>3, <2>6, <2>7 DEF Funding
<1> QED  BY <1>5, <1>6

(* Every step of a verification or a restoration keeps what is funded.     *)
LEMMA CheckingFunds ==
  ASSUME DexInv, Funding, Checking
  PROVE  Funding'
<1>t. budget \in Ledgers /\ record \in Ledgers
  BY DEF DexInv, DexTypeOK
<1>1. ASSUME NEW s \in Scopes,
             VerifyQuote(s) \/ VerifyAccept(s) \/ VerifyFast(s) \/ VerifyRelease(s)
      PROVE  Funding'
  BY <1>1, VerifyingFunds
<1>2. ASSUME NEW s \in Scopes, ReadDelivery(s) PROVE Funding'
  <2>1. /\ UNCHANGED <<chain, pending, record, held>> /\ budget' = Complete(budget, s)
        /\ lookups' = lookups \ {s} /\ pending = NoAttempt
        /\ stage[s] \in {"settled", "released"} /\ op'.at = "closing"
    BY <1>2 DEF ReadDelivery, Begins, Final
  <2>2. ~Owned(s)'
    BY <2>1, NoCallFunds DEF Owned, chain
  <2> QED  BY <2>1, <2>2, ClosingFunds, FundingRests DEF Funding
<1>3. ASSUME NEW s \in Scopes, Bar(s) \/ LetGo(s) PROVE Funding'
  <2>1. UNCHANGED <<chain, pending, lookups, record, held, budget, op>> /\ op.at = "idle"
    BY <1>3, RestRests DEF Bar, LetGo, storage, memory, Verifies
  <2> QED  BY <2>1, PageFunds, FundingRests DEF Funding
<1>4. ASSUME NEW s \in Scopes, Restore(s) PROVE Funding'
  <2>1. /\ UNCHANGED <<chain, pending, lookups, record>>
        /\ budget' = record \/ (pending # NoAttempt /\ budget' = Filled(record))
        /\ Has(<<"quote", s>>, "ok")
        /\ pending = NoAttempt \/ pending.call = <<"quote", s>>
        /\ op'.at = "restoring" /\ op'.call = <<"quote", s>>
    BY <1>4 DEF Restore, storage, Begins
  <2>2. budget'.active = record.active
    <3>1. CASE pending # NoAttempt
      <4>1. pending.nonce \in Nat
        BY <3>1 DEF DexInv, DexTypeOK, Charges
      <4> QED  BY <1>t, <2>1, <4>1, WithHashKeeps DEF Filled
    <3> QED  BY <2>1, <3>1
  <2>3. QuoteIsFirst' /\ AcceptIsOfActive' /\ RestoreIsOfQuote'
    BY <2>1 DEF QuoteIsFirst, AcceptIsOfActive, RestoreIsOfQuote, Unsent, Has, chain
  <2> QED  BY <2>1, <2>2, <2>3, PageFunds DEF Funding
<1>5. ASSUME NEW s \in Scopes, Discard(s) PROVE Funding'
  <2>1. /\ UNCHANGED <<chain, pending, lookups, held, op>>
        /\ stage[s] = "ready" /\ pending = NoAttempt /\ op.at = "idle"
        /\ record.active = s
    BY <1>5, RestRests DEF Discard
  <2>2. \A t \in Scopes : ~Owned(t)
    BY <2>1, NoCallFunds DEF Funding, OwnedIsActive, Owned
  <2>3. \A t \in Scopes : ~Owned(t)'
    BY <2>1, <2>2 DEF Owned, chain
  <2>4. OwnedIsActive' /\ FundedIsSaved' /\ UnminedIsPending' /\ StagesAreSent'
    BY <2>1, <2>3, StagesStay
       DEF Funding, OwnedIsActive, FundedIsSaved, Owned, UnminedIsPending, chain
  <2> QED  BY <2>1, <2>4, FundingRests DEF Funding
<1>6. ASSUME Close PROVE Funding'
  <2>1. UNCHANGED <<chain, pending, lookups, held, budget>> /\ record' = budget /\ held
        /\ op'.at = "idle"
    BY <1>6, RestRests DEF Close, Ends
  <2> QED  BY <2>1, WritingFunds, FundingRests DEF Funding
<1>7. ASSUME Abandoned PROVE Funding'
  <2>1. UNCHANGED <<chain, lookups, held, budget>> /\ record' = budget /\ held /\ Cleared
        /\ op'.at = "idle" /\ op.at = "abandoning"
    BY <1>7, RestRests DEF Abandoned, Ends, At, DexInv, Step, Restores
  <2>2. op.call \in Calls
    BY <2>1, OpTyped DEF DexInv
  <2>3. /\ pending = NoAttempt \/ Has(pending.call, "ok")
        /\ \A t : pending.call # <<"accept", t>>
    BY <2>1, <2>2, NoCallFunds DEF Funding, RestoreIsOfQuote
  <2> QED  BY <2>1, <2>3, WritingFunds, FundingRests DEF Funding
<1>8. ASSUME NewQuote PROVE Funding'
  <2>1. UNCHANGED <<chain, pending, lookups, record, held, budget, op>> /\ op.at = "idle"
    BY <1>8, RestRests DEF NewQuote, storage
  <2> QED  BY <2>1, PageFunds, FundingRests DEF Funding
<1> QED
  BY <1>1, <1>2, <1>3, <1>4, <1>5, <1>6, <1>7, <1>8, RevertedFunds, RestoredFunds DEF Checking

-----------------------------------------------------------------------------
(* The chain, and the reloads.                                             *)

(* A receipt: an Accept funds the swap that is active.                     *)
LEMMA MineOwnFunds ==
  ASSUME DexInv, Funding, NEW i \in DOMAIN wire, NEW state \in {"ok", "reverted"},
         MineOwn(i, state)
  PROVE  Funding'
<1> DEFINE p == wire[i].call[1]
           s == wire[i].call[2]
<1>1. /\ UNCHANGED <<pending, lookups, record, held, budget, op>>
      /\ wire[i].nonce = settled
      /\ wire' = [wire EXCEPT ![i].state = state]
      /\ stage' = IF state = "ok" THEN [stage EXCEPT ![s] = Reached(p, s)] ELSE stage
      /\ state = "ok" => Succeeds(p, s)
  BY DEF MineOwn, storage, memory
<1>2. wire[i] \in Sends /\ \A k \in DOMAIN wire : wire[k] \in Sends
  BY SequenceFacts DEF DexInv
<1>3. /\ wire[i].call = <<p, s>> /\ p \in Phases /\ s \in Scopes
      /\ stage \in Stages
  <2>1. wire[i].call \in Calls
    BY <1>2 DEF Sends
  <2> QED  BY <2>1, NoCallFunds DEF Calls, DexInv, DexTypeOK, Stages
<1>4. wire[i].state = "sent"
  <2>1. settled \in Nat
    BY DEF DexInv, DexTypeOK
  <2>2. settled <= wire[i].nonce
    BY <1>1, <2>1
  <2> QED  BY <2>2 DEF DexInv, Ledger, NoncesInOrder
<1>5. pending.call = <<p, s>>
  BY <1>3, <1>4 DEF Funding, UnminedIsPending
<1>6. /\ DOMAIN wire' = DOMAIN wire /\ wire'[i].call = wire[i].call /\ wire'[i].state = state
      /\ \A k \in DOMAIN wire : k # i => wire'[k] = wire[k]
  <2>1. DOMAIN wire' = DOMAIN wire /\ \A k \in DOMAIN wire : k # i => wire'[k] = wire[k]
    BY <1>1
  <2>2. wire'[i] = [wire[i] EXCEPT !.state = state]
    BY <1>1
  <2> QED  BY <1>2, <2>1, <2>2 DEF Sends
<1> HIDE DEF p, s
<1>7. \A c : Has(c, "ok")' <=> Has(c, "ok") \/ (state = "ok" /\ c = <<p, s>>)
  BY <1>3, <1>4, <1>6 DEF Has
<1>8. UnminedIsPending'
  BY <1>1, <1>6 DEF Funding, UnminedIsPending
<1>9. CASE state # "ok"
  <2>1. stage' = stage /\ \A c : Has(c, "ok")' <=> Has(c, "ok")
    BY <1>1, <1>7, <1>9
  <2>2. StagesAreSent' /\ OwnedIsActive' /\ FundedIsSaved'
    BY <1>1, <2>1 DEF Funding, StagesAreSent, OwnedIsActive, FundedIsSaved, Owned
  <2>3. QuoteIsFirst' /\ AcceptIsOfActive' /\ RestoreIsOfQuote'
    BY <1>1, <2>1 DEF Funding, QuoteIsFirst, AcceptIsOfActive, RestoreIsOfQuote, At
  <2> QED  BY <1>8, <2>2, <2>3 DEF Funding
<1>10. CASE state = "ok"
  <2>1. /\ stage'[s] = Reached(p, s) /\ \A t \in Scopes : t # s => stage'[t] = stage[t]
        /\ Succeeds(p, s)
    BY <1>1, <1>3, <1>10 DEF Stages
  <2>2. stage'[s] = "funded" => p = "accept" /\ s \notin Fast
    BY <2>1, <1>3 DEF Reached, Phases
  <2>3. OwnedIsActive'
    <3>1. \A t \in Scopes : Owned(t)' => Owned(t)
      BY <1>1, <1>5, <2>1, <2>2 DEF Owned
    <3> QED  BY <1>1, <3>1 DEF Funding, OwnedIsActive
  <2>4. FundedIsSaved'
    BY <1>1, <1>5, <2>1, <2>2 DEF Funding, FundedIsSaved
  <2>5. StagesAreSent'
    <3> SUFFICES ASSUME NEW t \in Scopes
                 PROVE  /\ stage'[t] # "none" => Has(<<"quote", t>>, "ok")'
                        /\ stage'[t] = "funded" => Has(<<"accept", t>>, "ok")'
                        /\ Has(<<"cancel", t>>, "ok")' \/ Has(<<"recover", t>>, "ok")'
                             => stage'[t] = "released"
      BY DEF StagesAreSent, Has
    <3>1. CASE t # s
      <4>1. \A q : <<q, t>> # <<p, s>>
        BY <3>1, NoCallFunds
      <4> QED  BY <1>7, <2>1, <3>1, <4>1 DEF Funding, StagesAreSent
    <3>2. CASE t = s
      <4>1. CASE p = "quote"
        <5>1. stage[s] = "none"
          BY <2>1, <4>1 DEF Succeeds
        <5>2. stage'[s] \in {"ready", "preparing"}
          BY <2>1, <4>1 DEF Reached
        <5>3. \A q : q # "quote" => <<q, s>> # <<p, s>>
          BY <4>1, NoCallFunds
        <5> QED  BY <1>7, <1>10, <3>2, <4>1, <5>1, <5>2, <5>3 DEF Funding, StagesAreSent
      <4>2. CASE p = "accept"
        <5>1. stage[s] = "ready"
          BY <2>1, <4>2 DEF Succeeds
        <5>2. stage'[s] \in {"settled", "funded"}
          BY <2>1, <4>2 DEF Reached
        <5>3. \A q : q # "accept" => <<q, s>> # <<p, s>>
          BY <4>2, NoCallFunds
        <5> QED  BY <1>7, <1>10, <3>2, <4>2, <5>1, <5>2, <5>3 DEF Funding, StagesAreSent
      <4>3. CASE p \in {"cancel", "recover"}
        <5>1. stage[s] # "none" /\ stage'[s] = "released"
          BY <2>1, <4>3 DEF Succeeds, Reached
        <5> QED  BY <1>7, <3>2, <5>1 DEF Funding, StagesAreSent
      <4> QED  BY <1>3, <4>1, <4>2, <4>3 DEF Phases
    <3> QED  BY <3>1, <3>2
  <2>6. QuoteIsFirst' /\ AcceptIsOfActive' /\ RestoreIsOfQuote'
    BY <1>1, <1>7 DEF Funding, QuoteIsFirst, AcceptIsOfActive, RestoreIsOfQuote, At
  <2> QED  BY <1>8, <2>3, <2>4, <2>5, <2>6 DEF Funding
<1> QED  BY <1>9, <1>10

(* The keeper prepares and settles; it funds nothing.                      *)
LEMMA KeeperFunds ==
  ASSUME DexInv, Funding, NEW s \in Scopes, Keeper(s)
  PROVE  Funding'
<1>1. UNCHANGED <<wire, pending, lookups, record, held, budget, op>>
  BY DEF Keeper, storage, memory
<1>2. /\ stage'[s] \in {"ready", "settled"} /\ stage[s] \in {"preparing", "funded"}
      /\ \A t \in Scopes : t # s => stage'[t] = stage[t]
  BY DEF Keeper, DexInv, DexTypeOK
<1>3. \A t \in Scopes : Owned(t)' => Owned(t)
  BY <1>1, <1>2 DEF Owned
<1>4. OwnedIsActive'
  BY <1>1, <1>3 DEF Funding, OwnedIsActive
<1>5. UnminedIsPending' /\ FundedIsSaved'
  BY <1>1, <1>2 DEF Funding, UnminedIsPending, FundedIsSaved
<1>6. StagesAreSent'
  BY <1>1, <1>2 DEF Funding, StagesAreSent, Has
<1>7. QuoteIsFirst' /\ AcceptIsOfActive' /\ RestoreIsOfQuote'
  BY <1>1 DEF Funding, QuoteIsFirst, AcceptIsOfActive, RestoreIsOfQuote, At, Has
<1> QED  BY <1>4, <1>5, <1>6, <1>7 DEF Funding

(* Every step of the chain, and a reload, keeps what is funded.            *)
LEMMA EnvironmentFunds ==
  ASSUME DexInv, Funding, Environment
  PROVE  Funding'
<1>1. CASE Reload
  <2>1. UNCHANGED <<chain, pending, lookups, record>> /\ held' = FALSE /\ op'.at = "idle"
    BY <1>1, RestRests DEF Reload, storage
  <2> QED  BY <2>1, PageFunds, FundingRests DEF Funding
<1>2. CASE Other \/ MineOther \/ \E s \in Scopes : Expire(s)
  <2>1. UNCHANGED <<wire, stage, pending, lookups, record, held, budget, op>>
    BY <1>2 DEF Other, MineOther, Expire, storage, memory
  <2>2. UnminedIsPending' /\ OwnedIsActive' /\ FundedIsSaved' /\ StagesAreSent'
    BY <2>1, StagesStay DEF Funding, UnminedIsPending, OwnedIsActive, FundedIsSaved, Owned
  <2>3. QuoteIsFirst' /\ AcceptIsOfActive' /\ RestoreIsOfQuote'
    BY <2>1 DEF Funding, QuoteIsFirst, AcceptIsOfActive, RestoreIsOfQuote, At, Has
  <2> QED  BY <2>2, <2>3 DEF Funding
<1> QED  BY <1>1, <1>2, MineOwnFunds, KeeperFunds DEF Environment, Mining

(* Through reloads, reverts and lost answers, a swap that holds the user's *)
(* tokens is the active one of the storage, and its Accept is saved there. *)
THEOREM FundedStaysRemembered == DexSpec => []FundedIsRemembered
<1>1. DexInit => Funding
  <2> SUFFICES ASSUME DexInit PROVE Funding
    OBVIOUS
  <2>1. /\ DOMAIN wire = {} /\ \A s \in Scopes : stage[s] = "none"
        /\ pending = NoAttempt /\ op.at = "idle"
    <3>1. wire = << >>
      BY DEF DexInit
    <3>2. DOMAIN wire = {}
      BY <3>1
    <3> QED  BY <3>2, RestRests DEF DexInit
  <2>2. \A s \in Scopes : ~Owned(s)
    BY <2>1, NoCallFunds DEF Owned
  <2> QED
    BY <2>1, <2>2 DEF Funding, UnminedIsPending, OwnedIsActive, FundedIsSaved, StagesAreSent, Has,
       QuoteIsFirst, AcceptIsOfActive, RestoreIsOfQuote, Unsent
<1>2. DexInv /\ Funding /\ [DexNext]_dexVars => Funding'
  <2> SUFFICES ASSUME DexInv, Funding, [DexNext]_dexVars PROVE Funding'
    OBVIOUS
  <2>1. CASE UNCHANGED dexVars
    <3>1. UNCHANGED <<chain, pending, lookups, record, held, budget, op, wire>>
      BY <2>1 DEF dexVars, storage, memory, chain
    <3>2. QuoteIsFirst' /\ AcceptIsOfActive' /\ RestoreIsOfQuote'
      BY <3>1 DEF Funding, QuoteIsFirst, AcceptIsOfActive, RestoreIsOfQuote, At, Has
    <3> QED  BY <3>1, <3>2, PageFunds DEF Funding
  <2> QED  BY <2>1, SendingFunds, CheckingFunds, EnvironmentFunds DEF DexNext
<1>3. Funding => FundedIsRemembered
  BY DEF Funding, FundedIsSaved, OwnedIsActive, Owned, FundedIsRemembered
<1> QED  BY <1>1, <1>2, <1>3, DexInvHolds, PTL DEF DexSpec

=============================================================================
