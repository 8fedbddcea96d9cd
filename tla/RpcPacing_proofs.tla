-------------------------- MODULE RpcPacing_proofs --------------------------
(***************************************************************************)
(* Proofs about the RPC queue, for any number of calls, any limit of the   *)
(* trial and every build: one request at a time, a stop that is final, and *)
(* the bound on the turns others have while a class waits.                 *)
(***************************************************************************)
EXTENDS RpcPacing, SequenceTheorems, FiniteSetTheorems, TLAPS

(* A call that was sent is the one the loop waits for; the loop waits for  *)
(* a call that is sent or spaced; a request that is on its way is that     *)
(* call's, unless the queue has stopped.                                   *)
WorkerOwns ==
  /\ \A c \in Calls : call[c] = "sent" => worker = c
  /\ worker # NoCall => running /\ call[worker] \in {"pacing", "sent"}
  /\ \A c \in transport : stopped \/ (worker = c /\ call[c] = "sent")

(* What the turns taken so far leave to the others while a class waits:    *)
(* foreground turns until essential has one, and background turns among    *)
(* them.                                                                   *)
EssentialLeft(a, h) ==
  LET r == IF a < 3 THEN 3 - a ELSE 0 IN
    r + (IF h + r >= 6 THEN 2 ELSE IF h + r >= 3 THEN 1 ELSE 0)

TurnsLeft ==
  /\ \A k \in Classes : queue[k] = <<>> => passed[k] = 0
  /\ passed["background"] <= high
  /\ passed["essential"] + EssentialLeft(ahead, high) <= 5
  /\ passed["foreground"] <= 2
  /\ passed["foreground"] = 1 => ahead = 0 \/ high = 0
  /\ passed["foreground"] = 2 => ahead = 0 /\ high <= 1

PacingInv == PacingTypeOK /\ WorkerOwns /\ OneRequest

(* Removing an element of a sequence leaves a sequence of the same set,    *)
(* and an empty one only if it was the only element.                       *)
LEMMA RemoveKeepsType ==
  ASSUME NEW S, NEW s \in Seq(S), NEW i \in 1..Len(s)
  PROVE  /\ RemoveAt(s, i) \in Seq(S)
         /\ RemoveAt(s, i) = <<>> <=> Len(s) = 1
<1>1. SubSeq(s, 1, i - 1) \in Seq(S) /\ Len(SubSeq(s, 1, i - 1)) = i - 1
  BY SubSeqProperties
<1>2. SubSeq(s, i + 1, Len(s)) \in Seq(S)
      /\ Len(SubSeq(s, i + 1, Len(s))) = Len(s) - i
  BY SubSeqProperties
<1> DEFINE a == SubSeq(s, 1, i - 1)
           b == SubSeq(s, i + 1, Len(s))
<1>3. RemoveAt(s, i) = a \o b
  BY DEF RemoveAt
<1> HIDE DEF a, b
<1>4. a \o b \in Seq(S) /\ Len(a \o b) = Len(a) + Len(b)
  BY <1>1, <1>2, ConcatProperties DEF a, b
<1>4a. Len(a) = i - 1 /\ Len(b) = Len(s) - i
  BY <1>1, <1>2 DEF a, b
<1>5. RemoveAt(s, i) \in Seq(S) /\ Len(RemoveAt(s, i)) = Len(s) - 1
  BY <1>3, <1>4, <1>4a
<1>6. QED BY <1>5, EmptySeq

(* The class chosen has a call that waits, and taking it leaves the queues *)
(* what they were but for its first call.                                  *)
LEMMA NextWaits ==
  ASSUME NEW q \in [Classes -> Seq(Calls)], high \in 0..3, ahead \in Nat,
         \E k \in Classes : q[k] # <<>>
  PROVE  /\ NextClass(q) \in Classes
         /\ q[NextClass(q)] # <<>>
         /\ Head(q[NextClass(q)]) \in Calls
         /\ [q EXCEPT ![NextClass(q)] = Tail(@)] \in [Classes -> Seq(Calls)]
<1>1. NextClass(q) \in Classes /\ q[NextClass(q)] # <<>>
  BY DEF Classes, NextClass, BackfillTurn, ForegroundTurn
<1>2. /\ Head(q[NextClass(q)]) \in Calls
      /\ Tail(q[NextClass(q)]) \in Seq(Calls)
  BY <1>1, HeadTailProperties
<1>3. QED BY <1>1, <1>2

(* No call has the number that stands for none. *)
LEMMA CallsAreNumbered == \A d \in Calls : d # NoCall
BY PacingAssumption DEF Calls, NoCall

(* A turn counts with the types it should. *)
LEMMA TurnsTyped ==
  ASSUME PacingTypeOK, NEW r \in [Classes -> Seq(Calls)], NEW k \in Classes,
         Turns(r, k)
  PROVE  high' \in 0..3 /\ ahead' \in Nat /\ passed' \in [Classes -> Nat]
<1>1. high' \in 0..3 BY DEF Turns, PacingTypeOK
<1>2. ahead' \in Nat BY DEF Turns, PacingTypeOK, Classes
<1>3. passed' \in [Classes -> Nat] BY DEF Turns, PacingTypeOK
<1>4. QED BY <1>1, <1>2, <1>3

(* A turn keeps the types, what the loop waits for and the one request, if *)
(* it begins with no call under way.                                       *)
LEMMA TurnKeeps ==
  ASSUME PacingInv, worker = NoCall,
         NEW q \in [Classes -> Seq(Calls)], \E j \in Classes : q[j] # <<>>,
         NEW cs \in [Calls -> CallState], NEW n \in Int,
         \A d \in Calls : cs[d] # "sent",
         mode' = mode, issued' \in 0..MaxCalls,
         TakeTurn(q, cs, n)
  PROVE  PacingInv' /\ (stopped => stopped' /\ started' = started
                                   /\ transport' \subseteq transport)
<1>1. /\ NextClass(q) \in Classes /\ Head(q[NextClass(q)]) \in Calls
      /\ [q EXCEPT ![NextClass(q)] = Tail(@)] \in [Classes -> Seq(Calls)]
  BY NextWaits DEF PacingInv, PacingTypeOK
<1>2. PICK k \in Classes, c \in Calls, r \in [Classes -> Seq(Calls)] :
        /\ k = NextClass(q)
        /\ queue' = r /\ running' = TRUE
        /\ Work(c, cs, n) /\ Turns(r, k)
  BY <1>1 DEF TakeTurn
<1>3. queue' \in [Classes -> Seq(Calls)] /\ running' = TRUE
  BY <1>2
<1>4. c # NoCall
  BY CallsAreNumbered
<1>a. high' \in 0..3 /\ ahead' \in Nat
  BY <1>2, TurnsTyped DEF PacingInv
<1>b. passed' \in [Classes -> Nat]
  BY <1>2, TurnsTyped DEF PacingInv
<1>5. \A d \in transport : stopped
  BY <1>4 DEF PacingInv, WorkerOwns, PacingTypeOK, Calls, NoCall
<1>6. CASE Refuse(c, cs, n)
  <2>1. PacingTypeOK'
    BY SMTT(40), <1>3, <1>a, <1>b, <1>6 DEF Refuse, PacingInv, PacingTypeOK, CallState, Blocked, Comparison
  <2>2. WorkerOwns' /\ OneRequest'
    BY <1>5, <1>6 DEF Refuse, PacingInv, PacingTypeOK, WorkerOwns, OneRequest, Blocked
  <2>3. QED BY <2>1, <2>2, <1>6 DEF PacingInv, Refuse, Blocked
<1>7. CASE Pace(c, cs, n)
  <2>1. PacingTypeOK'
    BY <1>3, <1>a, <1>b, <1>7 DEF Pace, PacingInv, PacingTypeOK, CallState
  <2>2. WorkerOwns' /\ OneRequest'
    BY <1>3, <1>4, <1>5, <1>7 DEF Pace, PacingInv, PacingTypeOK, WorkerOwns, OneRequest
  <2>3. QED BY <2>1, <2>2, <1>7 DEF PacingInv, Pace
<1>8. CASE Send(c, cs, n)
  <2>0. ~stopped /\ transport = {}
    BY <1>5, <1>8 DEF Send, Blocked
  <2>a. rested' \in BOOLEAN /\ stopped' \in BOOLEAN
    BY <1>8 DEF Send, PacingInv, PacingTypeOK, Spaced
  <2>b. transport' \subseteq Calls /\ started' \in Nat /\ worker' \in Calls
    BY <1>8 DEF Send, PacingInv, PacingTypeOK
  <2>c. call' \in [Calls -> CallState] /\ pending' \in Int
    BY <1>8 DEF Send, CallState
  <2>1. PacingTypeOK'
    BY <1>3, <1>a, <1>b, <2>a, <2>b, <2>c DEF PacingInv, PacingTypeOK
  <2>2. WorkerOwns' /\ OneRequest'
    BY <1>3, <1>4, <1>8, <2>0 DEF Send, PacingInv, PacingTypeOK, WorkerOwns, OneRequest
  <2>3. QED BY <2>0, <2>1, <2>2 DEF PacingInv
<1>9. QED BY <1>2, <1>6, <1>7, <1>8 DEF Work

(* The types, what the loop waits for and the one request hold at first    *)
(* and are kept by every step; no step after the stop starts a request.    *)
LEMMA PacingInvInit == PacingInit => PacingInv
<1> SUFFICES ASSUME PacingInit PROVE PacingInv OBVIOUS
<1>1. [k \in Classes |-> <<>>] \in [Classes -> Seq(Calls)]
  BY EmptySeq
<1>a. /\ call \in [Calls -> CallState] /\ issued \in 0..MaxCalls
      /\ passed \in [Classes -> Nat]
  BY PacingAssumption DEF PacingInit, CallState
<1>b. running \in BOOLEAN /\ rested \in BOOLEAN /\ stopped \in BOOLEAN
  BY DEF PacingInit
<1>c. queue \in [Classes -> Seq(Calls)]
  BY <1>1 DEF PacingInit
<1>d. worker \in Calls \cup {NoCall} /\ transport \subseteq Calls
      /\ high \in 0..3 /\ ahead \in Nat /\ pending \in Int /\ started \in Nat
  BY DEF PacingInit
<1>2. PacingTypeOK
  BY <1>a, <1>b, <1>c, <1>d DEF PacingInit, PacingTypeOK
<1>3. WorkerOwns /\ OneRequest
  BY DEF PacingInit, WorkerOwns, OneRequest
<1>4. QED BY <1>2, <1>3 DEF PacingInv

StopKept == stopped => stopped' /\ started' = started
                       /\ transport' \subseteq transport

(* Every step keeps the invariant, and the stop.                           *)
LEMMA PacingInvStep ==
  PacingInv /\ [PacingNext]_pacingVars => PacingInv' /\ StopKept
<1> SUFFICES ASSUME PacingInv, [PacingNext]_pacingVars
             PROVE  PacingInv' /\ StopKept
  OBVIOUS
<1> USE CallsAreNumbered DEF PacingInv, CallState
<1>1. ASSUME NEW k \in Classes, Enqueue(k) PROVE PacingInv' /\ StopKept
  <2>1. /\ issued + 1 \in Calls /\ issued' \in 0..MaxCalls
        /\ mode' = mode
    BY <1>1, PacingAssumption DEF Enqueue, PacingTypeOK, Calls
  <2>2. PICK c \in Calls, q \in [Classes -> Seq(Calls)], cs \in [Calls -> CallState] :
          /\ c = issued + 1
          /\ q = [queue EXCEPT ![k] = Append(@, c)]
          /\ cs = [call EXCEPT ![c] = "queued"]
    <3>1. Append(queue[k], issued + 1) \in Seq(Calls)
      BY <2>1, AppendProperties DEF PacingTypeOK
    <3>2. QED BY <2>1, <3>1 DEF PacingTypeOK
  <2>3. CASE running
    <3>1. /\ queue' = q /\ call' = cs /\ pending' = pending + 1
          /\ UNCHANGED <<running, worker, high, ahead, transport, started,
                         rested, stopped, passed>>
      BY <1>1, <2>2, <2>3 DEF Enqueue
    <3>2. PacingTypeOK'
      BY <2>1, <2>2, <3>1 DEF PacingTypeOK
    <3>3. call[c] = "new"
      BY <1>1, <2>2 DEF Enqueue
    <3>4. WorkerOwns'
      <4>1. \A d \in Calls : cs[d] = IF d = c THEN "queued" ELSE call[d]
        BY <2>2 DEF PacingTypeOK
      <4>2. worker # c /\ (c \in transport => stopped)
        BY <3>3 DEF WorkerOwns, PacingTypeOK
      <4>3. worker # NoCall => worker \in Calls
        BY DEF PacingTypeOK
      <4>4. transport \subseteq Calls
        BY DEF PacingTypeOK
      <4>5. QED BY <3>1, <4>1, <4>2, <4>3, <4>4 DEF WorkerOwns
    <3>5. QED BY <3>1, <3>2, <3>4 DEF OneRequest, StopKept
  <2>4. CASE ~running
    <3>1. TakeTurn(q, cs, pending + 1)
      BY <1>1, <2>2, <2>4 DEF Enqueue
    <3>2. worker = NoCall /\ \A d \in Calls : cs[d] # "sent"
      BY <2>2, <2>4 DEF WorkerOwns, PacingTypeOK
    <3>3. \E j \in Classes : q[j] # <<>>
      BY <2>2, AppendProperties DEF PacingTypeOK
    <3>4. PICK n \in Int : n = pending + 1
      BY DEF PacingTypeOK
    <3>4a. TakeTurn(q, cs, n)
      BY <3>1, <3>4
    <3> HIDE DEF PacingInv, CallState
    <3>5. PacingInv OBVIOUS
    <3>6. q \in [Classes -> Seq(Calls)] /\ cs \in [Calls -> CallState]
      OBVIOUS
    <3>7. QED BY ONLY <2>1, <3>2, <3>3, <3>4, <3>4a, <3>5, <3>6, TurnKeeps DEF StopKept
  <2>5. QED BY <2>3, <2>4 DEF PacingTypeOK
<1>2. CASE Turn
  <2>1. CASE \E j \in Classes : queue[j] # <<>>
    <3>1. /\ TakeTurn(queue, call, pending)
          /\ mode' = mode /\ issued' = issued /\ worker = NoCall
      BY <1>2, <2>1 DEF Turn, Waiting
    <3>2. /\ queue \in [Classes -> Seq(Calls)] /\ call \in [Calls -> CallState]
          /\ pending \in Int /\ issued' \in 0..MaxCalls
          /\ \A d \in Calls : call[d] # "sent"
      BY <3>1 DEF WorkerOwns, PacingTypeOK
    <3> HIDE DEF PacingInv, CallState
    <3>3. PacingInv OBVIOUS
    <3>4. QED BY ONLY <2>1, <3>1, <3>2, <3>3, TurnKeeps DEF StopKept
  <2>2. CASE ~\E j \in Classes : queue[j] # <<>>
    <3>1. /\ worker = NoCall /\ running' = FALSE
          /\ UNCHANGED <<mode, issued, call, queue, worker, high, ahead,
                         transport, pending, started, rested, stopped, passed>>
      BY <1>2, <2>2 DEF Turn, Waiting
    <3>2. QED BY <3>1 DEF WorkerOwns, OneRequest, PacingTypeOK, StopKept
  <2>3. QED BY <2>1, <2>2
<1>3. CASE Paced
  <2>1. worker \in Calls /\ call[worker] = "pacing"
    BY <1>3 DEF Paced, PacingTypeOK
  <2>2. CASE Refuse(worker, call, pending)
    <3>1. PacingTypeOK'
      BY <1>3, <2>1, <2>2 DEF Paced, Refuse, turnVars, PacingTypeOK, Blocked, Comparison
    <3>2. QED BY <1>3, <2>1, <2>2, <3>1 DEF Paced, Refuse, turnVars, WorkerOwns, OneRequest, StopKept, PacingTypeOK, Blocked
  <2>3. CASE Send(worker, call, pending)
    <3>1. ~stopped /\ transport = {}
      BY <2>1, <2>3 DEF Send, Blocked, WorkerOwns
    <3>2. rested' \in BOOLEAN /\ stopped' \in BOOLEAN
      BY <2>3 DEF Send, PacingTypeOK, Spaced
    <3>3. PacingTypeOK'
      BY <1>3, <2>1, <2>3, <3>2 DEF Paced, Send, turnVars, PacingTypeOK
    <3>4. QED BY <1>3, <2>1, <2>3, <3>1, <3>3 DEF Paced, Send, turnVars, WorkerOwns, OneRequest, StopKept, PacingTypeOK
  <2>4. QED BY <1>3, <2>2, <2>3 DEF Paced
<1>4. ASSUME NEW k \in Classes, NEW i \in 1..MaxCalls, CancelQueued(k, i)
      PROVE  PacingInv' /\ StopKept
  <2>1. i \in 1..Len(queue[k]) /\ queue[k] \in Seq(Calls)
    BY <1>4, PacingAssumption, LenProperties DEF CancelQueued, PacingTypeOK
  <2>2. queue[k][i] \in Calls /\ RemoveAt(queue[k], i) \in Seq(Calls)
    BY <2>1, ElementOfSeq, RemoveKeepsType
  <2>3. PICK c \in Calls : c = queue[k][i]
    BY <2>2
  <2>4. queue' \in [Classes -> Seq(Calls)]
    BY <1>4, <2>2 DEF CancelQueued, PacingTypeOK
  <2>5. PacingTypeOK'
    BY <1>4, <2>3, <2>4 DEF CancelQueued, Settles, PacingTypeOK
  <2>6. QED BY <1>4, <2>3, <2>5 DEF CancelQueued, Settles, WorkerOwns, OneRequest, StopKept, PacingTypeOK
<1>5. CASE CancelPaced
  BY <1>5 DEF CancelPaced, Settles, turnVars, PacingTypeOK, WorkerOwns, OneRequest, StopKept
<1>6. ASSUME NEW o \in Outcomes, Respond(o) PROVE PacingInv' /\ StopKept
  <2>1. stopped' \in BOOLEAN
    BY <1>6 DEF Respond
  <2>2. PacingTypeOK'
    BY <1>6, <2>1 DEF Respond, Ends, Settles, turnVars, PacingTypeOK
  <2>3. QED BY <1>6, <2>2 DEF Respond, Ends, Settles, turnVars, PacingTypeOK, WorkerOwns, OneRequest, StopKept
<1>7. CASE Deadline
  BY <1>7 DEF Deadline, Ends, Settles, turnVars, PacingTypeOK, WorkerOwns, OneRequest, StopKept
<1>8. ASSUME NEW c \in Calls, LateEnd(c) PROVE PacingInv' /\ StopKept
  BY <1>8 DEF LateEnd, turnVars, PacingTypeOK, WorkerOwns, OneRequest, StopKept
<1>9. CASE Rest
  BY <1>9 DEF Rest, turnVars, PacingTypeOK, WorkerOwns, OneRequest, StopKept
<1>10. CASE StopComparison
  BY <1>10 DEF StopComparison, turnVars, PacingTypeOK, WorkerOwns, OneRequest, StopKept
<1>11. CASE UNCHANGED pacingVars
  BY <1>11 DEF pacingVars, PacingTypeOK, WorkerOwns, OneRequest, StopKept
<1>12. QED
  BY <1>1, <1>2, <1>3, <1>4, <1>5, <1>6, <1>7, <1>8, <1>9, <1>10, <1>11 DEF PacingNext, Drain

(* What is left to the others when background, or foreground, has a turn   *)
(* while essential waits, and when a class has one after it has waited.    *)
LEMMA LeftArithmetic ==
  ASSUME NEW a \in Nat, NEW h \in 0..3
  PROVE  /\ h = 3 => EssentialLeft(a, 0) + 1 <= EssentialLeft(a, h)
         /\ a < 3 /\ h < 3 => EssentialLeft(a + 1, h + 1) + 1 <= EssentialLeft(a, h)
         /\ a < 3 => EssentialLeft(a + 1, 3) + 1 <= EssentialLeft(a, 3)
         /\ EssentialLeft(a, h) \in 0..5
BY DEF EssentialLeft

(* A turn that is given to the class the queues call for leaves the others *)
(* no more than they may still have.                                       *)
LEMMA TurnsCount ==
  ASSUME PacingTypeOK, NEW q \in [Classes -> Seq(Calls)],
         NEW p \in [Classes -> Nat], p = passed,
         \A j \in Classes : q[j] = <<>> => p[j] = 0,
         p["background"] <= high,
         p["essential"] + EssentialLeft(ahead, high) <= 5,
         p["foreground"] <= 2,
         p["foreground"] = 1 => ahead = 0 \/ high = 0,
         p["foreground"] = 2 => ahead = 0 /\ high <= 1,
         \E j \in Classes : q[j] # <<>>,
         NEW r \in [Classes -> Seq(Calls)],
         r = [q EXCEPT ![NextClass(q)] = Tail(@)],
         queue' = r, Turns(r, NextClass(q))
  PROVE  TurnsLeft'
<1> USE DEF Classes
<1>1. PICK k \in Classes : k = NextClass(q)
  BY DEF NextClass
<1>2. /\ k = "background" =>
           q[k] # <<>> /\ (high >= 3 \/ (q["foreground"] = <<>> /\ q["essential"] = <<>>))
      /\ k = "foreground" =>
           /\ q[k] # <<>> /\ (ahead < 3 \/ q["essential"] = <<>>)
           /\ q["background"] = <<>> \/ high < 3
      /\ k = "essential" =>
           /\ q["foreground"] = <<>> \/ (ahead >= 3 /\ q[k] # <<>>)
           /\ q["background"] = <<>> \/ high < 3
  BY <1>1 DEF NextClass, BackfillTurn, ForegroundTurn, PacingTypeOK
<1>3. \A j \in Classes : j # k => r[j] = q[j]
  BY <1>1
<1>4. /\ high' = IF k = "background" THEN 0 ELSE IF high < 3 THEN high + 1 ELSE 3
      /\ ahead' = IF k = "foreground" THEN ahead + 1
                 ELSE IF k = "essential" THEN 0 ELSE ahead
  BY <1>1 DEF Turns
<1>5. \A j \in Classes :
        passed'[j] = IF j = k \/ r[j] = <<>> THEN 0 ELSE p[j] + 1
  BY <1>1 DEF Turns
<1>6. high \in 0..3 /\ ahead \in Nat
  BY DEF PacingTypeOK
<1>0. /\ p["essential"] + EssentialLeft(ahead, high) <= 5
      /\ p["essential"] \in Nat /\ p["foreground"] \in 0..2
      /\ p["foreground"] = 1 => ahead = 0 \/ high = 0
      /\ p["foreground"] = 2 => ahead = 0 /\ high <= 1
  OBVIOUS
<1>7. \A j \in Classes : queue'[j] = <<>> => passed'[j] = 0
  BY <1>5
<1>8. passed'["background"] <= high'
  BY SMTT(40), <1>2, <1>3, <1>4, <1>5, <1>6
<1>9. passed'["essential"] + EssentialLeft(ahead', high') <= 5
  <2>1. /\ ahead' \in Nat /\ high' \in 0..3
        /\ EssentialLeft(ahead', high') \in 0..5
        /\ EssentialLeft(ahead, high) \in 0..5
    <3>1. ahead' \in Nat /\ high' \in 0..3
      BY <1>4, <1>6
    <3>2. QED BY <3>1, <1>6, LeftArithmetic
  <2>2. CASE r["essential"] = <<>> \/ k = "essential"
    <3>1. passed'["essential"] = 0
      BY ONLY <2>2, <1>5 DEF Classes
    <3>2. QED BY ONLY SMTT(40), <2>1, <3>1
  <2>3. CASE r["essential"] # <<>> /\ k # "essential"
    <3>1. /\ q["essential"] # <<>>
          /\ passed'["essential"] = p["essential"] + 1
      BY <2>3, <1>3, <1>5
    <3>2. EssentialLeft(ahead', high') + 1 <= EssentialLeft(ahead, high)
      <4>1. CASE k = "background"
        <5>1. high = 3 /\ high' = 0 /\ ahead' = ahead
          BY <4>1, <3>1, <1>2, <1>4, <1>6
        <5>2. QED BY <5>1, <1>6, LeftArithmetic
      <4>2. CASE k = "foreground"
        <5>1. /\ ahead < 3 /\ ahead' = ahead + 1
              /\ \/ high < 3 /\ high' = high + 1
                 \/ high = 3 /\ high' = 3
          BY <4>2, <3>1, <1>2, <1>4, <1>6
        <5>2. QED BY <5>1, <1>6, LeftArithmetic
      <4>3. QED BY <4>1, <4>2, <2>3
    <3>3. PICK x \in Nat, e \in 0..5, f \in 0..5 :
            /\ x = p["essential"] /\ e = EssentialLeft(ahead, high)
            /\ f = EssentialLeft(ahead', high')
      BY ONLY <2>1, <1>0
    <3>4. x + e <= 5 /\ f + 1 <= e /\ passed'["essential"] = x + 1
      BY ONLY <3>1, <3>2, <3>3, <1>0
    <3>5. QED BY ONLY SMTT(40), <3>3, <3>4
  <2>4. QED BY <2>2, <2>3
<1>10. /\ passed'["foreground"] <= 2
       /\ passed'["foreground"] = 1 => ahead' = 0 \/ high' = 0
       /\ passed'["foreground"] = 2 => ahead' = 0 /\ high' <= 1
  <2>1. CASE k = "background"
    <3>1. /\ passed'["foreground"] = 0 \/ passed'["foreground"] = p["foreground"] + 1
          /\ ahead' = ahead /\ high' = 0
      BY ONLY <2>1, <1>4, <1>5 DEF Classes
    <3>2. q["foreground"] = <<>> \/ high = 3
      BY <2>1, <1>2, <1>6
    <3>3. q["foreground"] = <<>> => passed'["foreground"] = 0
      BY ONLY <2>1, <1>3, <1>5 DEF Classes
    <3>4. PICK x \in 0..2 : x = p["foreground"]
      BY ONLY <1>0
    <3>5. CASE q["foreground"] = <<>>
      BY ONLY <3>1, <3>3, <3>5
    <3>6. CASE q["foreground"] # <<>>
      BY ONLY SMTT(40), <3>1, <3>2, <3>4, <3>6, <1>0, <1>6
    <3>7. QED BY <3>5, <3>6
  <2>2. CASE k = "foreground"
    BY SMTT(40), <2>2, <1>5
  <2>3. CASE k = "essential"
    <3>1. CASE r["foreground"] = <<>>
      <4>1. passed'["foreground"] = 0
        BY ONLY <3>1, <1>5 DEF Classes
      <4>2. QED BY ONLY <4>1
    <3>2. CASE r["foreground"] # <<>>
      <4>1. /\ q["foreground"] # <<>> /\ ahead >= 3 /\ ahead' = 0
            /\ passed'["foreground"] = p["foreground"] + 1
        BY <2>3, <3>2, <1>2, <1>3, <1>4, <1>5
      <4>2. p["foreground"] \in 0..2
        OBVIOUS
      <4>3. p["foreground"] = 0 \/ (p["foreground"] = 1 /\ high = 0)
        BY <4>1, <4>2, <1>6
      <4>4. QED BY <2>3, <4>1, <4>3, <1>4
    <3>3. QED BY <3>1, <3>2
  <2>4. QED BY <2>1, <2>2, <2>3
<1>11. QED BY <1>7, <1>8, <1>9, <1>10 DEF TurnsLeft, EssentialLeft

(* The bound on turns is kept by every step. *)
LEMMA TurnsStep ==
  PacingInv /\ TurnsLeft /\ [PacingNext]_pacingVars => TurnsLeft'
<1> SUFFICES ASSUME PacingInv, TurnsLeft, [PacingNext]_pacingVars
             PROVE  TurnsLeft'
  OBVIOUS
<1>0. PacingTypeOK
  BY DEF PacingInv
<1>1. ASSUME UNCHANGED turnVars PROVE TurnsLeft'
  BY <1>1 DEF turnVars, TurnsLeft, EssentialLeft
<1>2. ASSUME NEW q \in [Classes -> Seq(Calls)],
             \A j \in Classes : q[j] = <<>> => queue[j] = <<>>,
             \E j \in Classes : q[j] # <<>>,
             NEW cs, NEW n, TakeTurn(q, cs, n)
      PROVE  TurnsLeft'
  <2>1. PICK r \in [Classes -> Seq(Calls)] :
          /\ r = [q EXCEPT ![NextClass(q)] = Tail(@)]
          /\ queue' = r /\ Turns(r, NextClass(q))
    BY <1>0, <1>2, NextWaits DEF PacingTypeOK, TakeTurn
  <2>2. PICK p \in [Classes -> Nat] : p = passed
    BY <1>0 DEF PacingTypeOK
  <2>3. /\ \A j \in Classes : q[j] = <<>> => p[j] = 0
        /\ p["background"] <= high
        /\ p["essential"] + EssentialLeft(ahead, high) <= 5
        /\ p["foreground"] <= 2
        /\ p["foreground"] = 1 => ahead = 0 \/ high = 0
        /\ p["foreground"] = 2 => ahead = 0 /\ high <= 1
    BY <1>2, <2>2 DEF TurnsLeft
  <2>4. \E j \in Classes : q[j] # <<>>
    BY <1>2
  <2>5. QED BY ONLY <1>0, <2>1, <2>2, <2>3, <2>4, TurnsCount
<1>3. ASSUME NEW k \in Classes, Enqueue(k) PROVE TurnsLeft'
  <2>1. PICK q \in [Classes -> Seq(Calls)] :
          q = [queue EXCEPT ![k] = Append(@, issued + 1)]
    <3>1. issued + 1 \in Calls
      BY <1>0, <1>3, PacingAssumption DEF Enqueue, PacingTypeOK, Calls
    <3>2. Append(queue[k], issued + 1) \in Seq(Calls)
      BY <1>0, <3>1, AppendProperties DEF PacingTypeOK
    <3>3. QED BY <1>0, <3>2 DEF PacingTypeOK
  <2>2. q[k] # <<>> /\ \A j \in Classes : q[j] = <<>> => queue[j] = <<>>
    BY <1>0, <2>1, AppendProperties DEF PacingTypeOK
  <2>3. CASE running
    <3>1. queue' = q /\ UNCHANGED <<high, ahead, passed>>
      BY <1>3, <2>1, <2>3 DEF Enqueue
    <3>2. QED BY <2>2, <3>1 DEF TurnsLeft, EssentialLeft
  <2>4. CASE ~running
    <3>1. PICK cs, n : TakeTurn(q, cs, n)
      BY <1>3, <2>1, <2>4 DEF Enqueue
    <3>2. QED BY <1>2, <2>2, <3>1
  <2>5. QED BY <1>0, <2>3, <2>4 DEF PacingTypeOK
<1>4. CASE Turn
  <2>1. CASE \E j \in Classes : queue[j] # <<>>
    <3>1. TakeTurn(queue, call, pending) /\ queue \in [Classes -> Seq(Calls)]
      BY <1>0, <1>4, <2>1 DEF Turn, Waiting, PacingTypeOK
    <3>2. QED BY <1>2, <2>1, <3>1
  <2>2. CASE ~\E j \in Classes : queue[j] # <<>>
    <3>1. UNCHANGED <<queue, high, ahead, passed>>
      BY <1>4, <2>2 DEF Turn, Waiting
    <3>2. QED BY <3>1 DEF TurnsLeft, EssentialLeft
  <2>3. QED BY <2>1, <2>2
<1>5. ASSUME NEW k \in Classes, NEW i \in 1..MaxCalls, CancelQueued(k, i)
      PROVE  TurnsLeft'
  <2>1. i \in 1..Len(queue[k]) /\ queue[k] \in Seq(Calls)
    BY <1>0, <1>5, PacingAssumption, LenProperties DEF CancelQueued, PacingTypeOK
  <2>2. RemoveAt(queue[k], i) = <<>> <=> Len(queue[k]) = 1
    BY <2>1, RemoveKeepsType
  <2>3. PICK r : r = RemoveAt(queue[k], i)
    OBVIOUS
  <2>4. /\ queue' = [queue EXCEPT ![k] = r]
        /\ passed' = [passed EXCEPT ![k] = IF r = <<>> THEN 0 ELSE @]
        /\ UNCHANGED <<high, ahead>>
    BY <1>5, <2>2, <2>3 DEF CancelQueued
  <2>5. \A j \in Classes : /\ queue'[j] = <<>> => passed'[j] = 0
                           /\ passed'[j] \in {0, passed[j]}
    BY <1>0, <2>4 DEF TurnsLeft, PacingTypeOK
  <2>6. passed' \in [Classes -> Nat]
    BY <1>0, <2>4 DEF PacingTypeOK
  <2>7. EssentialLeft(ahead', high') = EssentialLeft(ahead, high)
        /\ EssentialLeft(ahead, high) \in 0..5
    BY <1>0, <2>4, LeftArithmetic DEF PacingTypeOK
  <2>8. QED BY SMTT(40), <2>4, <2>5, <2>6, <2>7, <1>0 DEF TurnsLeft, PacingTypeOK, Classes
<1>6. ASSUME Paced \/ CancelPaced \/ Deadline \/ Rest \/ StopComparison
             \/ (\E o \in Outcomes : Respond(o)) \/ (\E c \in Calls : LateEnd(c))
      PROVE  UNCHANGED turnVars
  BY <1>6 DEF Paced, CancelPaced, Deadline, Rest, StopComparison, Respond, LateEnd
<1>7. CASE UNCHANGED pacingVars
  BY <1>7, <1>1 DEF pacingVars, turnVars
<1>8. QED
  BY <1>1, <1>3, <1>4, <1>5, <1>6, <1>7 DEF PacingNext, Drain

(* Every variable of the queue keeps its type. *)
THEOREM PacingTypeCorrect == PacingSpec => []PacingTypeOK
<1>1. PacingInv => PacingTypeOK BY DEF PacingInv
<1>2. QED BY <1>1, PacingInvInit, PacingInvStep, PTL DEF PacingSpec

(* Never are two requests on their way, whatever deadlines pass and        *)
(* whatever is cancelled.                                                  *)
THEOREM OneRequestAtATime == PacingSpec => []OneRequest
<1>1. PacingInv => OneRequest BY DEF PacingInv
<1>2. QED BY <1>1, PacingInvInit, PacingInvStep, PTL DEF PacingSpec

(* A queue that has stopped stays stopped and starts nothing.              *)
THEOREM StopIsKept == PacingSpec => StopIsFinal
<1>1. PacingInv /\ [PacingNext]_pacingVars =>
        [stopped => stopped' /\ started' = started
                    /\ transport' \subseteq transport]_pacingVars
  BY PacingInvStep DEF StopKept
<1>2. QED BY <1>1, PacingInvInit, PacingInvStep, PTL DEF PacingSpec, StopIsFinal

(* No class is passed over more often than the code says, however many     *)
(* calls there are and in whatever order they come.                        *)
THEOREM BypassIsBounded == PacingSpec => []BypassBounded
<1>1. PacingInit => TurnsLeft
  BY DEF PacingInit, TurnsLeft, EssentialLeft, Classes
<1>2. PacingInv /\ TurnsLeft => BypassBounded
  <2>1. ASSUME PacingInv, TurnsLeft PROVE BypassBounded
    <3>1. high \in 0..3 /\ ahead \in Nat /\ passed["essential"] \in Nat
          /\ passed["background"] \in Nat
      BY <2>1 DEF PacingInv, PacingTypeOK, Classes
    <3>2. EssentialLeft(ahead, high) \in 0..5
      BY <3>1, LeftArithmetic
    <3>3. /\ passed["background"] <= high /\ passed["foreground"] <= 2
          /\ passed["essential"] + EssentialLeft(ahead, high) <= 5
      BY <2>1 DEF TurnsLeft
    <3>4. QED BY ONLY <3>1, <3>2, <3>3 DEF BypassBounded
  <2>2. QED BY <2>1
<1>3. QED BY <1>1, <1>2, PacingInvInit, PacingInvStep, TurnsStep, PTL DEF PacingSpec

-----------------------------------------------------------------------------
(* The counts: what waits is at one place, and the unanswered calls are as *)
(* many as the count says.                                                 *)

Open(cs) == {c \in Calls : cs[c] \in {"queued", "pacing", "sent"}}

Apart(q) ==
  \A k, l \in Classes : \A i \in 1..Len(q[k]), j \in 1..Len(q[l]) :
    q[k][i] = q[l][j] => k = l /\ i = j

(* What is in a queue waits, what waits is in a queue, at one place only.  *)
Placed(q, cs) ==
  /\ \A k \in Classes : \A i \in 1..Len(q[k]) : cs[q[k][i]] = "queued"
  /\ \A c \in Calls : cs[c] = "queued" => \E k \in Classes : \E i \in 1..Len(q[k]) : q[k][i] = c
  /\ Apart(q)

Counted(q, cs, n) == Placed(q, cs) /\ n = Cardinality(Open(cs))

Limited == Comparison => started <= RequestLimit

CountsInv == Counted(queue, call, pending) /\ Limited

(* A call that changes its state changes the count by one at most.         *)
LEMMA OpenChanges ==
  ASSUME NEW cs \in [Calls -> CallState], NEW c \in Calls, NEW s \in CallState,
         NEW ds, ds = [cs EXCEPT ![c] = s]
  PROVE  /\ Cardinality(Open(cs)) \in Nat
         /\ c \in Open(cs) /\ s \notin {"queued", "pacing", "sent"} =>
              Cardinality(Open(ds)) = Cardinality(Open(cs)) - 1
         /\ c \notin Open(cs) /\ s \in {"queued", "pacing", "sent"} =>
              Cardinality(Open(ds)) = Cardinality(Open(cs)) + 1
         /\ c \in Open(cs) /\ s \in {"queued", "pacing", "sent"} => Open(ds) = Open(cs)
<1>1. IsFiniteSet(Calls)
  BY PacingAssumption, FS_Interval DEF Calls
<1>2. Open(cs) \subseteq Calls
  BY DEF Open
<1>3. IsFiniteSet(Open(cs))
  BY <1>1, <1>2, FS_Subset
<1>4. Cardinality(Open(cs)) \in Nat
  BY <1>3, FS_CardinalityType
<1>5. c \in Open(cs) /\ s \notin {"queued", "pacing", "sent"} => Open(ds) = Open(cs) \ {c}
  BY DEF Open
<1>6. s \in {"queued", "pacing", "sent"} => Open(ds) = Open(cs) \cup {c}
  BY DEF Open
<1>7. Cardinality(Open(cs) \ {c}) = IF c \in Open(cs) THEN Cardinality(Open(cs)) - 1
                                   ELSE Cardinality(Open(cs))
  BY <1>3, FS_RemoveElement
<1>8. Cardinality(Open(cs) \cup {c}) = IF c \in Open(cs) THEN Cardinality(Open(cs))
                                      ELSE Cardinality(Open(cs)) + 1
  BY <1>3, FS_AddElement
<1>9. c \in Open(cs) => Open(cs) \cup {c} = Open(cs)
  OBVIOUS
<1> QED  BY <1>4, <1>5, <1>6, <1>7, <1>8, <1>9

(* The first call of a queue leaves it.                                    *)
LEMMA HeadLeaves ==
  ASSUME NEW q \in [Classes -> Seq(Calls)], NEW cs \in [Calls -> CallState],
         Placed(q, cs), NEW k \in Classes, q[k] # <<>>, NEW s \in CallState, s # "queued"
  PROVE  Placed([q EXCEPT ![k] = Tail(@)], [cs EXCEPT ![Head(q[k])] = s])
<1> DEFINE h == Head(q[k])
           r == [q EXCEPT ![k] = Tail(@)]
           ds == [cs EXCEPT ![h] = s]
<1>0. Apart(q)
  BY DEF Placed
<1>1. /\ q[k] \in Seq(Calls) /\ Len(q[k]) \in Nat \ {0} /\ h = q[k][1] /\ h \in Calls
      /\ Len(Tail(q[k])) = Len(q[k]) - 1
      /\ \A i \in 1..Len(Tail(q[k])) : Tail(q[k])[i] = q[k][i + 1]
  BY HeadTailProperties, EmptySeq, LenProperties
<1>2. \A j \in Classes : Len(q[j]) \in Nat /\ \A i \in 1..Len(q[j]) : q[j][i] \in Calls
  BY LenProperties, ElementOfSeq
<1>3. r[k] = Tail(q[k]) /\ \A j \in Classes : j # k => r[j] = q[j]
  OBVIOUS
<1>4. \A c \in Calls : ds[c] = IF c = h THEN s ELSE cs[c]
  BY <1>1
<1> HIDE DEF h, r, ds
<1>5. \A j \in Classes : \A i \in 1..Len(r[j]) : r[j][i] \in Calls /\ r[j][i] # h /\ cs[r[j][i]] = "queued"
  <2> SUFFICES ASSUME NEW j \in Classes, NEW i \in 1..Len(r[j])
               PROVE  r[j][i] \in Calls /\ r[j][i] # h /\ cs[r[j][i]] = "queued"
    OBVIOUS
  <2>1. CASE j = k
    <3>1. i \in 1..(Len(q[k]) - 1) /\ r[j][i] = q[k][i + 1]
      BY <1>1, <1>3, <2>1
    <3>2. i + 1 \in 1..Len(q[k]) /\ i + 1 # 1 /\ 1 \in 1..Len(q[k])
      BY <1>1, <3>1
    <3>3. q[k][i + 1] # q[k][1]
      BY <3>2, <1>0 DEF Apart
    <3>4. q[k][i + 1] \in Calls /\ cs[q[k][i + 1]] = "queued"
      BY <1>2, <3>2 DEF Placed
    <3>5. h = q[k][1]
      BY <1>1
    <3>6. r[j][i] # h
      BY <3>1, <3>3, <3>5
    <3>7. r[j][i] \in Calls /\ cs[r[j][i]] = "queued"
      BY <3>1, <3>4
    <3> QED  BY <3>6, <3>7
  <2>2. CASE j # k
    <3>1. i \in 1..Len(q[j]) /\ r[j][i] = q[j][i]
      BY <1>3, <2>2
    <3>2. q[j][i] # q[k][1] /\ h = q[k][1]
      BY <1>0, <1>1, <2>2, <3>1 DEF Apart
    <3> QED  BY <1>2, <3>1, <3>2 DEF Placed
  <2> QED  BY <2>1, <2>2
<1>6. \A j \in Classes : \A i \in 1..Len(r[j]) : ds[r[j][i]] = "queued"
  BY <1>4, <1>5
<1>7. \A c \in Calls : ds[c] = "queued" => \E j \in Classes : \E i \in 1..Len(r[j]) : r[j][i] = c
  <2> SUFFICES ASSUME NEW c \in Calls, ds[c] = "queued"
               PROVE  \E j \in Classes : \E i \in 1..Len(r[j]) : r[j][i] = c
    OBVIOUS
  <2>1. c # h /\ cs[c] = "queued"
    BY <1>4
  <2>2. PICK j \in Classes : \E i \in 1..Len(q[j]) : q[j][i] = c
    BY <2>1 DEF Placed
  <2>3. PICK i \in 1..Len(q[j]) : q[j][i] = c
    BY <2>2
  <2>4. CASE j = k
    <3>1. i # 1 /\ i - 1 \in 1..Len(r[k])
      BY <1>1, <1>3, <2>1, <2>3, <2>4
    <3>2. r[k][i - 1] = c
      BY <1>1, <1>3, <2>3, <2>4, <3>1
    <3> QED  BY <3>1, <3>2, <2>4
  <2>5. CASE j # k
    BY <1>3, <2>3, <2>5
  <2> QED  BY <2>4, <2>5
<1>8. ASSUME NEW j \in Classes, NEW l \in Classes, NEW i \in 1..Len(r[j]), NEW m \in 1..Len(r[l]),
             r[j][i] = r[l][m]
      PROVE  j = l /\ i = m
  <2>0. \A x \in Classes : \A y \in 1..Len(r[x]) :
          \E z \in 1..Len(q[x]) : r[x][y] = q[x][z] /\ z = IF x = k THEN y + 1 ELSE y
    <3> SUFFICES ASSUME NEW x \in Classes, NEW y \in 1..Len(r[x])
                 PROVE  \E z \in 1..Len(q[x]) : r[x][y] = q[x][z] /\ z = IF x = k THEN y + 1 ELSE y
      OBVIOUS
    <3>1. CASE x = k
      <4>1. y \in 1..(Len(q[k]) - 1) /\ r[x][y] = q[k][y + 1]
        BY <1>1, <1>3, <3>1
      <4>2. y + 1 \in 1..Len(q[k])
        BY <1>1, <4>1
      <4> QED  BY <3>1, <4>1, <4>2
    <3>2. CASE x # k
      BY <1>3, <3>2
    <3> QED  BY <3>1, <3>2
  <2>1. PICK a \in 1..Len(q[j]) : r[j][i] = q[j][a] /\ a = IF j = k THEN i + 1 ELSE i
    BY <2>0
  <2>2. PICK b \in 1..Len(q[l]) : r[l][m] = q[l][b] /\ b = IF l = k THEN m + 1 ELSE m
    BY <2>0
  <2>3. q[j][a] = q[l][b]
    BY <1>8, <2>1, <2>2
  <2>4. j = l /\ a = b
    BY <1>0, <2>3 DEF Apart
  <2>5. Len(r[j]) \in Nat
    BY <1>1, <1>2, <1>3
  <2> QED  BY <2>1, <2>2, <2>4, <2>5
<1> QED  BY <1>6, <1>7, <1>8 DEF Placed, Apart, h, r, ds

(* A new call joins at the end.                                            *)
LEMMA CallJoins ==
  ASSUME NEW q \in [Classes -> Seq(Calls)], NEW cs \in [Calls -> CallState],
         Placed(q, cs), NEW k \in Classes, NEW c \in Calls, cs[c] = "new"
  PROVE  Placed([q EXCEPT ![k] = Append(@, c)], [cs EXCEPT ![c] = "queued"])
<1> DEFINE r == [q EXCEPT ![k] = Append(@, c)]
           ds == [cs EXCEPT ![c] = "queued"]
<1>1. \A j \in Classes : Len(q[j]) \in Nat /\ \A i \in 1..Len(q[j]) : q[j][i] \in Calls
  BY LenProperties, ElementOfSeq
<1>2. /\ r[k] = Append(q[k], c) /\ \A j \in Classes : j # k => r[j] = q[j]
      /\ Len(r[k]) = Len(q[k]) + 1 /\ r[k][Len(q[k]) + 1] = c
      /\ \A i \in 1..Len(q[k]) : r[k][i] = q[k][i]
  BY AppendProperties
<1>0. Apart(q)
  BY DEF Placed
<1>3. \A d \in Calls : ds[d] = IF d = c THEN "queued" ELSE cs[d]
  OBVIOUS
<1> HIDE DEF r, ds
<1>4. \A j \in Classes : \A i \in 1..Len(r[j]) :
        \/ i \in 1..Len(q[j]) /\ r[j][i] = q[j][i] /\ r[j][i] # c
        \/ j = k /\ i = Len(q[k]) + 1 /\ r[j][i] = c
  <2> SUFFICES ASSUME NEW j \in Classes, NEW i \in 1..Len(r[j])
               PROVE  \/ i \in 1..Len(q[j]) /\ r[j][i] = q[j][i] /\ r[j][i] # c
                      \/ j = k /\ i = Len(q[k]) + 1 /\ r[j][i] = c
    OBVIOUS
  <2>1. CASE i \in 1..Len(q[j])
    <3>1. r[j][i] = q[j][i] /\ cs[q[j][i]] = "queued"
      BY <1>2, <2>1 DEF Placed
    <3> QED  BY <2>1, <3>1
  <2>2. CASE i \notin 1..Len(q[j])
    <3>1. j = k
      BY <1>2, <2>2
    <3>2. i = Len(q[k]) + 1
      BY <1>1, <1>2, <2>2, <3>1
    <3> QED  BY <1>2, <3>1, <3>2
  <2> QED  BY <2>1, <2>2
<1>5. \A j \in Classes : \A i \in 1..Len(r[j]) : ds[r[j][i]] = "queued"
  <2> SUFFICES ASSUME NEW j \in Classes, NEW i \in 1..Len(r[j]) PROVE ds[r[j][i]] = "queued"
    OBVIOUS
  <2>1. r[j][i] = c \/ (\E a \in 1..Len(q[j]) : r[j][i] = q[j][a])
    BY <1>4
  <2>2. \A a \in 1..Len(q[j]) : q[j][a] \in Calls /\ cs[q[j][a]] = "queued"
    BY <1>1 DEF Placed
  <2> QED  BY <1>3, <2>1, <2>2
<1>6. \A d \in Calls : ds[d] = "queued" => \E j \in Classes : \E i \in 1..Len(r[j]) : r[j][i] = d
  <2> SUFFICES ASSUME NEW d \in Calls, ds[d] = "queued"
               PROVE  \E j \in Classes : \E i \in 1..Len(r[j]) : r[j][i] = d
    OBVIOUS
  <2>1. CASE d = c
    <3>1. Len(q[k]) + 1 \in 1..Len(r[k])
      BY <1>1, <1>2
    <3> QED  BY <1>2, <2>1, <3>1
  <2>2. CASE d # c
    <3>1. PICK j \in Classes : \E i \in 1..Len(q[j]) : q[j][i] = d
      BY <1>3, <2>2 DEF Placed
    <3>2. PICK i \in 1..Len(q[j]) : q[j][i] = d
      BY <3>1
    <3>3. i \in 1..Len(r[j]) /\ r[j][i] = d
      BY SMTT(40), <1>1, <1>2, <3>2
    <3> QED  BY <3>3
  <2> QED  BY <2>1, <2>2
<1>7. ASSUME NEW j \in Classes, NEW l \in Classes, NEW i \in 1..Len(r[j]), NEW m \in 1..Len(r[l]),
             r[j][i] = r[l][m]
      PROVE  j = l /\ i = m
  <2>1. CASE r[j][i] = c
    <3>1. j = k /\ i = Len(q[k]) + 1 /\ l = k /\ m = Len(q[k]) + 1
      BY <1>4, <1>7, <2>1
    <3> QED  BY <3>1
  <2>2. CASE r[j][i] # c
    <3>1. /\ i \in 1..Len(q[j]) /\ r[j][i] = q[j][i]
          /\ m \in 1..Len(q[l]) /\ r[l][m] = q[l][m]
      BY <1>4, <1>7, <2>2
    <3>2. q[j][i] = q[l][m]
      BY <1>7, <3>1
    <3> QED  BY <1>0, <3>1, <3>2 DEF Apart
  <2> QED  BY <2>1, <2>2
<1> QED  BY <1>5, <1>6, <1>7 DEF Placed, Apart, r, ds

(* What RemoveAt leaves, place by place.                                   *)
LEMMA RemoveAtElements ==
  ASSUME NEW s \in Seq(Calls), NEW i \in 1..Len(s)
  PROVE  /\ Len(RemoveAt(s, i)) = Len(s) - 1
         /\ \A j \in 1..(Len(s) - 1) : RemoveAt(s, i)[j] = s[IF j < i THEN j ELSE j + 1]
<1>0. Len(s) \in Nat
  BY LenProperties
<1> DEFINE a == SubSeq(s, 1, i - 1)
           b == SubSeq(s, i + 1, Len(s))
<1>1. a \in Seq(Calls) /\ Len(a) = i - 1 /\ \A j \in 1..(i - 1) : a[j] = s[j]
  BY <1>0, SubSeqProperties
<1>2. b \in Seq(Calls) /\ Len(b) = Len(s) - i /\ \A j \in 1..(Len(s) - i) : b[j] = s[i + j]
  <2>1. i + 1 \in 1..(Len(s) + 1) /\ Len(s) \in i..Len(s)
    BY <1>0
  <2>2. b \in Seq(Calls) /\ Len(b) = IF i + 1 <= Len(s) THEN Len(s) - (i + 1) + 1 ELSE 0
    BY <2>1, <1>0, SubSeqProperties
  <2>3. \A j \in 1..(Len(s) - (i + 1) + 1) : b[j] = s[(i + 1) + j - 1]
    BY <2>1, <1>0, SubSeqProperties
  <2>4. Len(b) = Len(s) - i
    BY <2>2, <1>0
  <2>5. \A j \in 1..(Len(s) - i) : j \in 1..(Len(s) - (i + 1) + 1) /\ (i + 1) + j - 1 = i + j
    BY <1>0
  <2> QED  BY <2>2, <2>3, <2>4, <2>5
<1>3. RemoveAt(s, i) = a \o b
  BY DEF RemoveAt
<1> HIDE DEF a, b
<1>4. /\ Len(a \o b) = Len(a) + Len(b)
      /\ \A j \in 1..(Len(a) + Len(b)) : (a \o b)[j] = IF j <= Len(a) THEN a[j] ELSE b[j - Len(a)]
  BY <1>1, <1>2, ConcatProperties
<1>5. ASSUME NEW j \in 1..(Len(s) - 1)
      PROVE  RemoveAt(s, i)[j] = s[IF j < i THEN j ELSE j + 1]
  <2>0. (a \o b)[j] = IF j <= i - 1 THEN a[j] ELSE b[j - (i - 1)]
    BY <1>0, <1>1, <1>2, <1>4
  <2>1. CASE j < i
    <3>1. j \in 1..(i - 1)
      BY <1>0, <2>1
    <3> QED  BY <1>1, <1>3, <2>0, <2>1, <3>1
  <2>2. CASE ~(j < i)
    <3>1. j - (i - 1) \in 1..(Len(s) - i) /\ i + (j - (i - 1)) = j + 1 /\ ~(j <= i - 1)
      BY <1>0, <2>2
    <3> QED  BY <1>2, <1>3, <2>0, <2>2, <3>1
  <2> QED  BY <2>1, <2>2
<1>6. Len(RemoveAt(s, i)) = Len(s) - 1
  BY <1>0, <1>1, <1>2, <1>3, <1>4
<1> QED  BY <1>5, <1>6

(* A call leaves its queue from wherever it waits.                         *)
LEMMA MiddleLeaves ==
  ASSUME NEW q \in [Classes -> Seq(Calls)], NEW cs \in [Calls -> CallState],
         Placed(q, cs), NEW k \in Classes, NEW p \in 1..Len(q[k])
  PROVE  Placed([q EXCEPT ![k] = RemoveAt(@, p)], [cs EXCEPT ![q[k][p]] = "settled"])
<1> DEFINE h == q[k][p]
           r == [q EXCEPT ![k] = RemoveAt(@, p)]
           ds == [cs EXCEPT ![h] = "settled"]
<1>1. \A j \in Classes : Len(q[j]) \in Nat /\ \A i \in 1..Len(q[j]) : q[j][i] \in Calls
  BY LenProperties, ElementOfSeq
<1>2. /\ r[k] = RemoveAt(q[k], p) /\ \A j \in Classes : j # k => r[j] = q[j]
      /\ Len(r[k]) = Len(q[k]) - 1 /\ h \in Calls /\ h = q[k][p]
      /\ \A j \in 1..(Len(q[k]) - 1) : r[k][j] = q[k][IF j < p THEN j ELSE j + 1]
  BY <1>1, RemoveAtElements
<1>0. Apart(q)
  BY DEF Placed
<1>3. \A d \in Calls : ds[d] = IF d = h THEN "settled" ELSE cs[d]
  BY <1>2
<1> HIDE DEF h, r, ds
<1>4. \A j \in Classes : \A i \in 1..Len(r[j]) : \E a \in 1..Len(q[j]) :
        /\ r[j][i] = q[j][a] /\ r[j][i] # h
        /\ j # k => a = i
        /\ j = k => a # p /\ i = IF a < p THEN a ELSE a - 1
  <2> SUFFICES ASSUME NEW j \in Classes, NEW i \in 1..Len(r[j])
               PROVE  \E a \in 1..Len(q[j]) :
                        /\ r[j][i] = q[j][a] /\ r[j][i] # h
                        /\ j # k => a = i
                        /\ j = k => a # p /\ i = IF a < p THEN a ELSE a - 1
    OBVIOUS
  <2>1. CASE j = k
    <3>0. i \in 1..(Len(q[k]) - 1) /\ Len(q[k]) \in Nat /\ r[k][i] = q[k][IF i < p THEN i ELSE i + 1]
      BY <1>1, <1>2, <2>1
    <3>1. PICK a \in 1..Len(q[j]) : /\ a = IF i < p THEN i ELSE i + 1
                                    /\ r[j][i] = q[j][a] /\ a # p
      BY <2>1, <3>0
    <3>2. q[k][a] # q[k][p]
      BY <1>0, <2>1, <3>1 DEF Apart
    <3>3. i = IF a < p THEN a ELSE a - 1
      BY <1>1, <3>1
    <3>4. r[j][i] # h
      BY <1>2, <2>1, <3>1, <3>2
    <3> QED  BY <2>1, <3>1, <3>3, <3>4
  <2>2. CASE j # k
    <3>1. i \in 1..Len(q[j]) /\ r[j][i] = q[j][i]
      BY <1>2, <2>2
    <3>2. q[j][i] # q[k][p]
      BY <1>0, <2>2, <3>1 DEF Apart
    <3> QED  BY <1>2, <2>2, <3>1, <3>2
  <2> QED  BY <2>1, <2>2
<1>5. \A j \in Classes : \A i \in 1..Len(r[j]) : ds[r[j][i]] = "queued"
  <2> SUFFICES ASSUME NEW j \in Classes, NEW i \in 1..Len(r[j]) PROVE ds[r[j][i]] = "queued"
    OBVIOUS
  <2>1. \E a \in 1..Len(q[j]) : r[j][i] = q[j][a] /\ r[j][i] # h
    BY <1>4
  <2>2. \A a \in 1..Len(q[j]) : q[j][a] \in Calls /\ cs[q[j][a]] = "queued"
    BY <1>1 DEF Placed
  <2> QED  BY <1>3, <2>1, <2>2
<1>6. \A d \in Calls : ds[d] = "queued" => \E j \in Classes : \E i \in 1..Len(r[j]) : r[j][i] = d
  <2> SUFFICES ASSUME NEW d \in Calls, ds[d] = "queued"
               PROVE  \E j \in Classes : \E i \in 1..Len(r[j]) : r[j][i] = d
    OBVIOUS
  <2>1. d # h /\ cs[d] = "queued"
    BY <1>3
  <2>2. PICK j \in Classes : \E i \in 1..Len(q[j]) : q[j][i] = d
    BY <2>1 DEF Placed
  <2>3. PICK i \in 1..Len(q[j]) : q[j][i] = d
    BY <2>2
  <2>4. CASE j = k /\ i < p
    <3>1. i \in 1..(Len(q[k]) - 1)
      BY <1>1, <2>3, <2>4
    <3> QED  BY <1>2, <2>3, <2>4, <3>1
  <2>5. CASE j = k /\ ~(i < p)
    <3>1. i # p /\ i - 1 \in 1..(Len(q[k]) - 1) /\ ~(i - 1 < p) /\ (i - 1) + 1 = i
      BY <1>1, <1>2, <2>1, <2>3, <2>5
    <3>2. r[k][i - 1] = d
      BY <1>2, <2>3, <2>5, <3>1
    <3> QED  BY <1>2, <2>5, <3>1, <3>2
  <2>6. CASE j # k
    BY <1>2, <2>3, <2>6
  <2> QED  BY <2>4, <2>5, <2>6
<1>7. ASSUME NEW j \in Classes, NEW l \in Classes, NEW i \in 1..Len(r[j]), NEW m \in 1..Len(r[l]),
             r[j][i] = r[l][m]
      PROVE  j = l /\ i = m
  <2>1. PICK a \in 1..Len(q[j]) : /\ r[j][i] = q[j][a]
                                  /\ j # k => a = i
                                  /\ j = k => i = IF a < p THEN a ELSE a - 1
    BY <1>4
  <2>2. PICK b \in 1..Len(q[l]) : /\ r[l][m] = q[l][b]
                                  /\ l # k => b = m
                                  /\ l = k => m = IF b < p THEN b ELSE b - 1
    BY <1>4
  <2>3. q[j][a] = q[l][b]
    BY <1>7, <2>1, <2>2
  <2>4. j = l /\ a = b
    BY <1>0, <2>3 DEF Apart
  <2> QED  BY <2>1, <2>2, <2>4
<1> QED  BY <1>5, <1>6, <1>7 DEF Placed, Apart, h, r, ds

(* A call that does not wait changes nothing of the queues.                *)
LEMMA OtherCallsPlaced ==
  ASSUME NEW q \in [Classes -> Seq(Calls)], NEW cs \in [Calls -> CallState],
         Placed(q, cs), NEW c \in Calls, cs[c] # "queued", NEW s \in CallState, s # "queued"
  PROVE  Placed(q, [cs EXCEPT ![c] = s])
<1>1. \A j \in Classes : \A i \in 1..Len(q[j]) : q[j][i] \in Calls
  BY ElementOfSeq
<1> QED  BY <1>1 DEF Placed

(* A turn takes the first call of a queue and answers it, or does not yet. *)
LEMMA TurnCounts ==
  ASSUME PacingTypeOK, NEW q \in [Classes -> Seq(Calls)], \E j \in Classes : q[j] # <<>>,
         NEW cs \in [Calls -> CallState], NEW n, Counted(q, cs, n), Limited,
         mode' = mode, TakeTurn(q, cs, n)
  PROVE  CountsInv'
<1>1. PICK k \in Classes, c \in Calls :
        /\ k = NextClass(q) /\ q[k] # <<>> /\ c = Head(q[k])
        /\ queue' = [q EXCEPT ![k] = Tail(@)] /\ Work(c, cs, n)
  BY NextWaits DEF TakeTurn, PacingTypeOK
<1>2. Placed(q, cs) /\ n = Cardinality(Open(cs))
  BY DEF Counted
<1>3. cs[c] = "queued"
  <2>1. Len(q[k]) \in Nat \ {0} /\ c = q[k][1]
    BY <1>1, EmptySeq, LenProperties
  <2> QED  BY <1>2, <2>1 DEF Placed
<1>4. c \in Open(cs)
  BY <1>3 DEF Open
<1>5. CASE Refuse(c, cs, n)
  <2>1. call' = [cs EXCEPT ![c] = "settled"] /\ pending' = n - 1 /\ started' = started
    BY <1>5 DEF Refuse
  <2>2. Placed(queue', call')
    BY <1>1, <1>2, <2>1, HeadLeaves DEF CallState
  <2>3. Cardinality(Open(call')) = Cardinality(Open(cs)) - 1
    BY ZenonT(60), <1>4, <2>1, OpenChanges DEF CallState
  <2> QED  BY <1>2, <2>1, <2>2, <2>3 DEF CountsInv, Counted, Limited, Comparison
<1>6. CASE Pace(c, cs, n)
  <2>1. call' = [cs EXCEPT ![c] = "pacing"] /\ pending' = n /\ started' = started
    BY <1>6 DEF Pace
  <2>2. Placed(queue', call')
    BY <1>1, <1>2, <2>1, HeadLeaves DEF CallState
  <2>3. Open(call') = Open(cs)
    BY <1>4, <2>1, OpenChanges DEF CallState
  <2> QED  BY <1>2, <2>1, <2>2, <2>3 DEF CountsInv, Counted, Limited, Comparison
<1>7. CASE Send(c, cs, n)
  <2>1. /\ call' = [cs EXCEPT ![c] = "sent"] /\ pending' = n /\ started' = started + 1
        /\ Comparison => started < RequestLimit
    BY <1>7, PacingAssumption DEF Send, Blocked, PacingTypeOK
  <2>2. Placed(queue', call')
    BY <1>1, <1>2, <2>1, HeadLeaves DEF CallState
  <2>3. Open(call') = Open(cs)
    BY <1>4, <2>1, OpenChanges DEF CallState
  <2>4. Limited'
    BY <2>1, PacingAssumption DEF Limited, Comparison, PacingTypeOK
  <2> QED  BY <1>2, <2>1, <2>2, <2>3, <2>4 DEF CountsInv, Counted
<1> QED  BY <1>1, <1>5, <1>6, <1>7 DEF Work

(* A call that is sent or spaced changes its state.                        *)
LEMMA WorkerCounts ==
  ASSUME PacingTypeOK, CountsInv, NEW c \in Calls, call[c] \in {"pacing", "sent"},
         NEW s \in CallState, s # "queued", call' = [call EXCEPT ![c] = s], queue' = queue,
         s = "settled" => pending' = pending - 1, s # "settled" => s = "sent" /\ pending' = pending
  PROVE  Counted(queue, call, pending)'
<1>1. queue \in [Classes -> Seq(Calls)] /\ call \in [Calls -> CallState]
  BY DEF PacingTypeOK
<1>2. Placed(queue, call) /\ pending = Cardinality(Open(call))
  BY DEF CountsInv, Counted
<1>3. Placed(queue', call')
  BY <1>1, <1>2, OtherCallsPlaced
<1>4. c \in Open(call)
  BY DEF Open
<1>5. pending' = Cardinality(Open(call'))
  <2>1. CASE s = "settled"
    <3>1. Cardinality(Open(call')) = Cardinality(Open(call)) - 1
      BY ZenonT(60), <1>1, <1>4, <2>1, OpenChanges
    <3> QED  BY ONLY <1>2, <2>1, <3>1, s = "settled" => pending' = pending - 1
  <2>2. CASE s # "settled"
    <3>1. Open(call') = Open(call)
      BY ZenonT(60), <1>1, <1>4, <2>2, OpenChanges
    <3> QED  BY <1>2, <2>2, <3>1
  <2> QED  BY <2>1, <2>2
<1> QED  BY <1>3, <1>5 DEF Counted

(* Every step keeps the counts.                                            *)
LEMMA CountsStep ==
  PacingInv /\ CountsInv /\ [PacingNext]_pacingVars => CountsInv'
<1> SUFFICES ASSUME PacingInv, CountsInv, [PacingNext]_pacingVars PROVE CountsInv'
  OBVIOUS
<1>0. PacingTypeOK /\ WorkerOwns
  BY DEF PacingInv
<1>a. queue \in [Classes -> Seq(Calls)] /\ call \in [Calls -> CallState]
  BY <1>0 DEF PacingTypeOK
<1>b. Placed(queue, call) /\ pending = Cardinality(Open(call)) /\ Limited
  BY DEF CountsInv, Counted
<1>c. worker # NoCall => worker \in Calls
  BY <1>0 DEF PacingTypeOK
<1>1. ASSUME NEW k \in Classes, Enqueue(k) PROVE CountsInv'
  <2>1. PICK c \in Calls : c = issued + 1 /\ call[c] = "new" /\ mode' = mode
    BY <1>0, <1>1, PacingAssumption DEF Enqueue, PacingTypeOK, Calls
  <2>2. PICK q \in [Classes -> Seq(Calls)] : q = [queue EXCEPT ![k] = Append(@, c)]
    BY <1>a, AppendProperties
  <2>3. PICK cs \in [Calls -> CallState] : cs = [call EXCEPT ![c] = "queued"]
    BY <1>a DEF CallState
  <2>4. Placed(q, cs)
    BY <1>a, <1>b, <2>1, <2>2, <2>3, CallJoins
  <2>5. c \notin Open(call)
    BY <2>1 DEF Open
  <2>6. pending + 1 = Cardinality(Open(cs))
    <3>1. Cardinality(Open(cs)) = Cardinality(Open(call)) + 1
      <4>1. Open(cs) = Open(call) \cup {c}
        BY <1>a, <2>1, <2>3 DEF Open
      <4>2. IsFiniteSet(Open(call))
        <5>1. IsFiniteSet(Calls) /\ Open(call) \subseteq Calls
          BY PacingAssumption, FS_Interval DEF Calls, Open
        <5> QED  BY <5>1, FS_Subset
      <4> QED  BY <2>5, <4>1, <4>2, FS_AddElement
    <3> QED  BY <1>b, <3>1
  <2>7. Counted(q, cs, pending + 1)
    BY <2>4, <2>6 DEF Counted
  <2>8. CASE running
    <3>1. queue' = q /\ call' = cs /\ pending' = pending + 1 /\ started' = started
      BY <1>1, <2>1, <2>2, <2>3, <2>8 DEF Enqueue
    <3> QED  BY <1>b, <2>1, <2>7, <3>1 DEF CountsInv, Counted, Limited, Comparison
  <2>9. CASE ~running
    <3>1. TakeTurn(q, cs, pending + 1)
      BY <1>1, <2>1, <2>2, <2>3, <2>9 DEF Enqueue
    <3>2. q[k] # <<>>
      BY <1>a, <2>2, AppendProperties
    <3> QED  BY <1>0, <1>b, <2>1, <2>7, <3>1, <3>2, TurnCounts
  <2> QED  BY <2>8, <2>9, <1>0 DEF PacingTypeOK
<1>2. CASE Turn
  <2>1. CASE \E j \in Classes : queue[j] # <<>>
    <3>1. TakeTurn(queue, call, pending) /\ mode' = mode
      BY <1>2, <2>1 DEF Turn, Waiting
    <3> QED  BY <1>0, <1>a, <1>b, <2>1, <3>1, TurnCounts DEF CountsInv
  <2>2. CASE ~\E j \in Classes : queue[j] # <<>>
    <3>1. UNCHANGED <<mode, call, queue, pending, started>>
      BY <1>2, <2>2 DEF Turn, Waiting
    <3> QED  BY <1>b, <3>1 DEF CountsInv, Counted, Limited, Comparison
  <2> QED  BY <2>1, <2>2
<1>3. CASE Paced
  <2>1. /\ worker \in Calls /\ call[worker] = "pacing" /\ queue' = queue /\ mode' = mode
        /\ Send(worker, call, pending) \/ Refuse(worker, call, pending)
    BY <1>3, <1>c DEF Paced, turnVars
  <2>2. CASE Send(worker, call, pending)
    <3>1. /\ call' = [call EXCEPT ![worker] = "sent"] /\ pending' = pending
          /\ started' = started + 1 /\ (Comparison => started < RequestLimit)
      BY <1>0, <2>2, PacingAssumption DEF Send, Blocked, PacingTypeOK
    <3>2. Counted(queue, call, pending)'
      BY <1>0, <2>1, <3>1, WorkerCounts DEF CallState
    <3>3. Limited'
      BY <1>0, <2>1, <3>1, PacingAssumption DEF Limited, Comparison, PacingTypeOK
    <3> QED  BY <3>2, <3>3 DEF CountsInv
  <2>3. CASE Refuse(worker, call, pending)
    <3>1. /\ call' = [call EXCEPT ![worker] = "settled"] /\ pending' = pending - 1
          /\ started' = started
      BY <2>3 DEF Refuse
    <3>2. Counted(queue, call, pending)'
      BY <1>0, <2>1, <3>1, WorkerCounts DEF CallState
    <3> QED  BY <1>b, <2>1, <3>1, <3>2 DEF CountsInv, Limited, Comparison
  <2> QED  BY <2>1, <2>2, <2>3
<1>4. ASSUME NEW k \in Classes, NEW i \in 1..MaxCalls, CancelQueued(k, i)
      PROVE  CountsInv'
  <2>1. i \in 1..Len(queue[k]) /\ queue[k] \in Seq(Calls)
    BY <1>a, <1>4, PacingAssumption, LenProperties DEF CancelQueued
  <2>2. PICK c \in Calls : c = queue[k][i]
    BY <2>1, ElementOfSeq
  <2>3. /\ call' = [call EXCEPT ![c] = "settled"] /\ pending' = pending - 1
        /\ queue' = [queue EXCEPT ![k] = RemoveAt(@, i)] /\ call[c] = "queued"
        /\ UNCHANGED <<mode, started>>
    BY <1>4, <2>2 DEF CancelQueued, Settles
  <2>4. Placed(queue', call')
    BY <1>a, <1>b, <2>1, <2>2, <2>3, MiddleLeaves
  <2>5. c \in Open(call)
    BY <2>3 DEF Open
  <2>6. pending' = Cardinality(Open(call'))
    BY <1>a, <1>b, <2>3, <2>5, OpenChanges DEF CallState
  <2> QED  BY <1>b, <2>3, <2>4, <2>6 DEF CountsInv, Counted, Limited, Comparison
<1>5. ASSUME CancelPaced \/ Deadline \/ \E o \in Outcomes : Respond(o)
      PROVE  CountsInv'
  <2>1. /\ worker \in Calls /\ call[worker] \in {"pacing", "sent"}
        /\ call' = [call EXCEPT ![worker] = "settled"] /\ pending' = pending - 1
        /\ UNCHANGED <<queue, mode, started>>
    BY <1>5, <1>c DEF CancelPaced, Deadline, Respond, Ends, Settles, turnVars
  <2>2. Counted(queue, call, pending)'
    BY <1>0, <2>1, WorkerCounts DEF CallState
  <2> QED  BY <1>b, <2>1, <2>2 DEF CountsInv, Limited, Comparison
<1>6. ASSUME Rest \/ StopComparison \/ (\E c \in Calls : LateEnd(c)) \/ UNCHANGED pacingVars
      PROVE  CountsInv'
  <2>1. UNCHANGED <<queue, call, pending, mode, started>>
    BY <1>6 DEF Rest, StopComparison, LateEnd, pacingVars, turnVars
  <2> QED  BY <1>b, <2>1 DEF CountsInv, Counted, Limited, Comparison
<1> QED  BY <1>1, <1>2, <1>3, <1>4, <1>5, <1>6 DEF PacingNext, Drain

(* What is placed is at as many places as the count of places says.        *)
LEMMA PlacedOnce ==
  ASSUME PacingTypeOK, Placed(queue, call), NEW c \in Calls
  PROVE  Cardinality(Places(c)) = IF call[c] = "queued" THEN 1 ELSE 0
<1>1. \A k \in Classes : Len(queue[k]) \in Nat /\ \A i \in 1..Len(queue[k]) : queue[k][i] \in Calls
  BY LenProperties, ElementOfSeq DEF PacingTypeOK
<1>2. \A k \in Classes : Len(queue[k]) <= MaxCalls
  <2> SUFFICES ASSUME NEW k \in Classes PROVE Len(queue[k]) <= MaxCalls
    OBVIOUS
  <2>1. queue[k] \in [1..Len(queue[k]) -> Calls]
    BY LenProperties DEF PacingTypeOK
  <2>2. \A i, j \in 1..Len(queue[k]) : queue[k][i] = queue[k][j] => i = j
    BY DEF Placed, Apart
  <2>3. queue[k] \in Injection(1..Len(queue[k]), Calls)
    BY <2>1, <2>2 DEF Injection, IsInjective
  <2>4. /\ IsFiniteSet(Calls) /\ Cardinality(Calls) = MaxCalls
        /\ Cardinality(1..Len(queue[k])) = Len(queue[k])
    BY SMTT(40), <1>1, PacingAssumption, FS_Interval DEF Calls
  <2> QED  BY <2>3, <2>4, FS_Injection
<1>3. CASE call[c] = "queued"
  <2>1. PICK k \in Classes : \E i \in 1..Len(queue[k]) : queue[k][i] = c
    BY <1>3 DEF Placed
  <2>2. PICK i \in 1..Len(queue[k]) : queue[k][i] = c
    BY <2>1
  <2>3. <<k, i>> \in Places(c)
    BY <1>1, <1>2, <2>2, PacingAssumption DEF Places
  <2>4. ASSUME NEW p \in Places(c) PROVE p = <<k, i>>
    <3>1. /\ p[1] \in Classes /\ p[2] \in 1..Len(queue[p[1]]) /\ queue[p[1]][p[2]] = c
          /\ p = <<p[1], p[2]>>
      BY <1>1 DEF Places
    <3>2. p[1] = k /\ p[2] = i
      BY <2>2, <3>1 DEF Placed, Apart
    <3> QED  BY <3>1, <3>2
  <2>5. Places(c) = {<<k, i>>}
    BY <2>3, <2>4
  <2> QED  BY <1>3, <2>5, FS_Singleton
<1>4. CASE call[c] # "queued"
  <2>1. Places(c) = {}
    BY <1>1, <1>4 DEF Places, Placed
  <2> QED  BY <1>4, <2>1, FS_EmptySet
<1> QED  BY <1>3, <1>4

(* Each call is counted until it is answered, waits at one place, and the  *)
(* trial keeps to its limit: whatever is cancelled, wherever it waits.     *)
THEOREM CallsAreCounted == PacingSpec => []CountsExact
<1>1. PacingInit => CountsInv
  <2> SUFFICES ASSUME PacingInit PROVE CountsInv
    OBVIOUS
  <2>1. Open(call) = {} /\ Placed(queue, call)
    BY EmptySeq DEF PacingInit, Open, Placed, Apart
  <2>2. pending = Cardinality(Open(call))
    BY <2>1, FS_EmptySet DEF PacingInit
  <2>3. Limited
    BY PacingAssumption DEF PacingInit, Limited
  <2> QED  BY <2>1, <2>2, <2>3 DEF CountsInv, Counted
<1>2. PacingInv /\ CountsInv => CountsExact
  <2> SUFFICES ASSUME PacingInv, CountsInv PROVE CountsExact
    OBVIOUS
  <2>1. Unanswered = Open(call)
    BY DEF Unanswered, Open
  <2> QED  BY <2>1, PlacedOnce DEF CountsExact, CountsInv, Counted, Limited, PacingInv
<1> QED  BY <1>1, <1>2, PacingInvInit, PacingInvStep, CountsStep, PTL DEF PacingSpec
=============================================================================
