----------------------------- MODULE RpcPacing -----------------------------
(***************************************************************************)
(* The queue in front of the RPC transport                                 *)
(* (src/lib/appShared/cotiRpcPacing.ts): one physical request per tab,     *)
(* three classes of calls taking turns on it, a deadline for a call that   *)
(* waits and another for one that was sent, a stop that is never lifted,   *)
(* and the trial ("comparison") that spaces and counts the requests.       *)
(*                                                                         *)
(* Calls are numbered in the order they are made.  The queue's loop runs   *)
(* to its next await within the action that wakes it; the awaits are the   *)
(* wait for the spacing ("pacing"), the request itself ("sent") and the    *)
(* turn of the loop after a call has ended.  Time is not counted: a        *)
(* deadline may pass whenever its timer is set.                            *)
(***************************************************************************)
EXTENDS Integers, Sequences, FiniteSets, SequencesExt

CONSTANTS
  MaxCalls,      \* bound: calls made
  RequestLimit,  \* requests the trial may start
  Modes          \* the builds considered

ASSUME PacingAssumption ==
  /\ MaxCalls \in Nat /\ RequestLimit \in Nat
  /\ Modes \subseteq {"normal", "trial", "spaced"}

Calls   == 1..MaxCalls
NoCall  == 0
Classes == {"foreground", "essential", "background"}

VARIABLES
  mode,        \* how the queue was created; never changes
  issued,      \* calls made so far
  call,        \* [Calls -> CallState]
  queue,       \* [Classes -> Seq(Calls)]: foregroundWork, essential, background
  running,     \* the loop is running
  worker,      \* the call the loop is waiting for, or NoCall between two turns
  high,        \* highTurns: turns since background had one, up to three
  ahead,       \* foregroundTurns: foreground turns since essential had one
  transport,   \* calls whose physical request has not ended
  pending,     \* the count of calls not yet answered
  started,     \* physical requests started
  rested,      \* the spacing since the last start has passed
  stopped,     \* the sticky stop
  passed       \* history: [Classes -> Nat]: turns others had while it waited

turnVars   == <<queue, running, high, ahead, passed>>
pacingVars == <<mode, issued, call, queue, running, worker, high, ahead, transport,
                pending, started, rested, stopped, passed>>

CallState == {"new", "queued", "pacing", "sent", "settled"}

Comparison == mode # "normal"
Spaced     == mode = "spaced"

Waiting(k) == queue[k] # <<>>

PacingInit ==
  /\ mode \in Modes
  /\ issued = 0
  /\ call = [c \in Calls |-> "new"]
  /\ queue = [k \in Classes |-> <<>>]
  /\ running = FALSE /\ worker = NoCall
  /\ high = 0 /\ ahead = 0
  /\ transport = {} /\ pending = 0 /\ started = 0
  /\ rested = TRUE /\ stopped = FALSE 
  /\ passed = [k \in Classes |-> 0]

-----------------------------------------------------------------------------
(* The choice of the next call: background has a turn after three others,  *)
(* essential after three foreground ones.                                  *)

(* Mutant: background waits for an empty queue. *)
BackfillWaits(q) ==
  /\ q["background"] # <<>>
  /\ q["foreground"] = <<>> /\ q["essential"] = <<>>

BackfillTurn(q) ==
  /\ q["background"] # <<>>
  /\ high >= 3 \/ (q["foreground"] = <<>> /\ q["essential"] = <<>>)

ForegroundTurn(q) ==
  /\ q["foreground"] # <<>>
  /\ ahead < 3 \/ q["essential"] = <<>>

NextClass(q) ==
  IF BackfillTurn(q) THEN "background"
  ELSE IF ForegroundTurn(q) THEN "foreground" ELSE "essential"

(* Mutant: the turns since background had one grow without end. *)
TurnsUncapped(q, k) ==
  /\ high' = IF k = "background" THEN 0 ELSE high + 1
  /\ ahead' = IF k = "foreground" THEN ahead + 1 ELSE 0
  /\ passed' = [j \in Classes |->
                  IF j = k \/ q[j] = <<>> THEN 0 ELSE passed[j] + 1]

Turns(q, k) ==
  /\ high' = IF k = "background" THEN 0 ELSE IF high < 3 THEN high + 1 ELSE 3
  /\ ahead' = CASE k = "foreground" -> ahead + 1
                [] k = "essential"  -> 0
                [] OTHER            -> ahead
  /\ passed' = [j \in Classes |->
                  IF j = k \/ q[j] = <<>> THEN 0 ELSE passed[j] + 1]

(* work() up to its first await, for call c taken from the queue.  The     *)
(* calls are in the states cs, n of them unanswered.                       *)

Blocked == stopped \/ (Comparison /\ started >= RequestLimit)

Refuse(c, cs, n) ==
  /\ call' = [cs EXCEPT ![c] = "settled"]
  /\ pending' = n - 1
  /\ worker' = NoCall
  /\ stopped' = Blocked
  /\ UNCHANGED <<transport, started, rested>>

Pace(c, cs, n) ==
  /\ ~Blocked /\ ~rested
  /\ call' = [cs EXCEPT ![c] = "pacing"]
  /\ worker' = c
  /\ pending' = n
  /\ UNCHANGED <<stopped, transport, started, rested>>

Send(c, cs, n) ==
  /\ ~Blocked
  /\ call' = [cs EXCEPT ![c] = "sent"]
  /\ worker' = c
  /\ pending' = n
  /\ transport' = transport \cup {c}
  /\ started' = started + 1
  /\ rested' = ~Spaced
  /\ UNCHANGED stopped

(* A call is refused when the queue is stopped, and may be when its own    *)
(* time is over or the caller's scope is no longer current.                *)
Work(c, cs, n) ==
  \/ Refuse(c, cs, n)
  \/ Pace(c, cs, n)
  \/ rested /\ Send(c, cs, n)

TakeTurn(q, cs, n) ==
  LET k == NextClass(q) IN
    /\ queue' = [q EXCEPT ![k] = Tail(@)]
    /\ running' = TRUE
    /\ Turns([q EXCEPT ![k] = Tail(@)], k)
    /\ Work(Head(q[k]), cs, n)

-----------------------------------------------------------------------------
(* enqueue(): the call joins its queue; an idle loop takes it at once.  A  *)
(* call whose scope has been aborted already leaves no trace.              *)
Enqueue(k) ==
  LET c  == issued + 1
      q  == [queue EXCEPT ![k] = Append(@, c)]
      cs == [call EXCEPT ![c] = "queued"] IN
    /\ issued < MaxCalls /\ call[c] = "new"
    /\ issued' = c
    /\ IF running
       THEN /\ queue' = q /\ call' = cs /\ pending' = pending + 1
            /\ UNCHANGED <<running, worker, high, ahead, transport, started,
                           rested, stopped, passed>>
       ELSE TakeTurn(q, cs, pending + 1)
    /\ UNCHANGED mode

(* The loop goes on once the call it waited for has ended.                 *)
Turn ==
  /\ running /\ worker = NoCall
  /\ \/ /\ \E k \in Classes : Waiting(k)
        /\ TakeTurn(queue, call, pending)
     \/ /\ \A k \in Classes : ~Waiting(k)
        /\ running' = FALSE
        /\ UNCHANGED <<call, queue, worker, high, ahead, transport, pending,
                       started, rested, stopped, passed>>
  /\ UNCHANGED <<mode, issued>>

(* Mutant: nothing is checked again after the spacing. *)
PacedUnchecked ==
  /\ worker # NoCall /\ call[worker] = "pacing"
  /\ call' = [call EXCEPT ![worker] = "sent"]
  /\ transport' = transport \cup {worker}
  /\ started' = started + 1
  /\ UNCHANGED <<mode, issued, worker, pending, rested, stopped>>
  /\ UNCHANGED turnVars

(* The spacing has passed: what could have changed while waiting is        *)
(* checked again before the request starts.                                *)
Paced ==
  /\ worker # NoCall /\ call[worker] = "pacing"
  /\ \/ Send(worker, call, pending)
     \/ Refuse(worker, call, pending)
  /\ UNCHANGED <<mode, issued>> /\ UNCHANGED turnVars

Rest ==
  /\ ~rested
  /\ rested' = TRUE
  /\ UNCHANGED <<mode, issued, call, worker, transport, pending, started, stopped>>
  /\ UNCHANGED turnVars

(* cancelUnsent(): before it is sent the call's time in the queue is over, *)
(* its scope is aborted or its signal fires.  It leaves its queue, or ends *)
(* the wait for the spacing.                                               *)
Settles(c) ==
  /\ call' = [call EXCEPT ![c] = "settled"]
  /\ pending' = pending - 1

(* Mutant: the call is answered and stays in its queue. *)
CancelStaysQueued(k, i) ==
  /\ i <= Len(queue[k]) /\ call[queue[k][i]] = "queued"
  /\ Settles(queue[k][i])
  /\ UNCHANGED <<mode, issued, worker, transport, started, rested, stopped>>
  /\ UNCHANGED turnVars

CancelQueued(k, i) ==
  /\ i <= Len(queue[k]) /\ call[queue[k][i]] = "queued"
  /\ Settles(queue[k][i])
  /\ queue' = [queue EXCEPT ![k] = RemoveAt(@, i)]
  /\ passed' = [passed EXCEPT ![k] = IF Len(queue[k]) = 1 THEN 0 ELSE @]
  /\ UNCHANGED <<mode, issued, running, worker, high, ahead, transport,
                 started, rested, stopped>>

CancelPaced ==
  /\ worker # NoCall /\ call[worker] = "pacing"
  /\ Settles(worker) /\ worker' = NoCall
  /\ UNCHANGED <<mode, issued, transport, started, rested, stopped>>
  /\ UNCHANGED turnVars

(* The physical request of the call the loop waits for ends: with an       *)
(* answer, with an error, with a timeout of the library or with an HTTP    *)
(* status that stops the queue.  In the trial every failure stops it, and  *)
(* an answer that finds it stopped is a failure.                           *)
Outcomes == {"answer", "error", "timeout", "denied"}

Stops(o) ==
  \/ o \in {"timeout", "denied"}
  \/ Comparison /\ (o = "error" \/ started = RequestLimit)

Ends(c) == Settles(c) /\ worker' = NoCall

Respond(o) ==
  /\ worker # NoCall /\ call[worker] = "sent"
  /\ Ends(worker)
  /\ transport' = transport \ {worker}
  /\ stopped' = (stopped \/ Stops(o))
  /\ UNCHANGED <<mode, issued, started, rested>> /\ UNCHANGED turnVars

(* Mutants: the deadline answers and does not stop the queue; it stops the *)
(* queue and waits for the transport.                                      *)
DeadlineGoesOn ==
  /\ worker # NoCall /\ call[worker] = "sent"
  /\ Ends(worker)
  /\ UNCHANGED <<mode, issued, transport, started, rested, stopped>>
  /\ UNCHANGED turnVars

DeadlineWaits ==
  /\ worker # NoCall /\ call[worker] = "sent"
  /\ stopped' = TRUE
  /\ UNCHANGED <<mode, issued, call, worker, pending, transport, started,
                 rested>>
  /\ UNCHANGED turnVars

(* The deadline of a sent call: the queue stops and the caller is answered *)
(* while the transport may still be reading.                               *)
Deadline ==
  /\ worker # NoCall /\ call[worker] = "sent"
  /\ Ends(worker)
  /\ stopped' = TRUE
  /\ UNCHANGED <<mode, issued, transport, started, rested>>
  /\ UNCHANGED turnVars

LateEnd(c) ==
  /\ c \in transport /\ call[c] = "settled"
  /\ transport' = transport \ {c}
  /\ UNCHANGED <<mode, issued, call, worker, pending, started, rested, stopped>>
  /\ UNCHANGED turnVars

(* stopComparison(): by the trial's clock once it was begun, or by the     *)
(* page.                                                                   *)
StopComparison ==
  /\ Comparison /\ ~stopped
  /\ stopped' = TRUE
  /\ UNCHANGED <<mode, issued, call, worker, transport, pending, started, rested>>
  /\ UNCHANGED turnVars

Drain == Turn \/ Paced

PacingNext ==
  \/ \E k \in Classes : Enqueue(k)
  \/ Drain \/ Deadline \/ Rest
  \/ \E o \in Outcomes : Respond(o)
  \/ \E k \in Classes, i \in 1..MaxCalls : CancelQueued(k, i)
  \/ CancelPaced
  \/ \E c \in Calls : LateEnd(c)
  \/ StopComparison

(* A promise that is settled wakes the loop, a timer that is set fires and *)
(* a sent call has a deadline.  Nothing is assumed of the deadline of a    *)
(* call that waits, of the callers or of the transport.                    *)
PacingSpec ==
  /\ PacingInit /\ [][PacingNext]_pacingVars
  /\ WF_pacingVars(Drain) /\ WF_pacingVars(Deadline)

-----------------------------------------------------------------------------
PacingTypeOK ==
  /\ mode \in Modes
  /\ issued \in 0..MaxCalls
  /\ call \in [Calls -> CallState]
  /\ queue \in [Classes -> Seq(Calls)]
  /\ running \in BOOLEAN
  /\ worker \in Calls \cup {NoCall}
  /\ high \in 0..3 /\ ahead \in Nat
  /\ transport \subseteq Calls
  /\ pending \in Int /\ started \in Nat
  /\ rested \in BOOLEAN /\ stopped \in BOOLEAN
  /\ passed \in [Classes -> Nat]

(* "One physical request per tab": never are two requests on their way,    *)
(* not even when a deadline has answered the caller of the first.          *)
OneRequest == \A c, d \in transport : c = d

(* Each call is counted until it is answered and answered once, a call     *)
(* that waits is in one queue at one place, and the trial never starts     *)
(* more requests than it may.                                              *)
Unanswered == {c \in Calls : call[c] \in {"queued", "pacing", "sent"}}
Places(c) == {p \in Classes \X (1..MaxCalls) :
                p[2] <= Len(queue[p[1]]) /\ queue[p[1]][p[2]] = c}

CountsExact ==
  /\ pending = Cardinality(Unanswered)
  /\ \A c \in Calls :
        Cardinality(Places(c)) = IF call[c] = "queued" THEN 1 ELSE 0
  /\ Comparison => started <= RequestLimit

(* "Background still gets a turn after three high-priority reads; ordinary *)
(* essential work gets a turn after three foreground reads": while a class *)
(* waits, others have at most so many turns.                               *)
BypassBounded ==
  /\ passed["background"] <= 3
  /\ passed["essential"]  <= 5
  /\ passed["foreground"] <= 2

(* Once stopped the queue stays stopped and starts no request: "never      *)
(* start a replacement alongside that request".                            *)
StopIsFinal ==
  [][stopped => stopped' /\ started' = started
                /\ transport' \subseteq transport]_pacingVars

(* Whatever the transport and the other callers do, the calls made are     *)
(* answered: time and again none is left open.                             *)
EveryCallEnds == []<>(Unanswered = {})
=============================================================================
