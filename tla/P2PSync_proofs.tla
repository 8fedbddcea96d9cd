---------------------------- MODULE P2PSync_proofs ----------------------------
(***************************************************************************)
(* The page that keeps itself fresh implements WalletFlow: whatever its    *)
(* hints, timers and readers do, to the registry of flows they do nothing, *)
(* or leave the trace that WalletFlow allows.  What WalletFlow promises    *)
(* then holds of the page.                                                 *)
(***************************************************************************)
EXTENDS P2PSync, WalletFlow_proofs

\* A callback that began with registry r has done at most what Hold allows.
Traced(w, r) ==
  /\ w = [page |-> w.page, registry |-> w.registry]
  /\ w.registry = r \/ (FlowActive(r) /\ w.registry = Stage(r, session))

-----------------------------------------------------------------------------
(* The parts of a callback.                                                *)

\* A second trace adds nothing to the first.
LEMMA StageTwice ==
  ASSUME NEW r \in Registry, NEW s \in Sessions
  PROVE  Stage(Stage(r, s), s) = Stage(r, s)
<1> DEFINE c == IF r.active[s] > 0 THEN r.active[s]
                ELSE IF Stored(r, s) THEN r.stored[s].count ELSE 1
           q == Touch(r, s, c)
<1>1. Stage(r, s) = q
  BY DEF Stage
<1>2. q.active = r.active /\ q.stored = [r.stored EXCEPT ![s] = [count |-> c, left |-> Ttl]]
  BY DEF Touch, Registry
<1>3. q.stored[s] = [count |-> c, left |-> Ttl] /\ Stored(q, s)
  BY <1>2, FlowAssumption DEF Registry, Stored
<1>4. Stage(q, s) = Touch(q, s, c)
  BY <1>2, <1>3 DEF Stage
<1>5. Touch(q, s, c) = q
  <2>1. [q EXCEPT !.stored[s] = [count |-> c, left |-> Ttl]]
          = [q EXCEPT !.stored = [q.stored EXCEPT ![s] = [count |-> c, left |-> Ttl]]]
    OBVIOUS
  <2>2. [q.stored EXCEPT ![s] = [count |-> c, left |-> Ttl]] = q.stored
    BY <1>2 DEF Registry
  <2>3. [q EXCEPT !.stored = q.stored] = q
    BY DEF Touch, Registry
  <2> QED
    BY <2>1, <2>2, <2>3 DEF Touch
<1> QED
  BY <1>1, <1>4, <1>5

\* To write the page leaves the trace as it is.
LEMMA PageTraced ==
  ASSUME NEW r, NEW w, Traced(w, r), NEW p
  PROVE  Traced([w EXCEPT !.page = p], r)
  BY DEF Traced

\* To leave a trace where a flow is active is to have left one.
LEMMA NoteTraced ==
  ASSUME NEW r \in Registry, session \in Sessions, NEW w, Traced(w, r), Held(w)
  PROVE  Traced(Note(w), r)
<1>1. CASE w.registry = r
  BY <1>1 DEF Traced, Note, Held
<1>2. CASE FlowActive(r) /\ w.registry = Stage(r, session)
  <2>1. Stage(w.registry, session) = Stage(r, session)
    BY <1>2, StageTwice
  <2> QED
    BY <1>2, <2>1 DEF Traced, Note
<1> QED
  BY <1>1, <1>2 DEF Traced

\* What stands for the world when a callback begins is its registry untraced.
LEMMA WorldTraced == Traced(World, registry)
  BY DEF World, Traced

\* Running a request touches the page alone.
LEMMA RunTraced ==
  ASSUME NEW r, NEW w, Traced(w, r)
  PROVE  Traced(Run(w), r)
  BY PageTraced, Zenon DEF Run

\* A flush leaves a trace exactly where a flow holds it back.
LEMMA FlushTraced ==
  ASSUME NEW r \in Registry, session \in Sessions, NEW w, Traced(w, r)
  PROVE  Traced(Flush(w), r)
<1> DEFINE v == [w EXCEPT !.page.debounce = FALSE]
           u == Busy(v)
<1>1. Traced(v, r) /\ v.registry = w.registry
  <2>1. Traced(v, r)
    BY PageTraced, Zenon
  <2>2. v.registry = w.registry
    BY DEF Traced
  <2> QED
    BY <2>1, <2>2
<1>2. Traced(u, r)
  BY <1>1, PageTraced, Zenon DEF Busy
<1>3. Held(w) => Traced(Note(v), r)
  BY <1>1, NoteTraced, Zenon DEF Held
<1>4. Traced(Run(v), r)
  BY <1>1, RunTraced
<1>5. Flush(w) \in {v, u, Run(v)} \/ (Held(w) /\ Flush(w) = Note(v))
  <2>1. CASE w.page.queue = "none"
    <3>1. Flush(w) = v
      BY <2>1 DEF Flush
    <3> QED
      BY <3>1
  <2>2. CASE w.page.queue # "none" /\ w.page.busy
    <3>1. Flush(w) = u
      BY <2>2, Zenon DEF Flush
    <3> QED
      BY <3>1
  <2>3. CASE w.page.queue # "none" /\ ~w.page.busy /\ Held(w)
    <3>1. Flush(w) = Note(v)
      BY <2>3, Zenon DEF Flush
    <3> QED
      BY <2>3, <3>1
  <2>4. CASE w.page.queue # "none" /\ ~w.page.busy /\ ~Held(w)
    <3>1. Flush(w) = Run(v)
      BY <2>4 DEF Flush
    <3> QED
      BY <3>1
  <2> QED
    BY <2>1, <2>2, <2>3, <2>4, Zenon
<1> HIDE DEF v, u
<1> QED
  BY <1>1, <1>2, <1>3, <1>4, <1>5

\* So does scheduling, whether it is held, flushes at once or waits.
LEMMA ScheduleTraced ==
  ASSUME NEW r \in Registry, session \in Sessions, NEW w, Traced(w, r), NEW reason
  PROVE  Traced(Schedule(w, reason), r)
<1> DEFINE m == [w EXCEPT !.page.queue = MergeReasons(@, reason)]
           v == Asked(m, reason)
           u == [v EXCEPT !.page.debounce = TRUE]
<1>1. Traced(v, r) /\ v.registry = w.registry
  <2>0. Traced(m, r) /\ m.registry = w.registry
    <3>1. Traced(m, r)
      BY PageTraced, Zenon
    <3> QED  BY <3>1 DEF Traced
  <2>1. Traced(v, r)
    <3> HIDE DEF m
    <3> DEFINE over == [m EXCEPT !.page.over = IF m.page.asked # "none" /\ @ = "no"
                                                 THEN "merged" ELSE @]
               ask == [m EXCEPT !.page.asked = IF @ = "wallet-action" THEN @ ELSE reason,
                                !.page.over = "no"]
    <3>1. Traced(over, r)
      BY <2>0, PageTraced, Zenon
    <3>2. Traced(ask, r)
      BY <2>0, PageTraced, Zenon
    <3>3. v = over \/ v = ask
      BY Zenon DEF Asked
    <3> QED  BY <3>1, <3>2, <3>3, Zenon
  <2>2. v.registry = w.registry
    BY <2>0 DEF Asked, Traced
  <2> QED
    BY <2>1, <2>2
<1>2. Traced(u, r)
  BY <1>1, PageTraced, Zenon
<1>3. Held(w) => Traced(Note(v), r)
  BY <1>1, NoteTraced, Zenon DEF Held
<1>4. Traced(Flush(v), r)
  BY <1>1, FlushTraced
<1>5. Schedule(w, reason) \in {w, u, Flush(v)} \/ (Held(w) /\ Schedule(w, reason) = Note(v))
  BY DEF Schedule
<1> HIDE DEF v, u
<1> QED
  BY <1>1, <1>2, <1>3, <1>4, <1>5

\* The stage the throttle records is recorded under a flow only.
LEMMA NotedTraced ==
  ASSUME NEW r \in Registry, session \in Sessions, NEW w, Traced(w, r)
  PROVE  Traced(Noted(w), r)
  BY NoteTraced DEF Noted

\* And so a dispatch leaves at most a trace ...
LEMMA DispatchTraced ==
  ASSUME NEW r \in Registry, session \in Sessions, NEW w, Traced(w, r), NEW reason
  PROVE  Traced(Dispatch(w, reason), r)
<1> DEFINE v == [Noted(w) EXCEPT !.page.cooling = TRUE]
<1>1. Traced(v, r)
  BY NotedTraced, PageTraced, Zenon
<1>2. Traced(Schedule(v, reason), r)
  BY <1>1, ScheduleTraced
<1>3. Stops(w, reason) => Traced(Note(w), r)
  BY NoteTraced DEF Stops
<1>4. Dispatch(w, reason) \in {w, Schedule(v, reason)}
        \/ (Stops(w, reason) /\ Dispatch(w, reason) = Note(w))
  BY DEF Dispatch
<1> HIDE DEF v
<1> QED
  BY <1>2, <1>3, <1>4

\* ... as does the throttle as a whole.
LEMMA RealtimeTraced ==
  ASSUME NEW r \in Registry, session \in Sessions, NEW w, Traced(w, r), NEW reason
  PROVE  Traced(Realtime(w, reason), r)
<1> DEFINE v == [Noted(w) EXCEPT !.page.timer = reason]
<1>1. Traced(Noted(w), r)
  BY NotedTraced
<1>2. Traced(v, r)
  BY <1>1, PageTraced, Zenon
<1>3. Traced(Dispatch(Noted(w), reason), r)
  BY <1>1, DispatchTraced
<1>4. Stops(w, reason) => Traced(Note(w), r)
  BY NoteTraced DEF Stops
<1>5. Realtime(w, reason) \in {Noted(w), v, Dispatch(Noted(w), reason)}
        \/ (Stops(w, reason) /\ Realtime(w, reason) = Note(w))
  BY DEF Realtime
<1> HIDE DEF v
<1> QED
  BY <1>1, <1>2, <1>3, <1>4, <1>5

-----------------------------------------------------------------------------
(* The steps.                                                              *)

rest == <<session, waiting, running, refresh, changes>>

\* A callback that leaves at most a trace is a reader's step of WalletFlow, or none.
LEMMA CallbackStep ==
  ASSUME NEW w, Traced(w, registry), Become(w), UNCHANGED rest
  PROVE  [FlowNext]_flowVars
<1>1. registry' = registry \/ Hold(registry)
  BY DEF Traced, Become, Hold
<1> QED
  BY <1>1 DEF rest, flowVars, FlowNext

\* A callback of the throttle, a timer or a task.
LEMMA TimerStep ==
  ASSUME FlowInv, Timers \/ Focus \/ Connected \/ Hint
  PROVE  [FlowNext]_flowVars
<1>1. registry \in Registry /\ session \in Sessions
  BY DEF FlowInv, FlowTypeOK
<1>2. CASE DebounceFires
  <2>1. Traced(Flush(World), registry)
    BY <1>1, WorldTraced, FlushTraced
  <2> QED
    BY <1>2, <2>1, CallbackStep DEF DebounceFires, onlyPage, rest
<1>3. CASE TimerFires
  <2> DEFINE w == [World EXCEPT !.page.timer = "none"]
  <2>1. Traced(w, registry)
    BY WorldTraced, PageTraced, Zenon
  <2>2. Traced(Dispatch(w, page.timer), registry)
    BY <1>1, <2>1, DispatchTraced
  <2> QED
    BY <1>3, <2>2, CallbackStep DEF TimerFires, onlyPage, rest
<1>4. CASE Cool
  BY <1>4 DEF Cool, onlyPage, flowVars
<1>5. CASE FlushTask
  <2> DEFINE w == [World EXCEPT !.page.flushDue = FALSE]
  <2>1. Traced(w, registry)
    BY WorldTraced, PageTraced, Zenon
  <2>2. Traced(Flush(w), registry)
    BY <1>1, <2>1, FlushTraced
  <2> QED
    BY <1>5, <2>2, CallbackStep DEF FlushTask, onlyPage, rest
<1>6. CASE ActionRefresh
  <2> DEFINE w == [World EXCEPT !.page.settled = FALSE, !.page.owed = Owing]
  <2>1. Traced(w, registry)
    BY WorldTraced, PageTraced, Zenon
  <2>2. Traced(Schedule(w, "wallet-action"), registry)
    BY <1>1, <2>1, ScheduleTraced
  <2> QED
    BY <1>6, <2>2, CallbackStep DEF ActionRefresh, onlyPage, rest
<1>7. CASE Focus
  <2> DEFINE w == [World EXCEPT !.page.hidden = FALSE]
  <2>1. Traced(w, registry)
    BY WorldTraced, PageTraced, Zenon
  <2>2. Traced(Realtime(w, "hint"), registry)
    BY <1>1, <2>1, RealtimeTraced
  <2> QED
    BY <1>7, <2>2, CallbackStep DEF Focus, onlyPage, rest
<1>8. CASE Connected
  <2> DEFINE w == [World EXCEPT !.page.polling = @ /\ TradeRoute]
             v == [w EXCEPT !.page.owed = Owing]
  <2>1. Traced(w, registry)
    BY WorldTraced, PageTraced, Zenon
  <2>2. Traced(v, registry)
    BY <2>1, PageTraced, Zenon
  <2>3. Traced(Realtime(v, "hint"), registry)
    BY <1>1, <2>2, RealtimeTraced
  <2>4. Become(w) \/ Become(Realtime(v, "hint"))
    BY <1>8, Zenon DEF Connected
  <2>5. UNCHANGED rest
    BY <1>8 DEF Connected, onlySocket, rest
  <2> QED
    BY <2>1, <2>3, <2>4, <2>5, CallbackStep
<1>9. CASE Hint
  <2> DEFINE w == [World EXCEPT !.page.owed = Owing]
  <2>1. Traced(w, registry)
    BY WorldTraced, PageTraced, Zenon
  <2>2. Traced(Realtime(w, "hint"), registry)
    BY <1>1, <2>1, RealtimeTraced
  <2> QED
    BY <1>9, <2>2, CallbackStep DEF Hint, onlyPage, rest
<1> QED
  BY <1>2, <1>3, <1>4, <1>5, <1>6, <1>7, <1>8, <1>9 DEF Timers

\* A poll interval: the entries age, and the tick leaves at most a trace of the
\* flows that are left.
LEMMA TickStep ==
  ASSUME FlowInv, Tick
  PROVE  [FlowNext]_flowVars
<1> DEFINE w == [World EXCEPT !.registry = Aged(@)]
           v == IF page.polling THEN Realtime(w, "interval") ELSE w
           u == [v EXCEPT !.page.ticked = v.page.cooling]
<1>1. registry \in Registry /\ session \in Sessions /\ Aged(registry) \in Registry
  BY AgedType DEF FlowInv, FlowTypeOK
<1>2. Traced(w, Aged(registry))
  BY DEF World, Traced
<1>3. Traced(Realtime(w, "interval"), Aged(registry))
  BY <1>1, <1>2, RealtimeTraced
<1>4. Traced(v, Aged(registry))
  BY <1>2, <1>3, Zenon
<1>5. Become(u) /\ UNCHANGED rest
  BY DEF Tick, onlyPage, rest
<1> HIDE DEF v
<1>6. Traced(u, Aged(registry))
  BY <1>4, PageTraced, Zenon
<1> HIDE DEF u
<1>7. Age
  BY <1>5, <1>6 DEF Become, Traced, Age, Hold
<1> QED
  BY <1>5, <1>7 DEF FlowNext, rest

\* Every step of the page is a step of WalletFlow, or none.
LEMMA SyncStep ==
  ASSUME FlowInv, [SyncNext]_vars
  PROVE  [FlowNext]_flowVars
<1>1. CASE Timers \/ Focus \/ Connected \/ Hint
  BY <1>1, TimerStep
<1>2. CASE Tick
  BY <1>2, TickStep
<1>3. CASE Reads \/ StartRead \/ Hide \/ Lost \/ Restart
  BY <1>3 DEF Reads, FetchDone, EndRead, StartRead, Hide, Lost, Restart, onlyPage, flowVars
<1>4. CASE Session \/ Reload
  BY <1>4 DEF Session, Reload, FlowNext
<1>5. CASE \E f \in Flows : Start(f) \/ Finish(f)
  BY <1>5 DEF Start, Finish, FlowNext
<1>6. CASE UNCHANGED vars
  BY <1>6 DEF vars, flowVars
<1> QED
  BY <1>1, <1>2, <1>3, <1>4, <1>5, <1>6 DEF SyncNext

-----------------------------------------------------------------------------

\* The registry of flows keeps its invariant under everything the page does.
LEMMA SyncInvHolds == SyncSpec => []FlowInv
<1>1. SyncInit => FlowInv
  BY InitFlowInv DEF SyncInit
<1>2. FlowInv /\ [SyncNext]_vars => FlowInv'
  BY SyncStep, StepFlowInv
<1> QED
  BY <1>1, <1>2, PTL DEF SyncSpec

\* The trading page implements WalletFlow.
THEOREM ReadersOnlyTrace == SyncSpec => OnlyTraces
<1>1. SyncInit => FlowInit
  BY DEF SyncInit
<1>2. FlowInv /\ [SyncNext]_vars => [FlowNext]_flowVars
  BY SyncStep
<1> QED
  BY <1>1, <1>2, SyncInvHolds, PTL DEF SyncSpec, OnlyTraces

\* With every hint, timer and reader of the page, memory counts exactly the flows
\* in progress.
THEOREM PageCountsFlows == SyncSpec => []RunningIsCounted
  BY SyncInvHolds, PTL DEF FlowInv

-----------------------------------------------------------------------------
(***************************************************************************)
(* What was asked for is in the queue until a read is started for it, or   *)
(* under the name of a poll tick that a busy page may drop; a wallet       *)
(* action always: for any flows, sessions, lifetimes and bounds.  The type *)
(* of the page comes with it.                                              *)
(***************************************************************************)

\* What a callback works on.
Shaped(w) == w \in [page: Page, registry: Registry]

\* The queue holds what was asked for, or a tick took its place.
Kept(p) ==
  /\ p.queue \in {"none", "interval", p.asked} /\ p.asked # "interval"
  /\ p.asked = "wallet-action" => p.queue = "wallet-action"
  /\ p.asked # "none" =>
       p.queue = p.asked \/ (p.over = "merged" /\ p.queue = "interval") \/ p.over = "flushed"

Good(w) == Shaped(w) /\ Kept(w.page)

-----------------------------------------------------------------------------
(* The parts of a callback.                                                *)

\* A callback that writes neither the queue nor its histories keeps the queue.
LEMMA SameQueue ==
  ASSUME NEW w, Good(w), NEW v, Shaped(v), v.page.queue = w.page.queue,
         v.page.asked = w.page.asked, v.page.over = w.page.over
  PROVE  Good(v)
  BY DEF Good, Kept

\* A trace leaves the page alone.
LEMMA NoteGood ==
  ASSUME session \in Sessions, NEW w, Good(w)
  PROVE  Good(Note(w)) /\ Note(w).page = w.page
<1>1. Stage(w.registry, session) \in Registry
  BY StageType DEF Good, Shaped
<1>2. Note(w) \in [page: Page, registry: Registry] /\ Note(w).page = w.page
  BY <1>1 DEF Good, Shaped, Note
<1> QED
  BY <1>2, SameQueue DEF Shaped

\* To run a request hands the queue to a reader, and nothing is asked for any more.
LEMMA RunGood ==
  ASSUME NEW w, Shaped(w)
  PROVE  Good(Run(w))
<1>1. w.page \in Page
  BY DEF Shaped
<1> DEFINE p == [w.page EXCEPT !.queue = "none",
                               !.reader = IF @ = "idle" THEN "reading" ELSE "again",
                               !.owed = @ /\ w.page.reader # "idle",
                               !.asked = "none", !.over = "no"]
<1>2. Run(w) = [w EXCEPT !.page = p]
  BY DEF Run
<1>3. p \in Page /\ p.queue = "none" /\ p.asked = "none"
  BY ZenonT(60), <1>1 DEF Page, Reason
<1> HIDE DEF p
<1>4. Run(w) \in [page: Page, registry: Registry] /\ Run(w).page = p
  BY <1>2, <1>3 DEF Shaped
<1> QED
  BY <1>3, <1>4 DEF Good, Kept, Shaped

\* A page that is busy drops a poll tick, and nothing else.
LEMMA BusyGood ==
  ASSUME NEW w, Good(w)
  PROVE  Good(Busy(w))
<1> DEFINE q == IF w.page.queue = "interval" THEN "none" ELSE w.page.queue
           o == IF w.page.over = "merged" THEN "flushed" ELSE w.page.over
           p == [w.page EXCEPT !.queue = q, !.over = o]
<1>1. w.page \in Page /\ Kept(w.page)
  BY DEF Good, Shaped
<1>2. q \in Reason /\ o \in {"no", "merged", "flushed"}
  BY <1>1 DEF Page, Reason
<1>3. Busy(w) = [w EXCEPT !.page = p]
  BY DEF Busy
<1> HIDE DEF q, o
<1>4. /\ p \in Page /\ p.queue = q /\ p.over = o /\ p.asked = w.page.asked
  BY <1>1, <1>2 DEF Page
<1> HIDE DEF p
<1>5. Kept(p)
  BY <1>1, <1>4 DEF Kept, q, o
<1>6. Busy(w) \in [page: Page, registry: Registry] /\ Busy(w).page = p
  BY <1>3, <1>4 DEF Good, Shaped
<1> QED
  BY <1>5, <1>6 DEF Good, Shaped

\* A reason may be written to the throttle's timer, a flag to the queue's.
LEMMA FieldsGood ==
  ASSUME NEW w, Good(w), NEW reason \in Reason, NEW b \in BOOLEAN
  PROVE  /\ Good([w EXCEPT !.page.timer = reason])
         /\ Good([w EXCEPT !.page.debounce = b])
         /\ Good([w EXCEPT !.page.cooling = b])
         /\ Good([w EXCEPT !.page.ticked = b])
<1>1. Shaped(w)
  BY DEF Good
<1>2. Good([w EXCEPT !.page.timer = reason])
  <2> DEFINE v == [w EXCEPT !.page.timer = reason]
  <2>1. Shaped(v) /\ v.page.queue = w.page.queue
        /\ v.page.asked = w.page.asked /\ v.page.over = w.page.over
    BY <1>1 DEF Shaped, Page
  <2> HIDE DEF v
  <2>2. Good(v)
    BY <2>1, SameQueue
  <2> QED  BY <2>2 DEF v
<1>3. Good([w EXCEPT !.page.debounce = b])
  <2> DEFINE v == [w EXCEPT !.page.debounce = b]
  <2>1. Shaped(v) /\ v.page.queue = w.page.queue
        /\ v.page.asked = w.page.asked /\ v.page.over = w.page.over
    BY <1>1 DEF Shaped, Page
  <2> HIDE DEF v
  <2>2. Good(v)
    BY <2>1, SameQueue
  <2> QED  BY <2>2 DEF v
<1>4. Good([w EXCEPT !.page.cooling = b])
  <2> DEFINE v == [w EXCEPT !.page.cooling = b]
  <2>1. Shaped(v) /\ v.page.queue = w.page.queue
        /\ v.page.asked = w.page.asked /\ v.page.over = w.page.over
    BY <1>1 DEF Shaped, Page
  <2> HIDE DEF v
  <2>2. Good(v)
    BY <2>1, SameQueue
  <2> QED  BY <2>2 DEF v
<1>5. Good([w EXCEPT !.page.ticked = b])
  <2> DEFINE v == [w EXCEPT !.page.ticked = b]
  <2>1. Shaped(v) /\ v.page.queue = w.page.queue
        /\ v.page.asked = w.page.asked /\ v.page.over = w.page.over
    BY <1>1 DEF Shaped, Page
  <2> HIDE DEF v
  <2>2. Good(v)
    BY <2>1, SameQueue
  <2> QED  BY <2>2 DEF v
<1> QED  BY <1>2, <1>3, <1>4, <1>5

\* A flush empties the queue for a reader, or drops a poll tick.
LEMMA FlushGood ==
  ASSUME session \in Sessions, NEW w, Good(w)
  PROVE  Good(Flush(w))
<1> DEFINE v == [w EXCEPT !.page.debounce = FALSE]
<1>1. Good(v)
  BY FieldsGood DEF Reason
<1>2. Shaped(v)
  BY <1>1 DEF Good
<1>3. Flush(w) \in {v, Busy(v), Note(v), Run(v)}
  BY DEF Flush
<1> HIDE DEF v
<1> QED
  BY <1>1, <1>2, <1>3, NoteGood, BusyGood, RunGood

\* A reason that is merged is asked for, and a wallet action survives it.
LEMMA AskedGood ==
  ASSUME NEW w, Good(w), NEW reason \in Reasons
  PROVE  Good(Asked([w EXCEPT !.page.queue = MergeReasons(@, reason)], reason))
<1> DEFINE q == MergeReasons(w.page.queue, reason)
           o == IF reason # "interval" THEN "no"
                ELSE IF w.page.asked # "none" /\ w.page.over = "no" THEN "merged"
                ELSE w.page.over
           a == IF reason = "interval" \/ w.page.asked = "wallet-action"
                  THEN w.page.asked ELSE reason
           p == [w.page EXCEPT !.queue = q, !.asked = a, !.over = o]
           v == Asked([w EXCEPT !.page.queue = MergeReasons(@, reason)], reason)
<1>1. w.page \in Page /\ Kept(w.page) /\ w = [page |-> w.page, registry |-> w.registry]
      /\ w.registry \in Registry
  BY DEF Good, Shaped
<1>2. q \in Reason /\ a \in Reason /\ o \in {"no", "merged", "flushed"}
  BY <1>1 DEF Page, Reason, MergeReasons
<1>3. v = [page |-> p, registry |-> w.registry]
  <2> DEFINE m == [w.page EXCEPT !.queue = q]
             n == [page |-> m, registry |-> w.registry]
  <2>1. [w EXCEPT !.page.queue = MergeReasons(@, reason)] = n
    BY <1>1
  <2>2. /\ m \in Page /\ m.asked = w.page.asked /\ m.over = w.page.over
    BY <1>1, <1>2 DEF Page
  <2>3. CASE reason = "interval"
    <3> HIDE DEF n
    <3>0. Asked(n, reason) = [n EXCEPT !.page.over = IF n.page.asked # "none" /\ @ = "no"
                                                       THEN "merged" ELSE @]
      BY <2>3, Zenon DEF Asked
    <3>1. v = [n EXCEPT !.page.over = IF n.page.asked # "none" /\ @ = "no"
                                        THEN "merged" ELSE @]
      BY <2>1, <3>0, Zenon
    <3> USE DEF n
    <3>2. v = [page |-> [m EXCEPT !.over = o], registry |-> w.registry]
      BY <2>2, <2>3, <3>1
    <3>3. [m EXCEPT !.over = o] = p
      BY <1>1, <1>2, <2>3 DEF Page
    <3> QED  BY <3>2, <3>3
  <2>4. CASE reason # "interval"
    <3>1. v = [n EXCEPT !.page.asked = IF @ = "wallet-action" THEN @ ELSE reason,
                        !.page.over = "no"]
      BY <2>1, <2>4 DEF Asked
    <3>2. v = [page |-> [m EXCEPT !.asked = a, !.over = o], registry |-> w.registry]
      BY <2>2, <2>4, <3>1
    <3>3. [m EXCEPT !.asked = a, !.over = o] = p
      BY <1>1, <1>2, <2>4 DEF Page
    <3> QED  BY <3>2, <3>3
  <2> QED  BY <2>3, <2>4
<1>4. Kept(w.page) => q \in {"none", "interval", a} /\ a # "interval"
                      /\ (a = "wallet-action" => q = "wallet-action")
                      /\ (a # "none" => q = a \/ (o = "merged" /\ q = "interval") \/ o = "flushed")
  BY <1>1 DEF Kept, MergeReasons, Page, Reason, Reasons
<1> HIDE DEF q, o, a
<1>5. p \in Page /\ p.queue = q /\ p.asked = a /\ p.over = o
  BY <1>1, <1>2 DEF Page
<1> HIDE DEF p, v
<1>6. Kept(p)
  BY <1>1, <1>4, <1>5 DEF Kept
<1>7. v \in [page: Page, registry: Registry] /\ v.page = p
  BY <1>1, <1>3, <1>5
<1>8. Good(v)
  BY <1>6, <1>7 DEF Good, Shaped
<1> QED
  BY <1>8 DEF v

\* Scheduling merges a reason into the queue.
LEMMA ScheduleGood ==
  ASSUME session \in Sessions, NEW w, Good(w), NEW reason \in Reasons
  PROVE  Good(Schedule(w, reason))
<1> DEFINE v == Asked([w EXCEPT !.page.queue = MergeReasons(@, reason)], reason)
           u == [v EXCEPT !.page.debounce = TRUE]
<1>1. Good(v)
  BY AskedGood
<1>2. Schedule(w, reason) \in {w, u, Note(v), Flush(v)}
  BY DEF Schedule
<1> HIDE DEF v
<1>3. Good(u)
  BY <1>1, FieldsGood DEF Reason
<1> HIDE DEF u
<1> QED
  BY <1>1, <1>2, <1>3, NoteGood, FlushGood

\* A dispatch is a schedule, at most.
LEMMA DispatchGood ==
  ASSUME session \in Sessions, NEW w, Good(w), NEW reason \in Reasons
  PROVE  Good(Dispatch(w, reason))
<1> DEFINE v == [Noted(w) EXCEPT !.page.cooling = TRUE]
<1>1. Good(Noted(w))
  BY NoteGood DEF Noted
<1>2. Good(v)
  BY <1>1, FieldsGood DEF Reason
<1>3. Dispatch(w, reason) \in {w, Note(w), Schedule(v, reason)}
  BY DEF Dispatch
<1> HIDE DEF v
<1> QED
  BY <1>2, <1>3, NoteGood, ScheduleGood

\* And the throttle a dispatch, at most.
LEMMA RealtimeGood ==
  ASSUME session \in Sessions, NEW w, Good(w), NEW reason \in Reasons
  PROVE  Good(Realtime(w, reason))
<1> DEFINE n == Noted(w)
           v == [n EXCEPT !.page.timer = reason]
<1>1. Good(n)
  BY NoteGood DEF Noted
<1>2. Realtime(w, reason) \in {Note(w), n, v, Dispatch(n, reason)}
  BY DEF Realtime
<1> HIDE DEF n
<1>3. Good(v)
  BY <1>1, FieldsGood DEF Reason
<1> HIDE DEF v
<1> QED
  BY <1>1, <1>2, <1>3, NoteGood, DispatchGood

-----------------------------------------------------------------------------
(* The steps.                                                              *)

SocketType == [status: {"new", "up", "down"}, drops: 0..MaxDrops,
               restarts: 0..MaxRestarts]

\* A page of its type with a queue that is kept.
PageGood(p) == p \in Page /\ Kept(p)

\* A callback that ends well makes a good page.
LEMMA CallbackMoves ==
  ASSUME NEW w, Good(w), Become(w)
  PROVE  PageGood(page')
  BY DEF PageGood, Good, Shaped, Become

\* So does a step that writes neither the queue nor its histories.
LEMMA QuietMoves ==
  ASSUME PageGood(page), page' \in Page, page'.queue = page.queue,
         page'.asked = page.asked, page'.over = page.over
  PROVE  PageGood(page')
  BY DEF PageGood, Kept

\* A flag of the page is no part of the queue.
LEMMA FlagsGood ==
  ASSUME NEW p, PageGood(p), NEW reason \in Reason, NEW b \in BOOLEAN
  PROVE  /\ PageGood([p EXCEPT !.timer = reason])
         /\ PageGood([p EXCEPT !.flushDue = b])
         /\ PageGood([p EXCEPT !.settled = b])
         /\ PageGood([p EXCEPT !.hidden = b])
         /\ PageGood([p EXCEPT !.owed = b])
         /\ PageGood([p EXCEPT !.polling = b])
<1> USE DEF PageGood, Kept
<1>1. p \in Page
  OBVIOUS
<1>2. PageGood([p EXCEPT !.timer = reason])
  <2>1. [p EXCEPT !.timer = reason] \in Page
    BY <1>1 DEF Page
  <2> QED  BY <1>1, <2>1 DEF Page
<1>3. PageGood([p EXCEPT !.flushDue = b]) /\ PageGood([p EXCEPT !.settled = b])
  <2>1. [p EXCEPT !.flushDue = b] \in Page /\ [p EXCEPT !.settled = b] \in Page
    BY <1>1 DEF Page
  <2> QED  BY <1>1, <2>1 DEF Page
<1>4. PageGood([p EXCEPT !.hidden = b]) /\ PageGood([p EXCEPT !.owed = b])
  <2>1. [p EXCEPT !.hidden = b] \in Page /\ [p EXCEPT !.owed = b] \in Page
    BY <1>1 DEF Page
  <2> QED  BY <1>1, <2>1 DEF Page
<1>5. PageGood([p EXCEPT !.polling = b])
  <2>1. [p EXCEPT !.polling = b] \in Page
    BY <1>1 DEF Page
  <2> QED  BY <1>1, <2>1 DEF Page
<1> QED  BY <1>2, <1>3, <1>4, <1>5

\* The world when a callback begins, and with a good page written into it.
LEMMA WorldGood ==
  ASSUME PageGood(page), registry \in Registry
  PROVE  /\ Good(World) /\ World.page = page
         /\ \A p : PageGood(p) => Good([page |-> p, registry |-> registry])
  BY DEF PageGood, Good, Shaped, World

\* The page is written into the world, and the registry stays.
LEMMA WorldWith ==
  /\ World.page = page
  /\ \A p : [World EXCEPT !.page = p] = [page |-> p, registry |-> registry]
  BY DEF World

\* A callback of the throttle, a timer or a task.
LEMMA TimerMoves ==
  ASSUME PageGood(page), registry \in Registry, session \in Sessions,
         Timers \/ Focus \/ Connected \/ Hint
  PROVE  PageGood(page')
<1> DEFINE W(p) == [page |-> p, registry |-> registry]
<1>0. /\ Good(World) /\ World = W(page)
      /\ \A p : PageGood(p) => Good(W(p))
  BY WorldGood DEF World
<1>1. CASE DebounceFires
  BY <1>0, <1>1, FlushGood, CallbackMoves DEF DebounceFires
<1>2. CASE TimerFires
  <2> DEFINE p == [page EXCEPT !.timer = "none"]
  <2>1. page.timer \in Reasons
    BY <1>2 DEF TimerFires, PageGood, Page, Reason
  <2>2. PageGood(p)
    BY FlagsGood DEF Reason
  <2>3. Become(Dispatch(W(p), page.timer))
    BY <1>2 DEF TimerFires, World
  <2> HIDE DEF p
  <2> QED
    BY <1>0, <2>1, <2>2, <2>3, DispatchGood, CallbackMoves
<1>3. CASE Cool
  BY <1>3, QuietMoves DEF Cool, PageGood, Page
<1>4. CASE FlushTask
  <2> DEFINE p == [page EXCEPT !.flushDue = FALSE]
  <2>1. PageGood(p)
    BY FlagsGood DEF Reason
  <2>2. Become(Flush(W(p)))
    <3>1. [World EXCEPT !.page.flushDue = FALSE] = W(p)
      BY WorldWith, Zenon
    <3> QED  BY <1>4, <3>1, Zenon DEF FlushTask
  <2> HIDE DEF p
  <2> QED
    BY <1>0, <2>1, <2>2, FlushGood, CallbackMoves
<1>5. CASE ActionRefresh
  <2> DEFINE q == [page EXCEPT !.settled = FALSE]
             p == [q EXCEPT !.owed = Owing]
  <2>1. PageGood(q)
    BY FlagsGood DEF Reason
  <2>2. [World EXCEPT !.page.settled = FALSE, !.page.owed = Owing] = W(p)
    BY WorldWith, Zenon
  <2>3. Become(Schedule(W(p), "wallet-action"))
    BY <1>5, <2>2 DEF ActionRefresh
  <2> HIDE DEF q
  <2>4. PageGood(p)
    BY <2>1, SyncAssumption, FlagsGood DEF Reason
  <2> HIDE DEF p
  <2> QED
    BY <1>0, <2>3, <2>4, ScheduleGood, CallbackMoves DEF Reasons
<1>6. CASE Focus
  <2> DEFINE p == [page EXCEPT !.hidden = FALSE]
  <2>1. PageGood(p)
    BY FlagsGood DEF Reason
  <2>2. Become(Realtime(W(p), "hint"))
    <3>1. [World EXCEPT !.page.hidden = FALSE] = W(p)
      BY WorldWith, Zenon
    <3> QED  BY <1>6, <3>1, Zenon DEF Focus
  <2> HIDE DEF p
  <2> QED
    BY <1>0, <2>1, <2>2, RealtimeGood, CallbackMoves DEF Reasons
<1>7. CASE Connected
  <2> DEFINE q == [page EXCEPT !.polling = @ /\ TradeRoute]
             p == [q EXCEPT !.owed = Owing]
  <2>1. (page.polling /\ TradeRoute) \in BOOLEAN
    OBVIOUS
  <2>2. PageGood(q)
    BY <2>1, FlagsGood DEF Reason
  <2>3. [World EXCEPT !.page.polling = @ /\ TradeRoute] = W(q)
    BY DEF World
  <2>4. Become(W(q)) \/ Become(Realtime([W(q) EXCEPT !.page.owed = Owing], "hint"))
    BY <1>7, <2>3, Zenon DEF Connected
  <2> HIDE DEF q
  <2>5. [W(q) EXCEPT !.page.owed = Owing] = W(p)
    <3> DEFINE w == W(q)
    <3> HIDE DEF p
    <3>1. w.page = q /\ [w EXCEPT !.page = p] = W(p)
      OBVIOUS
    <3> USE DEF p
    <3> HIDE DEF w
    <3>2. [w EXCEPT !.page.owed = Owing] = [w EXCEPT !.page = [w.page EXCEPT !.owed = Owing]]
      BY Zenon
    <3>3. [w EXCEPT !.page.owed = Owing] = W(p)
      BY <3>1, <3>2, Zenon
    <3> QED  BY <3>3 DEF w
  <2>6. PageGood(p)
    BY <2>2, SyncAssumption, FlagsGood DEF Reason
  <2> HIDE DEF p
  <2> QED
    BY <1>0, <2>2, <2>4, <2>5, <2>6, RealtimeGood, CallbackMoves DEF Reasons
<1>8. CASE Hint
  <2> DEFINE p == [page EXCEPT !.owed = Owing]
  <2>1. PageGood(p)
    BY SyncAssumption, FlagsGood DEF Reason
  <2>2. Become(Realtime(W(p), "hint"))
    <3>1. [World EXCEPT !.page.owed = Owing] = W(p)
      BY WorldWith, Zenon
    <3> QED  BY <1>8, <3>1, Zenon DEF Hint
  <2> HIDE DEF p
  <2> QED
    BY <1>0, <2>1, <2>2, RealtimeGood, CallbackMoves DEF Reasons
<1> QED
  BY <1>1, <1>2, <1>3, <1>4, <1>5, <1>6, <1>7, <1>8 DEF Timers

\* A poll interval.
LEMMA TickMoves ==
  ASSUME PageGood(page), registry \in Registry, session \in Sessions, Tick
  PROVE  PageGood(page')
<1> DEFINE w == [World EXCEPT !.registry = Aged(@)]
           v == IF page.polling THEN Realtime(w, "interval") ELSE w
           u == [v EXCEPT !.page.ticked = v.page.cooling]
<1>1. Good(w)
  BY AgedType DEF World, Shaped, Good, PageGood
<1> HIDE DEF w
<1>2. Good(v)
  BY <1>1, RealtimeGood DEF Reasons
<1>3. Become(u)
  BY DEF Tick, w
<1> HIDE DEF v
<1>4. v.page.cooling \in BOOLEAN
  BY <1>2 DEF Good, Shaped, Page
<1>5. Good(u)
  BY <1>2, <1>4, FieldsGood DEF Reason
<1> HIDE DEF u
<1> QED
  BY <1>3, <1>5, CallbackMoves

\* Reads, the socket, and an effect that starts over, leave the queue as it is.
LEMMA OtherMoves ==
  ASSUME PageGood(page), Reads \/ StartRead \/ Hide \/ Lost \/ Restart \/ Session
  PROVE  PageGood(page')
<1>0. page \in Page
  BY DEF PageGood
<1>1. CASE FetchDone
  BY <1>0, <1>1, QuietMoves DEF FetchDone, Page
<1>2. CASE EndRead \/ StartRead \/ Hide \/ Lost
  BY <1>0, <1>2, QuietMoves DEF EndRead, StartRead, Hide, Lost, Page
<1>3. PageGood(Restarted(page)) /\ Restarted(page).reader = page.reader
  BY <1>0 DEF Restarted, PageGood, Kept, Page, Reason
<1>4. CASE Restart
  BY <1>3, <1>4 DEF Restart
<1>5. CASE Session
  <2>1. CASE session' = session
    BY <1>0, <1>5, <2>1, QuietMoves DEF Session, syncVars
  <2>2. CASE session' # session
    <3> DEFINE p == Restarted(page)
               rd == IF p.reader = "idle" THEN p.reader ELSE "again"
    <3>1. page' = [p EXCEPT !.reader = rd]
      BY <1>5, <2>2 DEF Session
    <3>2. p \in Page /\ Kept(p)
      BY <1>3 DEF PageGood
    <3>3. rd \in {"idle", "reading", "again"}
      BY <3>2 DEF Page
    <3> HIDE DEF p, rd
    <3> QED  BY <3>1, <3>2, <3>3 DEF PageGood, Kept, Page
  <2> QED
    BY <2>1, <2>2
<1> QED
  BY <1>1, <1>2, <1>4, <1>5 DEF Reads

\* A flow begins or ends.
LEMMA FlowMoves ==
  ASSUME PageGood(page), NEW f \in Flows, Start(f) \/ Finish(f)
  PROVE  PageGood(page')
<1>0. page \in Page
  BY DEF PageGood
<1>1. CASE Start(f)
  BY <1>0, <1>1, QuietMoves DEF Start, syncVars
<1>2. CASE Finish(f)
  <2>1. CASE f \in DirectFlows
    BY <1>0, <1>2, <2>1, QuietMoves DEF Finish
  <2>2. CASE f \notin DirectFlows
    <3>1. PICK confirmed \in BOOLEAN :
            page' = [page EXCEPT !.flushDue = TRUE, !.settled = @ \/ confirmed]
      BY <1>2, <2>2 DEF Finish
    <3>2. page.settled \in BOOLEAN /\ (page.settled \/ confirmed) \in BOOLEAN
      BY <1>0 DEF Page
    <3> QED
      BY <1>0, <3>1, <3>2, QuietMoves DEF Page
  <2> QED
    BY <2>1, <2>2
<1> QED
  BY <1>1, <1>2

\* A new page owes nothing.
LEMMA NewPageGood == PageGood(NewPage)
  BY DEF NewPage, PageGood, Kept, Page, Reason

\* Every step keeps the page good, or reloads it.
LEMMA StepMoves ==
  ASSUME FlowInv, PageGood(page), [SyncNext]_vars
  PROVE  PageGood(page')
<1>1. registry \in Registry /\ session \in Sessions
  BY DEF FlowInv, FlowTypeOK
<1>2. CASE Timers \/ Focus \/ Connected \/ Hint
  BY <1>1, <1>2, TimerMoves
<1>3. CASE Tick
  BY <1>1, <1>3, TickMoves
<1>4. CASE Reads \/ StartRead \/ Hide \/ Lost \/ Restart \/ Session
  BY <1>4, OtherMoves
<1>5. CASE Reload
  BY <1>5, NewPageGood DEF Reload
<1>6. CASE \E f \in Flows : Start(f) \/ Finish(f)
  BY <1>6, FlowMoves
<1>7. CASE UNCHANGED vars
  BY <1>7 DEF vars
<1> QED
  BY <1>2, <1>3, <1>4, <1>5, <1>6, <1>7 DEF SyncNext

\* The socket's bounds are kept.
LEMMA SocketStep ==
  ASSUME socket \in SocketType, [SyncNext]_vars
  PROVE  socket' \in SocketType
<1>1. CASE Timers \/ Tick \/ Reads \/ Focus \/ Hide \/ Hint \/ UNCHANGED vars
  BY <1>1, Zenon DEF Timers, Reads, DebounceFires, TimerFires, Cool, FlushTask, ActionRefresh, Tick,
     FetchDone, EndRead, Focus, Hide, Hint, onlyPage, vars
<1>2. CASE StartRead
  BY <1>2 DEF StartRead
<1>3. CASE Connected
  BY <1>3 DEF Connected, SocketType
<1>4. CASE Lost
  <2>1. socket.drops + 1 \in 0..MaxDrops
    BY <1>4, SyncAssumption DEF Lost, SocketType
  <2>2. socket' = [socket EXCEPT !.status = "down", !.drops = @ + 1]
    BY <1>4 DEF Lost
  <2> QED
    BY <2>1, <2>2 DEF SocketType
<1>5. CASE Session \/ Reload
  BY <1>5 DEF Session, Reload, syncVars, SocketType
<1>7. CASE Restart
  <2>1. socket.restarts + 1 \in 0..MaxRestarts
    BY <1>7, SyncAssumption DEF Restart, SocketType
  <2>2. socket' = [socket EXCEPT !.status = "new", !.restarts = @ + 1]
    BY <1>7 DEF Restart
  <2> QED
    BY <2>1, <2>2 DEF SocketType
<1>6. CASE \E f \in Flows : Start(f) \/ Finish(f)
  BY <1>6 DEF Start, Finish, syncVars
<1> QED
  BY <1>1, <1>2, <1>3, <1>4, <1>5, <1>6, <1>7 DEF SyncNext

-----------------------------------------------------------------------------

\* The flows, the page and its queue, and the socket, whatever callbacks run.
SyncInv == FlowInv /\ PageGood(page) /\ socket \in SocketType

\* It holds throughout.
LEMMA SyncInvAlways == SyncSpec => []SyncInv
<1>1. SyncInit => SyncInv
  BY InitFlowInv, SyncAssumption, NewPageGood DEF SyncInit, SocketType, SyncInv
<1>2. SyncInv /\ [SyncNext]_vars => SyncInv'
  <2> SUFFICES ASSUME SyncInv, [SyncNext]_vars PROVE SyncInv'
    OBVIOUS
  <2>1. FlowInv' /\ PageGood(page') /\ socket' \in SocketType
    BY SyncStep, StepFlowInv, StepMoves, SocketStep DEF SyncInv
  <2> QED  BY <2>1 DEF SyncInv, PageGood, Kept
<1> QED  BY <1>1, <1>2, PTL DEF SyncSpec

\* The page, the socket and the flows have their types.
THEOREM PageTypeCorrect == SyncSpec => []SyncTypeOK
<1>1. SyncInv => SyncTypeOK
  BY DEF SyncInv, FlowInv, SyncTypeOK, SocketType, PageGood
<1> QED  BY <1>1, SyncInvAlways, PTL

\* What was asked for is in the queue until a read is started for it, or a poll tick
\* was merged after it.
THEOREM QueuedIsRead == SyncSpec => []QueueIsKept
<1>1. SyncInv => QueueIsKept
  BY DEF SyncInv, PageGood, Kept, QueueIsKept
<1> QED  BY <1>1, SyncInvAlways, PTL

\* A wallet action is in the queue, as what it is, until a read is started for it.
THEOREM WalletActionWaits == SyncSpec => []WalletActionIsKept
<1>1. SyncInv => WalletActionIsKept
  BY DEF SyncInv, PageGood, Kept, WalletActionIsKept
<1> QED  BY <1>1, SyncInvAlways, PTL
=============================================================================
