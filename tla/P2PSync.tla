------------------------------- MODULE P2PSync -------------------------------
(***************************************************************************)
(* Keeping the trading page fresh: hints of the event socket, focus and    *)
(* poll ticks pass a burst throttle (useP2PRealtimeSync) into a queue that *)
(* coalesces them (useP2PSyncQueue) and starts silent reads, except while  *)
(* a foreground read is busy or a wallet flow is active.                   *)
(*                                                                         *)
(* All of it runs in timers and callbacks of one page.  Time is abstract:  *)
(* the throttle (1500 ms) outlasts the debounce (250 ms) it starts with,   *)
(* a poll interval (30 s), the unit of a flow entry's lifetime, outlasts   *)
(* the throttle, and nothing else is ordered.                              *)
(***************************************************************************)
EXTENDS WalletFlow

CONSTANTS
  TradeRoute,  \* TRUE: a trade is selected, and polling goes on under a healthy socket
  DirectFlows, \* flows run without the trading page's prompt flow, e.g. liquidity actions
  MaxDrops,    \* bound on losses of the socket
  MaxRestarts, \* bound on restarts of the effect that listens
  Owing        \* TRUE: follow what is owed to the readers, as the liveness asks

ASSUME SyncAssumption ==
  /\ TradeRoute \in BOOLEAN /\ DirectFlows \subseteq Flows
  /\ Owing \in BOOLEAN /\ MaxDrops \in Nat /\ MaxRestarts \in Nat

VARIABLES
  page,  \* the page's refs, timers and readers
  socket \* the event socket and what was spent of the bounds

syncVars == <<page, socket>>
vars == <<flowVars, page, socket>>

-----------------------------------------------------------------------------
(* The page.                                                               *)

\* A hint stands for focus and chain-event, which nothing here tells apart.
Reasons == {"hint", "interval", "wallet-action"}
Reason == Reasons \cup {"none"}

\* queue: the reason of queuedTradeDataRefreshRef; debounce: p2pSyncTimerRef;
\* timer: the reason realtimeSyncTimerId waits with; cooling: less than the
\* throttle since the last dispatch; ticked: a poll interval ended meanwhile;
\* flushDue: a flush task is on its way; settled: a confirmed action has not asked
\* for its refresh yet; reader: the silent readers.  Three histories: owed, a hint or
\* action that no silent read has covered, followed where Owing says so; asked, the
\* last reason other than a poll tick, or a wallet action, that was scheduled and no
\* read was started for since; over, whether a tick was merged after it, and a flush
\* then found the page busy.
Page ==
  [queue: Reason, debounce: BOOLEAN, timer: Reason, cooling: BOOLEAN, ticked: BOOLEAN,
   polling: BOOLEAN, hidden: BOOLEAN, busy: BOOLEAN, flushDue: BOOLEAN, settled: BOOLEAN,
   reader: {"idle", "reading", "again"}, owed: BOOLEAN,
   asked: Reason, over: {"no", "merged", "flushed"}]

NewPage ==
  [queue |-> "none", debounce |-> FALSE, timer |-> "none", cooling |-> FALSE,
   ticked |-> FALSE, polling |-> TRUE, hidden |-> FALSE, busy |-> FALSE, flushDue |-> FALSE,
   settled |-> FALSE, reader |-> "idle", owed |-> FALSE, asked |-> "none", over |-> "no"]

\* What a callback of the page may change: its refs, and the entry it records.
World == [page |-> page, registry |-> registry]
Become(w) == page' = w.page /\ registry' = w.registry

Held(w) == FlowActive(w.registry)
Note(w) == [w EXCEPT !.registry = Stage(@, session)]

-----------------------------------------------------------------------------
(* The queue.                                                              *)

\* A plausible mistake: the latest reason wins.
MergeLatest(previous, next) == next

\* mergeP2PSyncReasons, for the reasons the page schedules.
MergeReasons(previous, next) == IF previous = "wallet-action" THEN previous ELSE next

\* What was asked for, and whether a poll tick came after it.
Asked(w, reason) ==
  IF reason = "interval"
    THEN [w EXCEPT !.page.over = IF w.page.asked # "none" /\ @ = "no" THEN "merged" ELSE @]
    ELSE [w EXCEPT !.page.asked = IF @ = "wallet-action" THEN @ ELSE reason,
                   !.page.over = "no"]

\* runP2PSyncRequest: a reader that is reading will read once more.
Run(w) ==
  [w EXCEPT !.page.queue = "none",
            !.page.reader = IF @ = "idle" THEN "reading" ELSE "again",
            !.page.owed = @ /\ w.page.reader # "idle",
            !.page.asked = "none", !.page.over = "no"]

\* A plausible mistake: a busy page drops whatever is queued.
BusyDrops(w) ==
  [w EXCEPT !.page.queue = "none", !.page.over = IF @ = "merged" THEN "flushed" ELSE @]

\* A busy page keeps the queue, unless it is a poll tick.
Busy(w) ==
  [w EXCEPT !.page.queue = IF @ = "interval" THEN "none" ELSE @,
            !.page.over = IF @ = "merged" THEN "flushed" ELSE @]

\* flushQueuedP2PSync.
Flush(w) ==
  LET v == [w EXCEPT !.page.debounce = FALSE]
  IN CASE w.page.queue = "none" -> v
       [] w.page.queue # "none" /\ w.page.busy -> Busy(v)
       [] w.page.queue # "none" /\ ~w.page.busy /\ Held(w) -> Note(v)
       [] OTHER -> Run(v)

\* scheduleP2PSync.
Schedule(w, reason) ==
  LET v == Asked([w EXCEPT !.page.queue = MergeReasons(@, reason)], reason)
  IN CASE reason = "interval" /\ w.page.busy -> w
       [] (reason # "interval" \/ ~w.page.busy) /\ Held(w) -> Note(v)
       [] reason = "wallet-action" /\ ~Held(w) -> Flush(v)
       [] OTHER -> [v EXCEPT !.page.debounce = TRUE]

-----------------------------------------------------------------------------
(* The throttle.                                                           *)

\* A flow holds back poll ticks here; other reasons go on to the queue.
Stops(w, reason) == Held(w) /\ reason = "interval"

\* A plausible mistake: the stage is recorded whether or not a flow is active.
AlwaysNoted(w) == Note(w)

Noted(w) == IF Held(w) THEN Note(w) ELSE w

\* dispatchRealtimeSync.
Dispatch(w, reason) ==
  CASE w.page.hidden -> w
    [] ~w.page.hidden /\ Stops(w, reason) -> Note(w)
    [] OTHER -> Schedule([Noted(w) EXCEPT !.page.cooling = TRUE], reason)

\* scheduleRealtimeSync: at once, or when the throttle is over, with the reason
\* that came first.
Realtime(w, reason) ==
  CASE Stops(w, reason) -> Note(w)
    [] ~Stops(w, reason) /\ w.page.timer # "none" -> Noted(w)
    [] ~Stops(w, reason) /\ w.page.timer = "none" /\ w.page.cooling ->
         [Noted(w) EXCEPT !.page.timer = reason]
    [] OTHER -> Dispatch(Noted(w), reason)

-----------------------------------------------------------------------------
(* Timers, readers and tasks.                                              *)

SyncTypeOK ==
  /\ FlowTypeOK
  /\ page \in Page
  /\ socket \in [status: {"new", "up", "down"}, drops: 0..MaxDrops,
                restarts: 0..MaxRestarts]

SyncInit ==
  /\ FlowInit
  /\ page = NewPage
  /\ socket = [status |-> "new", drops |-> 0, restarts |-> 0]

onlyPage == <<session, waiting, running, refresh, changes, socket>>

DebounceFires ==
  /\ page.debounce
  /\ Become(Flush(World))
  /\ UNCHANGED onlyPage

TimerFires ==
  /\ page.timer # "none" /\ ~page.cooling
  /\ Become(Dispatch([World EXCEPT !.page.timer = "none"], page.timer))
  /\ UNCHANGED onlyPage

Cool ==
  /\ page.cooling /\ ~page.debounce
  /\ page' = [page EXCEPT !.cooling = FALSE, !.ticked = FALSE]
  /\ UNCHANGED <<registry, onlyPage>>

\* One poll interval: stored entries age, and the poll fallback ticks if it is on.
Tick ==
  /\ ~page.ticked
  /\ LET w == [World EXCEPT !.registry = Aged(@)]
         v == IF page.polling THEN Realtime(w, "interval") ELSE w
     IN Become([v EXCEPT !.page.ticked = v.page.cooling])
  /\ UNCHANGED onlyPage

\* The effect of p2pReadsBusy, and the task the prompt flow leaves behind.
FlushTask ==
  /\ page.flushDue
  /\ Become(Flush([World EXCEPT !.page.flushDue = FALSE]))
  /\ UNCHANGED onlyPage

\* refreshTradeDataInBackground after a confirmed action.
ActionRefresh ==
  /\ page.settled
  /\ Become(Schedule([World EXCEPT !.page.settled = FALSE, !.page.owed = Owing],
                     "wallet-action"))
  /\ UNCHANGED onlyPage

\* A silent read ends, and starts over if it was asked for again meanwhile.  So it
\* is with the lists; the reader of one trade does not wait for the read before it.
FetchDone ==
  /\ page.reader # "idle"
  /\ page' = IF page.reader = "again"
               THEN [page EXCEPT !.reader = "reading", !.owed = FALSE]
               ELSE [page EXCEPT !.reader = "idle"]
  /\ UNCHANGED <<registry, onlyPage>>

\* Foreground reads: p2pReadsBusy.
StartRead ==
  /\ ~page.busy
  /\ page' = [page EXCEPT !.busy = TRUE]
  /\ UNCHANGED <<flowVars, socket>>

EndRead ==
  /\ page.busy
  /\ page' = [page EXCEPT !.busy = FALSE, !.flushDue = TRUE]
  /\ UNCHANGED <<flowVars, socket>>

\* handleVisibilityOrFocus.
Focus ==
  /\ Become(Realtime([World EXCEPT !.page.hidden = FALSE], "hint"))
  /\ UNCHANGED onlyPage
Hide ==
  /\ page' = [page EXCEPT !.hidden = TRUE]
  /\ UNCHANGED <<registry, onlyPage>>

-----------------------------------------------------------------------------
(* The event socket.                                                       *)

onlySocket == <<session, waiting, running, refresh, changes>>

\* A plausible mistake: a healthy socket stops the poll of the selected trade too.
ConnectedStopsPolling ==
  /\ socket.status # "up"
  /\ LET w == [World EXCEPT !.page.polling = FALSE]
     IN Become(IF socket.status = "down"
                 THEN Realtime([w EXCEPT !.page.owed = Owing], "hint") ELSE w)
  /\ socket' = [socket EXCEPT !.status = "up"]
  /\ UNCHANGED onlySocket

\* onStatus connected: what the socket missed while it was lost is owed.
Connected ==
  /\ socket.status # "up"
  /\ LET w == [World EXCEPT !.page.polling = @ /\ TradeRoute]
     IN Become(IF socket.status = "down"
                 THEN Realtime([w EXCEPT !.page.owed = Owing], "hint") ELSE w)
  /\ socket' = [socket EXCEPT !.status = "up"]
  /\ UNCHANGED onlySocket

\* onStatus reconnecting.
Lost ==
  /\ socket.status = "up" /\ socket.drops < MaxDrops
  /\ page' = [page EXCEPT !.polling = TRUE]
  /\ socket' = [socket EXCEPT !.status = "down", !.drops = @ + 1]
  /\ UNCHANGED flowVars

\* onHint.
Hint ==
  /\ socket.status = "up"
  /\ Become(Realtime([World EXCEPT !.page.owed = Owing], "hint"))
  /\ UNCHANGED onlyPage

-----------------------------------------------------------------------------
(* Flows of the page.                                                      *)

\* The stage a trading flow records first is recorded by Begin already.
Start(f) ==
  /\ BeginFlow(f)
  /\ UNCHANGED syncVars

\* runTradeWalletPromptFlow: a flush follows its flow, and a refresh its success.
Finish(f) ==
  /\ EndFlow(f)
  /\ IF f \in DirectFlows THEN UNCHANGED page
     ELSE \E confirmed \in BOOLEAN :
            page' = [page EXCEPT !.flushDue = TRUE, !.settled = @ \/ confirmed]
  /\ UNCHANGED socket

\* The effect of useP2PRealtimeSync starts over, with a throttle and a listener of
\* its own; the queue is not its own.
Restarted(p) ==
  [p EXCEPT !.timer = "none", !.cooling = FALSE, !.ticked = FALSE, !.polling = TRUE]

\* It does on another route of the same kind, or when a callback is a new one ...
Restart ==
  /\ socket.restarts < MaxRestarts
  /\ page' = Restarted(page)
  /\ socket' = [socket EXCEPT !.status = "new", !.restarts = @ + 1]
  /\ UNCHANGED flowVars

\* ... and when the wallet's session changes, whose readers will read once more.
Session ==
  /\ WalletStep
  /\ IF session' = session THEN UNCHANGED syncVars
     ELSE /\ page' = [Restarted(page) EXCEPT !.reader = IF @ = "idle" THEN @ ELSE "again"]
          /\ socket' = [socket EXCEPT !.status = "new"]

Reload ==
  /\ ReloadFlows
  /\ page' = NewPage
  /\ socket' = [socket EXCEPT !.status = "new"]

Timers == DebounceFires \/ TimerFires \/ Cool \/ FlushTask \/ ActionRefresh
Reads == FetchDone \/ EndRead

SyncNext ==
  \/ Timers \/ Tick \/ Reads
  \/ StartRead \/ Focus \/ Hide
  \/ Connected \/ Lost \/ Hint
  \/ Restart \/ Session \/ Reload
  \/ \E f \in Flows : Start(f) \/ Finish(f)

SyncSpec == SyncInit /\ [][SyncNext]_vars

\* Fairness of the browser's timers and tasks, and of reads and prompts, which
\* end: the first by their time-outs, the second because the user answers them.
FairSync ==
  /\ SyncSpec
  /\ WF_vars(DebounceFires) /\ WF_vars(TimerFires) /\ WF_vars(Cool) /\ WF_vars(FlushTask)
  /\ WF_vars(ActionRefresh) /\ WF_vars(Tick) /\ WF_vars(FetchDone) /\ WF_vars(EndRead)
  /\ WF_vars(Connected)
  /\ \A f \in Flows : WF_vars(Finish(f))

-----------------------------------------------------------------------------
(* Properties.                                                             *)

\* What was asked for is in the queue until a read is started for it, whatever is
\* scheduled, flushed, held, busy or switched meanwhile: under its own name, or under
\* that of a poll tick that was merged after it.  Only then may it go unread, if a
\* flush finds the page busy and drops the tick.
QueueIsKept ==
  page.asked # "none" =>
    \/ page.queue = page.asked
    \/ page.over = "merged" /\ page.queue = "interval"
    \/ page.over = "flushed"

\* What the comment in dispatchRealtimeSync says of the queue: it holds hints while
\* readers are busy.  The code does not, see above.
HintsAreHeld == page.asked # "none" => page.queue # "none"

\* The refresh after a confirmed action is not lost in that way: it is queued as
\* what it is until a read is started for it.
WalletActionIsKept == page.asked = "wallet-action" => page.queue = "wallet-action"

\* The page treats the flows as it must: to it they are what WalletFlow says, and
\* its readers do no more to their registry than trace the flows they wait for.
OnlyTraces == FlowInit /\ [][FlowNext]_flowVars

\* Foreground reads that never cease may keep the silent ones out.
NeverAtRest == []<>page.busy

\* On the page of a trade every hint is eventually followed by a silent read,
\* unless the page stays hidden or foreground reads never cease.
HintIsServed == NeverAtRest \/ (page.owed ~> ~page.owed \/ page.hidden)

\* Once no flow runs, what the registry still stores of one expires.
StaleExpires ==
  (\A f \in Flows : running[f] = NotRunning) ~>
    ~FlowActive(registry) \/ \E f \in Flows : running[f] # NotRunning

\* What happened while the socket was lost is read after it is back, with the same
\* exceptions, or unless the socket is lost again.
GapIsReconciled ==
  \/ NeverAtRest
  \/ page.owed /\ socket.status = "up" ~> ~page.owed \/ page.hidden \/ socket.status # "up"
=============================================================================
