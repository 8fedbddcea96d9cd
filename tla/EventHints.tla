------------------------------ MODULE EventHints ------------------------------
(***************************************************************************)
(* The shared socket of chain-event hints (createCotiEventHintSubscriber): *)
(* listeners come and go, one socket at a time serves them all, and every  *)
(* await of its set-up may outlive the listener, the connection or the     *)
(* attempt that began it.  A listener that is told "connected" stops its   *)
(* polling, so it must then really be served.                              *)
(*                                                                         *)
(* The socket's client library is external: it opens one subscription per  *)
(* filter with handlers, sends the request after on() returns, and reports *)
(* requests and replies as debug events.  Its on() and off() take effect   *)
(* in the order of the calls, before any timer or message.                 *)
(***************************************************************************)
EXTENDS Integers, Sequences, SequencesExt

CONSTANTS
  Listeners,    \* subscriptions, each made and disposed of at most once
  Keys,         \* filters: subscriptionKey of addresses and topics
  MaxFailures   \* bound on losses, refusals and delays

ASSUME HintsAssumption == MaxFailures \in Nat

VARIABLES
  filter,   \* the filter of each subscription
  hub,      \* the subscriber: its listeners, connection, attempt, timers, acks
  wire,     \* the socket that loadProvider returns, and its library
  failures  \* spent of MaxFailures

vars == <<filter, hub, wire, failures>>

-----------------------------------------------------------------------------
(* State.  Generations begin at 1; 0 stands for none.                      *)

NewListener ==
  [phase |-> "new", told |-> "nothing", installed |-> 0, acked |-> FALSE, connected |-> 0]
NoConnection == [gen |-> 0, heartbeat |-> FALSE, blocks |-> FALSE]
NoAttempt == [phase |-> "idle", gen |-> 0]
NewWire ==
  [alive |-> TRUE, handlers |-> {}, requests |-> <<>>, sub |-> [k \in Keys |-> "none"],
   doubled |-> {}]
NewHub ==
  [generation |-> 0, connection |-> NoConnection, attempt |-> NoAttempt,
   retry |-> FALSE, health |-> FALSE, acks |-> [k \in Keys |-> "none"],
   pending |-> {}, listeners |-> [l \in Listeners |-> NewListener]]

Phases == {"idle", "load", "network", "debug", "block", "install"}
Request == [key: Keys, sent: BOOLEAN, mapped: BOOLEAN, live: BOOLEAN]

\* No listener is left installed on a connection of the past, and no connection
\* outlives its generation.
TypeOK ==
  /\ filter \in [Listeners -> Keys]
  /\ hub.generation \in Nat /\ hub.connection.gen \in Nat
  /\ hub.connection.heartbeat \in BOOLEAN /\ hub.connection.blocks \in BOOLEAN
  /\ hub.attempt.phase \in Phases /\ hub.attempt.gen \in Nat
  /\ hub.retry \in BOOLEAN /\ hub.health \in BOOLEAN
  /\ hub.acks \in [Keys -> {"none", "open", "resolved", "rejected"}]
  /\ hub.pending \subseteq Listeners
  /\ hub.listeners \in
       [Listeners -> [phase: {"new", "active", "gone"}, told: {"nothing", "reconnecting", "connected"},
                      installed: Nat, acked: BOOLEAN, connected: Nat]]
  /\ wire.alive \in BOOLEAN /\ wire.handlers \subseteq Listeners
  /\ wire.requests \in Seq(Request)
  /\ wire.sub \in [Keys -> {"none", "requested", "accepted", "refused"}]
  /\ wire.doubled \subseteq Keys
  /\ failures \in 0..MaxFailures
  /\ hub.connection.gen \in {0, hub.generation}
  /\ \A l \in Listeners : /\ hub.listeners[l].installed \in {0, hub.connection.gen}
                         /\ hub.listeners[l].connected \in {0, hub.listeners[l].installed}

Init ==
  /\ filter \in [Listeners -> Keys]
  /\ hub = NewHub
  /\ wire = NewWire
  /\ failures = 0

\* A callback of the hub: what it makes of both records.
World == [hub |-> hub, wire |-> wire]
Become(w) == hub' = w.hub /\ wire' = w.wire /\ UNCHANGED filter

Active(h) == {l \in Listeners : h.listeners[l].phase = "active"}
Up(h) == h.connection.gen # 0
Installed(h, l) == h.listeners[l].installed = h.connection.gen
KeysOf(ls) == {filter[l] : l \in ls}

-----------------------------------------------------------------------------
(* The library.                                                            *)

\* on() for these listeners: a filter that had no handler is requested.  doubled
\* is history: the filters requested while an earlier request of theirs, whose
\* handlers went, had still to be sent.
On(w, ls) ==
  LET fresh == KeysOf(ls) \ KeysOf(w.wire.handlers)
      request(k) == [key |-> k, sent |-> FALSE, mapped |-> FALSE, live |-> TRUE]
      order == SetToSeq(fresh)
      waiting == {r \in ToSet(w.wire.requests) : ~r.sent}
  IN [w EXCEPT !.wire.handlers = @ \cup ls,
               !.wire.doubled = @ \cup {k \in fresh : \E r \in waiting : r.key = k},
               !.wire.sub = [k \in Keys |-> IF k \in fresh THEN "requested" ELSE @[k]],
               !.wire.requests = @ \o [i \in 1..Len(order) |-> request(order[i])]]

\* off(): the subscription goes with its last handler.
Off(w, l) ==
  LET rest == w.wire.handlers \ {l}
      unhandled(r) == [r EXCEPT !.live = @ /\ r.key \in KeysOf(rest)]
  IN IF l \notin w.wire.handlers THEN w
     ELSE [w EXCEPT !.wire.handlers = rest,
            !.wire.sub = [k \in Keys |-> IF k \in KeysOf(rest) THEN @[k] ELSE "none"],
            !.wire.requests = [i \in DOMAIN @ |-> unhandled(@[i])]]

\* A request waits for no round trip: it is out before a reply to anything comes.
Drained == \A i \in DOMAIN wire.requests : wire.requests[i].sent

-----------------------------------------------------------------------------
(* The hub's helpers.                                                      *)

\* Acks are rejected and forgotten: the installs that wait for them return, and
\* their rpcIds with them.
DropAcks(w, ks) ==
  LET untied(r) == [r EXCEPT !.mapped = @ /\ r.key \notin ks]
  IN [w EXCEPT !.hub.acks = [k \in Keys |-> IF k \in ks THEN "none" ELSE @[k]],
               !.hub.pending = {l \in @ : filter[l] \notin ks},
               !.wire.requests = [i \in DOMAIN @ |-> untied(@[i])]]

\* A plausible mistake: the last listener of a filter leaves its ack behind.
RemoveKeepsAck(w, l) ==
  IF w.hub.listeners[l].installed = 0 THEN w
  ELSE Off([w EXCEPT !.hub.listeners[l].installed = 0, !.hub.listeners[l].acked = FALSE,
                     !.hub.listeners[l].connected = 0], l)

\* remove, of a listener that is no longer active.
RemoveListener(w, l) ==
  LET v == Off([w EXCEPT !.hub.listeners[l].installed = 0, !.hub.listeners[l].acked = FALSE,
                         !.hub.listeners[l].connected = 0], l)
      shared == \E o \in Active(w.hub) : w.hub.listeners[o].installed # 0 /\ filter[o] = filter[l]
  IN CASE w.hub.listeners[l].installed = 0 -> w
       [] w.hub.listeners[l].installed # 0 /\ Up(w.hub) /\ ~shared -> DropAcks(v, {filter[l]})
       [] OTHER -> v

\* publishConnected, for every listener.
Publish(h) ==
  LET ready(l) == /\ Up(h) /\ h.connection.heartbeat /\ l \in Active(h)
                  /\ h.listeners[l].acked /\ Installed(h, l)
                  /\ h.listeners[l].connected # h.connection.gen
  IN [h EXCEPT !.listeners = [l \in Listeners |->
        IF ready(l) THEN [@[l] EXCEPT !.told = "connected", !.connected = h.connection.gen]
        ELSE @[l]]]

\* A plausible mistake: the listeners of a lost connection stay installed.
LoseKeepsListeners(w) ==
  [wire |-> NewWire,
   hub |-> [w.hub EXCEPT !.connection = NoConnection, !.generation = @ + 1,
              !.retry = Active(w.hub) # {}, !.health = FALSE, !.pending = {},
              !.acks = NewHub.acks]]

QueueReconnect(w) == [w EXCEPT !.hub.retry = @ \/ Active(w.hub) # {}]

\* loseConnection: every listener is removed and told, and resetProvider leaves a
\* new socket for the next attempt.
Lose(w) ==
  LET lost(l) == [w.hub.listeners[l] EXCEPT !.told = "reconnecting", !.installed = 0,
                                            !.acked = FALSE, !.connected = 0]
  IN QueueReconnect(
       [wire |-> NewWire,
        hub |-> [w.hub EXCEPT !.connection = NoConnection, !.generation = @ + 1,
                  !.retry = FALSE, !.health = FALSE, !.pending = {}, !.acks = NewHub.acks,
                  !.listeners = [l \in Listeners |-> IF l \in Active(w.hub) THEN lost(l) ELSE @[l]]]])

\* install, for every listener that is not installed on this connection.
InstallAll(w) ==
  LET ls == {l \in Active(w.hub) : ~Installed(w.hub, l)}
  IN On([w EXCEPT
           !.hub.pending = @ \cup ls,
           !.hub.acks = [k \in Keys |-> IF k \in KeysOf(ls) /\ @[k] = "none" THEN "open" ELSE @[k]],
           !.hub.listeners = [l \in Listeners |->
             IF l \in ls THEN [@[l] EXCEPT !.installed = w.hub.connection.gen, !.acked = FALSE]
             ELSE @[l]]], ls)

\* connect.
Connect(w) ==
  CASE w.hub.attempt.phase # "idle" \/ Active(w.hub) = {} -> w
    [] w.hub.attempt.phase = "idle" /\ Active(w.hub) # {} /\ Up(w.hub) -> InstallAll(w)
    [] OTHER -> [w EXCEPT !.hub.generation = @ + 1,
                          !.hub.attempt = [phase |-> "load", gen |-> w.hub.generation + 1]]

\* A plausible mistake: the attempt ends without a look at who came meanwhile.
FinallyForgets(w) ==
  LET v == [w EXCEPT !.hub.attempt = NoAttempt]
  IN IF Up(v.hub) THEN v ELSE QueueReconnect(v)

\* The finally of an attempt.
Finally(w) ==
  LET v == [w EXCEPT !.hub.attempt = NoAttempt]
  IN IF ~Up(v.hub) THEN QueueReconnect(v)
     ELSE IF \E l \in Active(v.hub) : ~Installed(v.hub, l) THEN Connect(v) ELSE v

\* The catch of an attempt.
Throw(w) == Finally(IF w.hub.attempt.gen = w.hub.generation THEN Lose(w) ELSE w)

-----------------------------------------------------------------------------
(* Listeners.                                                              *)

Subscribe(l) ==
  /\ hub.listeners[l].phase = "new"
  /\ LET w == [World EXCEPT !.hub.listeners[l].phase = "active",
                            !.hub.listeners[l].told = "reconnecting"]
     IN Become(IF hub.retry THEN w ELSE Connect(w))
  /\ UNCHANGED failures

\* A plausible mistake: the last listener leaves its timers running.
DisposeKeepsTimers(l) ==
  /\ hub.listeners[l].phase = "active"
  /\ LET v == RemoveListener([World EXCEPT !.hub.listeners[l].phase = "gone"], l)
     IN Become(IF Active(v.hub) # {} THEN v
               ELSE DropAcks([v EXCEPT !.hub.generation = @ + 1,
                                       !.hub.connection = NoConnection], Keys))
  /\ UNCHANGED failures

\* The function that subscribe returns; the last one to go closes the hub, and
\* leaves the socket to the next.
Dispose(l) ==
  /\ hub.listeners[l].phase = "active"
  /\ LET v == RemoveListener([World EXCEPT !.hub.listeners[l].phase = "gone"], l)
     IN Become(IF Active(v.hub) # {} THEN v
               ELSE DropAcks([v EXCEPT !.hub.generation = @ + 1, !.hub.retry = FALSE,
                                       !.hub.health = FALSE,
                                       !.hub.connection = NoConnection], Keys))
  /\ UNCHANGED failures

-----------------------------------------------------------------------------
(* The attempt, from await to await.                                       *)

At(phase) == hub.attempt.phase = phase
Then(phase) == [World EXCEPT !.hub.attempt.phase = phase]
Stale == hub.attempt.gen # hub.generation \/ Active(hub) = {}

Loaded ==
  /\ At("load")
  /\ Become(IF Stale THEN Finally(World) ELSE Then("network"))
  /\ UNCHANGED failures

Network ==
  /\ At("network") /\ wire.alive /\ Drained
  /\ Become(IF Stale THEN Finally(World)
            ELSE [Then("debug") EXCEPT
                    !.hub.connection = [gen |-> hub.attempt.gen, heartbeat |-> FALSE,
                                        blocks |-> FALSE]])
  /\ UNCHANGED failures

DebugOn ==
  /\ At("debug")
  /\ Become(IF Up(hub) THEN [Then("block") EXCEPT !.hub.connection.blocks = TRUE]
            ELSE Finally(World))
  /\ UNCHANGED failures

BlockOn ==
  /\ At("block")
  /\ Become(IF ~Up(hub) THEN Finally(World)
            ELSE InstallAll([Then("install") EXCEPT
                               !.hub.health = @ \/ ~hub.connection.heartbeat]))
  /\ UNCHANGED failures

\* Every install of the attempt has returned.
Settled ==
  /\ At("install") /\ hub.pending = {}
  /\ Become(Finally(World))
  /\ UNCHANGED failures

-----------------------------------------------------------------------------
(* Failures: of a live socket they are bounded, of a dead one certain.     *)

Fail == IF wire.alive THEN failures < MaxFailures /\ failures' = failures + 1
        ELSE UNCHANGED failures

\* A set-up step times out, or the network is another chain.
SetupFails ==
  /\ \E phase \in {"load", "network", "debug", "block"} : At(phase)
  /\ Fail
  /\ Become(Throw(World))

\* The connection is lost under the attempt, if it was the attempt's.
Throws(w) == IF At("install") THEN Throw(w) ELSE Lose(w)

InstallFails(l) ==
  /\ l \in hub.pending
  /\ IF hub.acks[filter[l]] = "rejected" THEN UNCHANGED failures ELSE Fail
  /\ Become(IF l \in Active(hub) THEN Throws(World)
            ELSE [World EXCEPT !.hub.pending = @ \ {l}])

InstallDone(l) ==
  /\ l \in hub.pending /\ hub.acks[filter[l]] = "resolved"
  /\ LET h == [hub EXCEPT !.pending = @ \ {l}]
     IN hub' = IF l \in Active(hub) THEN Publish([h EXCEPT !.listeners[l].acked = TRUE]) ELSE h
  /\ UNCHANGED <<filter, wire, failures>>

HealthFires ==
  /\ hub.health
  /\ Fail
  /\ Become(Lose(World))

\* The socket closes, under a connection or while nobody looks.
Close ==
  /\ wire.alive /\ Fail
  /\ Become(IF Up(hub) THEN Lose(World) ELSE [World EXCEPT !.wire.alive = FALSE])

\* It goes silent instead.
Silence ==
  /\ wire.alive /\ Fail
  /\ wire' = [wire EXCEPT !.alive = FALSE]
  /\ UNCHANGED <<filter, hub>>

-----------------------------------------------------------------------------
(* Timers and messages.                                                    *)

RetryFires ==
  /\ hub.retry
  /\ Become(Connect([World EXCEPT !.hub.retry = FALSE]))
  /\ UNCHANGED failures

\* A plausible mistake: the first block stops the watch for the next.
BeatsOnce ==
  /\ wire.alive /\ Up(hub) /\ hub.connection.blocks
  /\ hub' = Publish([hub EXCEPT !.connection.heartbeat = TRUE, !.health = FALSE])
  /\ UNCHANGED <<filter, wire, failures>>

\* heartbeat, at a block of this connection.
Heartbeat ==
  /\ wire.alive /\ Up(hub) /\ hub.connection.blocks
  /\ hub' = Publish([hub EXCEPT !.connection.heartbeat = TRUE, !.health = TRUE])
  /\ UNCHANGED <<filter, wire, failures>>

\* The next request goes out; onDebug ties it to the ack of its filter.
Send ==
  /\ wire.alive
  /\ \E i \in DOMAIN wire.requests :
       /\ ~wire.requests[i].sent /\ \A j \in 1..(i - 1) : wire.requests[j].sent
       /\ wire' = [wire EXCEPT !.requests[i].sent = TRUE,
                               !.requests[i].mapped =
                                 Up(hub) /\ hub.acks[wire.requests[i].key] # "none"]
  /\ UNCHANGED <<filter, hub, failures>>

\* A promise settles once.
Settle(acks, ks, outcome) ==
  [k \in Keys |-> IF k \in ks /\ acks[k] = "open" THEN outcome ELSE acks[k]]

\* The reply to one request; onDebug settles the ack it is tied to.
Reply(i, accepted) ==
  LET r == wire.requests[i]
  IN /\ wire.alive /\ Drained
     /\ wire' = [wire EXCEPT !.requests = RemoveAt(@, i),
                   !.sub[r.key] = IF ~r.live THEN @
                                  ELSE IF accepted THEN "accepted" ELSE "refused"]
     /\ hub' = IF r.mapped
                 THEN [hub EXCEPT !.acks = Settle(@, {r.key},
                         IF accepted THEN "resolved" ELSE "rejected")]
                 ELSE hub
     /\ UNCHANGED filter

Accepted == \E i \in DOMAIN wire.requests : Reply(i, TRUE) /\ UNCHANGED failures
Refused == \E i \in DOMAIN wire.requests : Reply(i, FALSE) /\ Fail

\* receiveRpcError fails every request under way.
RpcError ==
  LET mapped == {i \in DOMAIN wire.requests : wire.requests[i].mapped}
  IN /\ wire.alive /\ Drained /\ mapped # {} /\ Fail
     /\ hub' = [hub EXCEPT !.acks =
                  Settle(@, {wire.requests[i].key : i \in mapped}, "rejected")]
     /\ wire' = [wire EXCEPT !.requests =
                   [i \in DOMAIN @ |-> [@[i] EXCEPT !.mapped = FALSE]]]
     /\ UNCHANGED filter

Steps == Loaded \/ Network \/ DebugOn \/ BlockOn \/ Settled \/ RetryFires
Installs == \E l \in Listeners : InstallDone(l) \/ InstallFails(l)
Messages == Heartbeat \/ Send \/ Accepted
Losses == SetupFails \/ HealthFires \/ Close \/ Silence \/ Refused \/ RpcError

Next ==
  \/ Steps \/ Installs \/ Messages \/ Losses
  \/ \E l \in Listeners : Subscribe(l) \/ Dispose(l)

Spec == Init /\ [][Next]_vars

\* Awaits, timers and a live socket go on; a dead one runs into its time-outs.
FairSpec ==
  /\ Spec
  /\ WF_vars(Loaded) /\ WF_vars(Network) /\ WF_vars(DebugOn) /\ WF_vars(BlockOn)
  /\ WF_vars(Settled) /\ WF_vars(RetryFires)
  /\ WF_vars(Heartbeat) /\ WF_vars(Send) /\ WF_vars(Accepted)
  /\ \A l \in Listeners :
       /\ WF_vars(InstallDone(l))
       /\ WF_vars(InstallFails(l) /\ (~wire.alive \/ hub.acks[filter[l]] = "rejected"))
  /\ WF_vars(SetupFails /\ ~wire.alive) /\ WF_vars(HealthFires /\ ~wire.alive)

-----------------------------------------------------------------------------
(* Properties.                                                             *)

Told(l) == l \in Active(hub) /\ hub.listeners[l].told = "connected"

\* A listener that is told it is connected is served: its handler is on the
\* connection of this instant, a block has been seen there, and the node has
\* accepted the subscription of its filter.  The last is not so of a filter that
\* was requested twice at once: there the node may have answered the request that
\* nobody waits for any more.
ConnectedIsServed ==
  \A l \in Listeners : Told(l) =>
    /\ Up(hub) /\ hub.connection.heartbeat /\ l \in wire.handlers
    /\ wire.sub[filter[l]] = "accepted" \/ filter[l] \in wire.doubled

\* The same of every filter, as subscribe's callers rely on it when they stop
\* polling: the code does not keep this.
ConnectedIsAccepted ==
  \A l \in Listeners : Told(l) => wire.sub[filter[l]] = "accepted"

\* With the last listener go the connection, the timers and every handler: those
\* of the listeners' filters, and with the connection those of its blocks and its
\* debug events.
IdleIsQuiet ==
  Active(hub) = {} => ~Up(hub) /\ ~hub.retry /\ ~hub.health /\ wire.handlers = {}

\* A listener that stays is connected eventually, whatever was lost, refused or
\* disposed of under it.
SubscribedIsConnected ==
  \A l \in Listeners : l \in Active(hub) ~> l \notin Active(hub) \/ Told(l)

\* A socket that died without a word is noticed: those it served are told.
SilenceIsNoticed ==
  \A l \in Listeners : Told(l) /\ ~wire.alive ~> ~Told(l)
=============================================================================
