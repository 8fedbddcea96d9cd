-------------------------- MODULE EventHints_proofs --------------------------
(***************************************************************************)
(* What the socket of chain-event hints promises, for any listeners,       *)
(* filters and failures: the types, that nothing runs on without a         *)
(* listener, and that a listener that is told it is connected is served.   *)
(*                                                                         *)
(* The last is an argument from the ack back to the wire: an ack is        *)
(* resolved by the reply to a request that a handler still waits for, and  *)
(* is forgotten with the last handler of its filter; until then no second  *)
(* request of the filter is under way that could be refused.  Of a filter  *)
(* that was requested again while its first request had still to be sent,  *)
(* this is not so, and only the rest is proved: hints_ack shows why.       *)
(***************************************************************************)
EXTENDS EventHints, FiniteSetTheorems, SequenceTheorems, TLAPS

Told3 == {"nothing", "reconnecting", "connected"}
AckStates == {"none", "open", "resolved", "rejected"}
Listener == [phase : {"new", "active", "gone"}, told : Told3, installed : Nat,
             acked : BOOLEAN, connected : Nat]
Hubs == [generation : Nat, connection : [gen : Nat, heartbeat : BOOLEAN, blocks : BOOLEAN],
         attempt : [phase : Phases, gen : Nat], retry : BOOLEAN, health : BOOLEAN,
         acks : [Keys -> AckStates], pending : SUBSET Listeners,
         listeners : [Listeners -> Listener]]
Wires == [alive : BOOLEAN, handlers : SUBSET Listeners, requests : Seq(Request),
          sub : [Keys -> {"none", "requested", "accepted", "refused"}],
          doubled : SUBSET Keys]
Worlds == [hub : Hubs, wire : Wires]

(* Listeners belong to the connection there is, and the library has the    *)
(* handlers of those that are installed.                                   *)
Connected(w) ==
  /\ w.hub.connection.gen \in {0, w.hub.generation}
  /\ w.hub.attempt.phase \in {"load", "network"} => ~Up(w.hub)
  /\ \A l \in Listeners :
       /\ w.hub.listeners[l].installed \in {0, w.hub.connection.gen}
       /\ w.hub.listeners[l].connected \in {0, w.hub.listeners[l].installed}
       /\ w.hub.listeners[l].acked => w.hub.listeners[l].installed # 0
       /\ w.hub.listeners[l].installed # 0 => w.hub.listeners[l].phase = "active"
       /\ l \in w.hub.pending /\ w.hub.listeners[l].phase = "active" =>
            w.hub.listeners[l].installed # 0
       /\ l \in w.hub.pending => w.hub.listeners[l].phase # "new"
       /\ l \in w.wire.handlers <=> w.hub.listeners[l].installed # 0

(* Without a listener there is no connection and no timer. *)
Quiet(w) ==
  /\ IsFiniteSet(Active(w.hub))
  /\ Active(w.hub) = {} => ~Up(w.hub) /\ ~w.hub.retry /\ ~w.hub.health

(* A filter has one live request at most, and a handler that waits for it. *)
Requested(w) ==
  /\ \A i \in DOMAIN w.wire.requests :
       w.wire.requests[i].live => w.wire.requests[i].key \in KeysOf(w.wire.handlers)
  /\ \A i, j \in DOMAIN w.wire.requests :
       /\ w.wire.requests[i].live /\ w.wire.requests[j].live
       /\ w.wire.requests[i].key = w.wire.requests[j].key
       => i = j

(* A request is waited for if it is tied to an ack, or is still to be      *)
(* sent and tied then, for a handler.                                      *)
Waited(r, ls) == r.mapped \/ (~r.sent /\ r.key \in KeysOf(ls))

(* One that is waited for is live, but for filters requested twice. *)
TiedIsLive(w) ==
  \A i \in DOMAIN w.wire.requests :
    Waited(w.wire.requests[i], w.wire.handlers) =>
      w.wire.requests[i].live \/ w.wire.requests[i].key \in w.wire.doubled

(* An ack has a handler; a resolved one is of an accepted subscription,    *)
(* with no request of its filter left to change that, but for those.       *)
AckHasHandler(w) == \A k \in Keys : w.hub.acks[k] # "none" => k \in KeysOf(w.wire.handlers)
ResolvedIsAccepted(w) ==
  \A k \in Keys \ w.wire.doubled : w.hub.acks[k] = "resolved" =>
    /\ w.wire.sub[k] = "accepted"
    /\ \A i \in DOMAIN w.wire.requests : w.wire.requests[i].live => w.wire.requests[i].key # k

(* Who is acknowledged has a resolved ack; who is told, is acknowledged.   *)
AckedIsResolved(w) ==
  \A l \in Listeners : w.hub.listeners[l].acked => w.hub.acks[filter[l]] = "resolved"
ToldIsAcked(w) ==
  \A l \in Listeners :
    w.hub.listeners[l].phase = "active" /\ w.hub.listeners[l].told = "connected" =>
      /\ w.hub.listeners[l].acked /\ w.hub.listeners[l].connected # 0
      /\ w.hub.connection.heartbeat

Serving(w) ==
  /\ w \in Worlds /\ Connected(w) /\ Requested(w) /\ AckHasHandler(w)
  /\ AckedIsResolved(w) /\ ToldIsAcked(w)
  /\ TiedIsLive(w) /\ ResolvedIsAccepted(w)
Sound(w) == Serving(w) /\ Quiet(w)

HintsInv == filter \in [Listeners -> Keys] /\ failures \in 0..MaxFailures /\ Sound(World)

-----------------------------------------------------------------------------
(* The library.                                                            *)

(* A finite set is enumerated, each element once. *)
LEMMA OrderIs ==
  ASSUME NEW S, IsFiniteSet(S)
  PROVE  /\ SetToSeq(S) \in Seq(S) /\ DOMAIN SetToSeq(S) = 1..Len(SetToSeq(S))
         /\ \A i, j \in DOMAIN SetToSeq(S) : SetToSeq(S)[i] = SetToSeq(S)[j] => i = j
<1> DEFINE n == Cardinality(S)
           P(f) == f \in [1..n -> S] /\ IsInjective(f)
<1>1. n \in Nat /\ ExistsBijection(1..n, S)
  BY FS_CardinalityType
<1>2. \E f : P(f)
  BY <1>1 DEF ExistsBijection, Bijection, Injection, IsInjective
<1>3. SetToSeq(S) = CHOOSE f : P(f)
  BY DEF SetToSeq
<1>4. P(SetToSeq(S))
  BY <1>2, <1>3
<1> HIDE DEF n
<1>5. SetToSeq(S) \in Seq(S) /\ DOMAIN SetToSeq(S) = 1..n
  BY <1>1, <1>4, SeqDef
<1> QED  BY <1>4, <1>5, LenProperties DEF IsInjective

(* The filters of finitely many listeners are finitely many. *)
LEMMA KeysFinite ==
  ASSUME filter \in [Listeners -> Keys], NEW ls \in SUBSET Listeners, IsFiniteSet(ls)
  PROVE  IsFiniteSet(KeysOf(ls)) /\ KeysOf(ls) \subseteq Keys
<1> DEFINE f == [l \in ls |-> filter[l]]
<1>1. f \in Surjection(ls, KeysOf(ls))
  BY DEF Surjection, KeysOf
<1> QED  BY <1>1, FS_Surjection DEF KeysOf

(* Between two worlds, handlers of ls were added: a live request, unsent,  *)
(* for each filter that had none; it is doubled if an earlier one waited.  *)
Handles(v, w, ls) ==
  LET fresh == KeysOf(ls) \ KeysOf(w.wire.handlers)
  IN  /\ v.hub = w.hub /\ v.wire.handlers = w.wire.handlers \cup ls
      /\ \A k \in Keys \ fresh : v.wire.sub[k] = w.wire.sub[k]
      /\ w.wire.doubled \subseteq v.wire.doubled
      /\ \A i \in DOMAIN w.wire.requests :
           ~w.wire.requests[i].sent /\ w.wire.requests[i].key \in fresh =>
             w.wire.requests[i].key \in v.wire.doubled
      /\ \A i \in DOMAIN v.wire.requests :
           \/ i \in DOMAIN w.wire.requests /\ v.wire.requests[i] = w.wire.requests[i]
           \/ /\ i \notin DOMAIN w.wire.requests
              /\ v.wire.requests[i].key \in fresh /\ v.wire.requests[i].live
              /\ ~v.wire.requests[i].mapped /\ ~v.wire.requests[i].sent
      /\ \A i, j \in DOMAIN v.wire.requests :
           (/\ i \notin DOMAIN w.wire.requests /\ j \notin DOMAIN w.wire.requests
            /\ v.wire.requests[i].key = v.wire.requests[j].key)
           => i = j

(* on() does just that. *)
LEMMA OnIs ==
  ASSUME filter \in [Listeners -> Keys], NEW w \in Worlds, NEW ls \in SUBSET Listeners,
         IsFiniteSet(ls)
  PROVE  On(w, ls) \in Worlds /\ Handles(On(w, ls), w, ls)
<1>0. PICK v, fresh : v = On(w, ls) /\ fresh = KeysOf(ls) \ KeysOf(w.wire.handlers)
  OBVIOUS
<1> DEFINE request(k) == [key |-> k, sent |-> FALSE, mapped |-> FALSE, live |-> TRUE]
           order == SetToSeq(fresh)
           m == Len(order)
           more == [i \in 1..m |-> request(order[i])]
           s == w.wire.requests
           n == Len(s)
           r == s \o more
           sub == [k \in Keys |-> IF k \in fresh THEN "requested" ELSE w.wire.sub[k]]
           waiting == {q \in ToSet(s) : ~q.sent}
           doubled == w.wire.doubled \cup {k \in fresh : \E q \in waiting : q.key = k}
<1>1. IsFiniteSet(fresh) /\ fresh \subseteq Keys
  BY <1>0, KeysFinite, FS_Subset
<1>2. /\ order \in Seq(fresh) /\ DOMAIN order = 1..m /\ m \in Nat
      /\ \A i, j \in 1..m : order[i] = order[j] => i = j
      /\ \A i \in 1..m : order[i] \in fresh
  <2>1. order \in Seq(fresh) /\ DOMAIN order = 1..Len(order)
        /\ \A i, j \in DOMAIN order : order[i] = order[j] => i = j
    BY <1>1, OrderIs
  <2> HIDE DEF order
  <2>2. Len(order) \in Nat /\ \A i \in 1..Len(order) : order[i] \in fresh
    BY <2>1, LenProperties, ElementOfSeq
  <2> QED  BY <2>1, <2>2
<1> HIDE DEF order
<1>3. /\ \A i \in 1..m : more[i] \in Request /\ more[i].key = order[i] /\ more[i].live
                           /\ ~more[i].mapped /\ ~more[i].sent
      /\ DOMAIN more = 1..m
  BY <1>1, <1>2 DEF Request
<1> HIDE DEF m
<1>4. more \in Seq(Request) /\ Len(more) = m
  <2>1. more \in [1..m -> Request]
    BY <1>3
  <2> HIDE DEF more
  <2>2. more \in Seq(Request)
    BY <1>2, <2>1, SeqDef
  <2> QED  BY <1>2, <1>3, <2>2, LenProperties
<1>5. s \in Seq(Request) /\ n \in Nat /\ DOMAIN s = 1..n
  BY LenProperties DEF Worlds, Wires
<1>20. /\ doubled \subseteq Keys /\ w.wire.doubled \subseteq doubled
       /\ \A i \in 1..n : ~s[i].sent /\ s[i].key \in fresh => s[i].key \in doubled
  <2>1. \A i \in 1..n : ~s[i].sent => s[i] \in waiting
    BY <1>5 DEF ToSet
  <2>2. w.wire.doubled \subseteq Keys
    BY DEF Worlds, Wires
  <2> HIDE DEF waiting
  <2> QED  BY <1>1, <2>1, <2>2
<1> HIDE DEF more, s, doubled
<1>6. /\ r \in Seq(Request) /\ DOMAIN r = 1..(n + m)
      /\ \A i \in 1..(n + m) : r[i] = IF i <= n THEN s[i] ELSE more[i - n]
  <2>1. r \in Seq(Request) /\ Len(r) = n + m
    BY <1>4, <1>5, ConcatProperties
  <2>2. \A i \in 1..(n + m) : r[i] = IF i <= n THEN s[i] ELSE more[i - n]
    BY <1>4, <1>5, ConcatProperties
  <2>3. DOMAIN r = 1..Len(r)
    BY <2>1, LenProperties
  <2> QED  BY <2>1, <2>2, <2>3
<1> HIDE DEF r, n
<1>7. \A i \in 1..(n + m) :
        \/ i \in 1..n /\ r[i] = s[i]
        \/ i \notin 1..n /\ i - n \in 1..m /\ r[i] = more[i - n]
  <2>1. \A i \in 1..(n + m) : (i \in 1..n /\ i <= n) \/ (i \notin 1..n /\ ~(i <= n) /\ i - n \in 1..m)
    BY ONLY <1>2, <1>5
  <2> QED  BY <1>6, <2>1
<1>8. \A i, j \in 1..(n + m) : i \notin 1..n /\ j \notin 1..n /\ r[i].key = r[j].key => i = j
  <2> SUFFICES ASSUME NEW i \in 1..(n + m), NEW j \in 1..(n + m), i \notin 1..n, j \notin 1..n,
                      r[i].key = r[j].key
               PROVE  i = j
    OBVIOUS
  <2>1. i - n \in 1..m /\ j - n \in 1..m /\ order[i - n] = order[j - n]
    BY <1>3, <1>7
  <2>2. i - n = j - n
    BY <1>2, <2>1
  <2> QED  BY ONLY <1>2, <1>5, <2>2, i \in 1..(n + m), j \in 1..(n + m)
<1>9. v = [w EXCEPT !.wire.handlers = w.wire.handlers \cup ls, !.wire.doubled = doubled,
                    !.wire.sub = sub, !.wire.requests = r]
  BY <1>0 DEF On, r, s, more, m, order, doubled
<1>10. sub \in [Keys -> {"none", "requested", "accepted", "refused"}]
  BY DEF Worlds, Wires
<1>11. /\ v.hub = w.hub /\ v.wire.handlers = w.wire.handlers \cup ls
       /\ v.wire.sub = sub /\ v.wire.requests = r /\ v.wire.doubled = doubled
       /\ v \in Worlds
  <2> HIDE DEF sub
  <2>1. w \in Worlds /\ w.wire \in Wires /\ w = [hub |-> w.hub, wire |-> w.wire]
    BY DEF Worlds
  <2>2. w.wire.handlers \cup ls \in SUBSET Listeners
    BY <2>1 DEF Wires
  <2> DEFINE x == [w.wire EXCEPT !.handlers = w.wire.handlers \cup ls, !.doubled = doubled,
                                 !.sub = sub, !.requests = r]
  <2>3. v = [w EXCEPT !.wire = x]
    BY <1>9, <2>1 DEF Wires
  <2>4. /\ x \in Wires /\ x.handlers = w.wire.handlers \cup ls /\ x.sub = sub /\ x.requests = r
        /\ x.doubled = doubled
    BY <1>6, <1>10, <1>20, <2>1, <2>2 DEF Wires
  <2> HIDE DEF x
  <2> QED  BY <2>1, <2>3, <2>4 DEF Worlds
<1>12. \A k \in Keys \ fresh : sub[k] = w.wire.sub[k]
  OBVIOUS
<1> HIDE DEF sub
<1>13. \A i \in 1..(n + m) : i \notin 1..n =>
         r[i].key \in fresh /\ r[i].live /\ ~r[i].mapped /\ ~r[i].sent
  BY <1>2, <1>3, <1>7
<1>14. Handles(v, w, ls)
  BY <1>0, <1>5, <1>6, <1>7, <1>8, <1>11, <1>12, <1>13, <1>20 DEF s, Handles
<1> QED  BY <1>0, <1>11, <1>14

-----------------------------------------------------------------------------
(* The hub's helpers.                                                      *)

(* The parts of a world are typed. *)
LEMMA Parts ==
  ASSUME NEW w \in Worlds
  PROVE  /\ w.hub \in Hubs /\ w.wire \in Wires /\ w = [hub |-> w.hub, wire |-> w.wire]
         /\ w.hub.generation \in Nat /\ w.hub.connection.gen \in Nat
         /\ w.hub.connection.heartbeat \in BOOLEAN /\ w.hub.connection.blocks \in BOOLEAN
         /\ w.hub.attempt \in [phase : Phases, gen : Nat]
         /\ w.hub.retry \in BOOLEAN /\ w.hub.health \in BOOLEAN
         /\ w.hub.acks \in [Keys -> AckStates] /\ w.hub.pending \subseteq Listeners
         /\ w.hub.listeners \in [Listeners -> Listener]
         /\ w.wire.alive \in BOOLEAN /\ w.wire.handlers \subseteq Listeners
         /\ w.wire.requests \in Seq(Request)
         /\ w.wire.sub \in [Keys -> {"none", "requested", "accepted", "refused"}]
         /\ w.wire.doubled \subseteq Keys
         /\ DOMAIN w.wire.requests = 1..Len(w.wire.requests)
         /\ \A i \in DOMAIN w.wire.requests : w.wire.requests[i] \in Request
<1>1. w.hub \in Hubs /\ w.wire \in Wires /\ w = [hub |-> w.hub, wire |-> w.wire]
  BY DEF Worlds
<1>2. w.wire.requests \in Seq(Request)
  BY <1>1 DEF Wires
<1>3. /\ DOMAIN w.wire.requests = 1..Len(w.wire.requests)
      /\ \A i \in DOMAIN w.wire.requests : w.wire.requests[i] \in Request
  BY <1>2, LenProperties, ElementOfSeq
<1> QED  BY <1>1, <1>2, <1>3 DEF Hubs, Wires

(* install leaves every active listener with a handler and an ack. *)
LEMMA InstallKeeps ==
  ASSUME filter \in [Listeners -> Keys], NEW w, Sound(w), Up(w.hub), NEW v, v = InstallAll(w)
  PROVE  Sound(v)
<1> DEFINE ls == {l \in Active(w.hub) : ~Installed(w.hub, l)}
           pending == w.hub.pending \cup ls
           acks == [k \in Keys |-> IF k \in KeysOf(ls) /\ w.hub.acks[k] = "none"
                                     THEN "open" ELSE w.hub.acks[k]]
           listeners == [l \in Listeners |->
             IF l \in ls THEN [w.hub.listeners[l] EXCEPT !.installed = w.hub.connection.gen,
                                                         !.acked = FALSE]
             ELSE w.hub.listeners[l]]
           h == [w.hub EXCEPT !.pending = pending, !.acks = acks, !.listeners = listeners]
           u == [w EXCEPT !.hub = h]
<1>1. w \in Worlds /\ Connected(w) /\ Quiet(w) /\ Requested(w) /\ AckHasHandler(w)
  BY DEF Sound, Serving
<1>2. ls \in SUBSET Listeners /\ IsFiniteSet(ls) /\ ls \subseteq Active(w.hub)
  <2>1. ls \subseteq Active(w.hub) /\ Active(w.hub) \subseteq Listeners
    BY DEF Active
  <2> QED  BY <1>1, <2>1, FS_Subset DEF Quiet
<1>3. v = On(u, ls)
  <2> DEFINE x == [w EXCEPT !.hub.pending = pending, !.hub.acks = acks, !.hub.listeners = listeners]
  <2>1. v = On(x, ls)
    BY DEF InstallAll
  <2> HIDE DEF pending, acks, listeners
  <2>2. x = u
    BY <1>1, Parts DEF Hubs
  <2> QED  BY <2>1, <2>2
<1>4. /\ listeners \in [Listeners -> Listener]
      /\ \A l \in Listeners \ ls : listeners[l] = w.hub.listeners[l]
      /\ \A l \in Listeners :
           /\ listeners[l].phase = w.hub.listeners[l].phase
           /\ listeners[l].told = w.hub.listeners[l].told
           /\ listeners[l].connected = w.hub.listeners[l].connected
           /\ l \in ls => listeners[l].installed = w.hub.connection.gen /\ ~listeners[l].acked
  <2>1. \A l \in Listeners : w.hub.listeners[l] \in Listener /\ w.hub.connection.gen \in Nat
    BY <1>1, Parts
  <2> HIDE DEF ls
  <2> QED  BY <2>1 DEF Listener
<1>5. \A l \in ls : /\ w.hub.listeners[l].phase = "active" /\ ~Installed(w.hub, l)
                    /\ w.hub.listeners[l].installed # w.hub.connection.gen
  BY DEF Installed, Active
<1> HIDE DEF ls
<1>6. /\ acks \in [Keys -> AckStates]
      /\ \A k \in Keys : acks[k] # "none" => w.hub.acks[k] # "none" \/ k \in KeysOf(ls)
      /\ \A k \in Keys : acks[k] = "resolved" <=> w.hub.acks[k] = "resolved"
  BY <1>1, Parts DEF AckStates
<1> HIDE DEF listeners, acks
<1>7. /\ h \in Hubs /\ h.generation = w.hub.generation /\ h.connection = w.hub.connection
      /\ h.attempt = w.hub.attempt /\ h.retry = w.hub.retry /\ h.health = w.hub.health
      /\ h.pending = pending /\ h.acks = acks /\ h.listeners = listeners
  BY ZenonT(60), <1>1, <1>2, <1>4, <1>6, Parts DEF Hubs
<1> HIDE DEF h
<1>8. u \in Worlds /\ u.hub = h /\ u.wire = w.wire
  BY <1>1, <1>7, Parts DEF Worlds
<1> HIDE DEF u
<1>9. PICK fresh : fresh = KeysOf(ls) \ KeysOf(w.wire.handlers)
  OBVIOUS
<1>10. /\ v \in Worlds /\ v.hub = h /\ v.wire.handlers = w.wire.handlers \cup ls
       /\ \A k \in Keys \ fresh : v.wire.sub[k] = w.wire.sub[k]
       /\ w.wire.doubled \subseteq v.wire.doubled
       /\ \A i \in DOMAIN w.wire.requests :
            ~w.wire.requests[i].sent /\ w.wire.requests[i].key \in fresh =>
              w.wire.requests[i].key \in v.wire.doubled
       /\ \A i \in DOMAIN v.wire.requests :
            \/ i \in DOMAIN w.wire.requests /\ v.wire.requests[i] = w.wire.requests[i]
            \/ /\ i \notin DOMAIN w.wire.requests
               /\ v.wire.requests[i].key \in fresh /\ v.wire.requests[i].live
               /\ ~v.wire.requests[i].mapped /\ ~v.wire.requests[i].sent
       /\ \A i, j \in DOMAIN v.wire.requests :
            /\ i \notin DOMAIN w.wire.requests /\ j \notin DOMAIN w.wire.requests
            /\ v.wire.requests[i].key = v.wire.requests[j].key
            => i = j
  <2>1. v \in Worlds /\ Handles(v, u, ls)
    BY <1>2, <1>3, <1>8, OnIs
  <2> QED  BY <1>8, <1>9, <2>1 DEF Handles
<1>11. KeysOf(v.wire.handlers) = KeysOf(w.wire.handlers) \cup KeysOf(ls)
  BY <1>10 DEF KeysOf
<1>12. Connected(v)
  <2>1. \A l \in ls : w.hub.listeners[l].installed = 0 /\ w.hub.listeners[l].connected = 0
    BY <1>1, <1>2, <1>5 DEF Connected
  <2>2. /\ v.hub.listeners = listeners /\ v.hub.generation = w.hub.generation
        /\ v.hub.connection = w.hub.connection /\ v.hub.attempt = w.hub.attempt
        /\ v.hub.pending = w.hub.pending \cup ls /\ v.wire.handlers = w.wire.handlers \cup ls
    BY <1>7, <1>10
  <2>3. (Up(v.hub) <=> Up(w.hub)) /\ w.hub.connection.gen # 0
    BY ONLY <2>2, Up(w.hub) DEF Up
  <2>4. ASSUME NEW l \in ls
        PROVE  /\ l \in Listeners /\ w.hub.listeners[l].phase = "active"
               /\ listeners[l].installed = w.hub.connection.gen
               /\ listeners[l].connected = 0 /\ ~listeners[l].acked
               /\ listeners[l].phase = w.hub.listeners[l].phase
    BY <1>2, <1>4, <1>5, <2>1
  <2>5. \A l \in Listeners \ ls : listeners[l] = w.hub.listeners[l]
    BY <1>4
  <2> QED  BY ONLY <1>1, <2>2, <2>3, <2>4, <2>5 DEF Connected
<1>13. Active(v.hub) = Active(w.hub)
  BY <1>4, <1>7, <1>10 DEF Active
<1>14. Quiet(v)
  BY <1>1, <1>7, <1>10, <1>13 DEF Quiet, Up
<1>15. Requested(v)
  <2>1. \A i \in DOMAIN v.wire.requests :
          v.wire.requests[i].live => v.wire.requests[i].key \in KeysOf(v.wire.handlers)
    BY <1>1, <1>9, <1>10, <1>11 DEF Requested
  <2>2. ASSUME NEW i \in DOMAIN v.wire.requests, NEW j \in DOMAIN v.wire.requests,
               v.wire.requests[i].live, v.wire.requests[j].live,
               v.wire.requests[i].key = v.wire.requests[j].key
        PROVE  i = j
    <3>1. \A k \in DOMAIN w.wire.requests \cap DOMAIN v.wire.requests :
            /\ v.wire.requests[k] = w.wire.requests[k]
            /\ v.wire.requests[k].live => v.wire.requests[k].key \notin fresh
      BY <1>1, <1>9, <1>10 DEF Requested
    <3>2. i \in DOMAIN w.wire.requests <=> j \in DOMAIN w.wire.requests
      BY <1>10, <2>2, <3>1
    <3> QED  BY <1>1, <1>10, <2>2, <3>1, <3>2 DEF Requested
  <2> QED  BY <2>1, <2>2 DEF Requested
<1>16. AckHasHandler(v)
  <2>1. v.hub.acks = acks
    BY <1>7, <1>10
  <2>2. \A k \in Keys : w.hub.acks[k] # "none" => k \in KeysOf(w.wire.handlers)
    BY <1>1 DEF AckHasHandler
  <2>3. \A k \in Keys : acks[k] # "none" => k \in KeysOf(v.wire.handlers)
    BY <1>6, <1>11, <2>2
  <2> QED  BY <2>1, <2>3 DEF AckHasHandler
<1>17. AckedIsResolved(v)
  <2>1. v.hub.acks = acks /\ v.hub.listeners = listeners
    BY <1>7, <1>10
  <2>2. \A l \in Listeners : w.hub.listeners[l].acked => w.hub.acks[filter[l]] = "resolved"
    BY DEF AckedIsResolved, Sound, Serving
  <2>3. \A l \in Listeners : listeners[l].acked => w.hub.listeners[l].acked
    BY <1>4
  <2>4. \A l \in Listeners : listeners[l].acked => acks[filter[l]] = "resolved"
    BY <1>6, <2>2, <2>3
  <2> QED  BY <2>1, <2>4 DEF AckedIsResolved
<1>18. ToldIsAcked(v)
  <2>1. \A l \in ls : w.hub.listeners[l].connected = 0
    BY <1>1, <1>2, <1>5 DEF Connected
  <2> QED  BY <1>2, <1>4, <1>5, <1>7, <1>10, <2>1 DEF ToldIsAcked, Sound, Serving
<1>19. TiedIsLive(v)
  <2> SUFFICES ASSUME NEW i \in DOMAIN v.wire.requests,
                      Waited(v.wire.requests[i], v.wire.handlers), ~v.wire.requests[i].live
               PROVE  v.wire.requests[i].key \in v.wire.doubled
    BY DEF TiedIsLive
  <2>1. i \in DOMAIN w.wire.requests /\ v.wire.requests[i] = w.wire.requests[i]
    BY <1>10
  <2>2. CASE Waited(w.wire.requests[i], w.wire.handlers)
    <3>1. w.wire.requests[i].key \in w.wire.doubled
      BY <2>1, <2>2 DEF TiedIsLive, Sound, Serving
    <3> QED  BY <1>10, <2>1, <3>1
  <2>3. CASE ~Waited(w.wire.requests[i], w.wire.handlers)
    <3>1. ~w.wire.requests[i].sent /\ w.wire.requests[i].key \in fresh
      BY <1>9, <1>11, <2>1, <2>3 DEF Waited
    <3> QED  BY <1>10, <2>1, <3>1
  <2> QED  BY <2>2, <2>3
<1>20. ResolvedIsAccepted(v)
  <2> SUFFICES ASSUME NEW k \in Keys \ v.wire.doubled, v.hub.acks[k] = "resolved"
               PROVE  /\ v.wire.sub[k] = "accepted"
                      /\ \A i \in DOMAIN v.wire.requests :
                           v.wire.requests[i].live => v.wire.requests[i].key # k
    BY DEF ResolvedIsAccepted
  <2>1. w.hub.acks[k] = "resolved" /\ k \notin fresh
    <3>1. acks[k] = "resolved"
      BY <1>7, <1>10
    <3>2. w.hub.acks[k] = "resolved"
      BY <1>6, <3>1
    <3> QED  BY <1>1, <1>9, <3>2 DEF AckHasHandler
  <2>2. /\ w.wire.sub[k] = "accepted"
        /\ \A i \in DOMAIN w.wire.requests : w.wire.requests[i].live => w.wire.requests[i].key # k
    BY <1>10, <2>1 DEF Sound, Serving, ResolvedIsAccepted
  <2> QED  BY <1>10, <2>1, <2>2
<1> QED  BY <1>10, <1>12, <1>14, <1>15, <1>16, <1>17, <1>18, <1>19, <1>20 DEF Sound, Serving

(* What a step of the set-up or of a timer may do to the hub: not to the   *)
(* listeners and acks, and to the connection only what they allow.         *)
Steady(h, w) ==
  /\ h \in Hubs /\ h.listeners = w.hub.listeners /\ h.acks = w.hub.acks
  /\ h.pending \subseteq w.hub.pending
  /\ h.connection.gen \in {0, h.generation}
  /\ h.attempt.phase \in {"load", "network"} => ~Up(h)
  /\ Up(w.hub) => /\ h.connection.gen = w.hub.connection.gen
                  /\ w.hub.connection.heartbeat => h.connection.heartbeat
  /\ Active(w.hub) = {} => ~Up(h) /\ ~h.retry /\ ~h.health

(* Without a connection nobody is installed, acknowledged or told. *)
LEMMA DownIsUntold ==
  ASSUME NEW w, Sound(w), ~Up(w.hub), NEW l \in Listeners
  PROVE  /\ w.hub.listeners[l].installed = 0 /\ w.hub.listeners[l].connected = 0
         /\ ~w.hub.listeners[l].acked
         /\ ~(w.hub.listeners[l].phase = "active" /\ w.hub.listeners[l].told = "connected")
  BY DEF Sound, Serving, Connected, Up, ToldIsAcked

(* Such a step is sound. *)
LEMMA SteadyKeeps ==
  ASSUME NEW w, Sound(w), NEW h, Steady(h, w), NEW v, v = [hub |-> h, wire |-> w.wire]
  PROVE  Sound(v)
<1>1. w \in Worlds /\ Connected(w) /\ Quiet(w)
  BY DEF Sound, Serving
<1>2. v \in Worlds /\ v.hub = h /\ v.wire = w.wire
  BY <1>1, Parts DEF Steady, Worlds
<1>3. Active(h) = Active(w.hub)
  BY DEF Active, Steady
<1>4. Quiet(v)
  BY <1>1, <1>2, <1>3 DEF Quiet, Steady
<1>5. Connected(v)
  <2>1. CASE Up(w.hub)
    BY <1>1, <1>2, <2>1 DEF Connected, Steady
  <2>2. CASE ~Up(w.hub)
    BY <1>1, <1>2, <2>2, DownIsUntold DEF Connected, Steady
  <2> QED  BY <2>1, <2>2
<1>6. ToldIsAcked(v)
  <2>1. CASE Up(w.hub)
    BY <1>2, <2>1 DEF Sound, Serving, ToldIsAcked, Steady
  <2>2. CASE ~Up(w.hub)
    BY <1>2, <2>2, DownIsUntold DEF ToldIsAcked, Steady
  <2> QED  BY <2>1, <2>2
<1>7. Requested(v) /\ AckHasHandler(v) /\ AckedIsResolved(v)
  BY <1>2 DEF Sound, Serving, Requested, AckHasHandler, AckedIsResolved, Steady
<1>8. TiedIsLive(v) /\ ResolvedIsAccepted(v)
  BY <1>2 DEF Sound, Serving, TiedIsLive, ResolvedIsAccepted, Steady
<1> QED  BY <1>2, <1>4, <1>5, <1>6, <1>7, <1>8 DEF Sound, Serving

(* A reconnection is queued for those who are there. *)
LEMMA QueueKeeps ==
  ASSUME NEW w, Sound(w)
  PROVE  /\ Sound(QueueReconnect(w))
         /\ QueueReconnect(w).hub.attempt = w.hub.attempt
         /\ QueueReconnect(w).hub.generation = w.hub.generation
<1> DEFINE h == [w.hub EXCEPT !.retry = w.hub.retry \/ Active(w.hub) # {}]
<1>1. w \in Worlds /\ Connected(w) /\ Quiet(w)
  BY DEF Sound, Serving
<1>2. /\ h \in Hubs /\ h.listeners = w.hub.listeners /\ h.acks = w.hub.acks
      /\ h.pending = w.hub.pending /\ h.connection = w.hub.connection
      /\ h.generation = w.hub.generation /\ h.attempt = w.hub.attempt
      /\ h.health = w.hub.health /\ h.retry = (w.hub.retry \/ Active(w.hub) # {})
  BY <1>1, Parts DEF Hubs
<1>3. QueueReconnect(w) = [hub |-> h, wire |-> w.wire]
  <2>1. QueueReconnect(w) = [w EXCEPT !.hub = h]
    BY <1>1, Parts DEF QueueReconnect, Hubs
  <2> HIDE DEF h
  <2> QED  BY <1>1, <2>1, Parts
<1> HIDE DEF h
<1>4. Steady(h, w)
  BY <1>1, <1>2 DEF Steady, Connected, Quiet, Up
<1> QED  BY <1>2, <1>3, <1>4, SteadyKeeps

(* A connection is lost with all it served. *)
LEMMA LoseKeeps ==
  ASSUME NEW w, Sound(w)
  PROVE  Sound(Lose(w)) /\ Lose(w).hub.attempt = w.hub.attempt
<1> DEFINE lost(l) == [w.hub.listeners[l] EXCEPT !.told = "reconnecting", !.installed = 0,
                                                 !.acked = FALSE, !.connected = 0]
           listeners == [l \in Listeners |->
                           IF l \in Active(w.hub) THEN lost(l) ELSE w.hub.listeners[l]]
           h == [w.hub EXCEPT !.connection = NoConnection, !.generation = w.hub.generation + 1,
                              !.retry = FALSE, !.health = FALSE, !.pending = {},
                              !.acks = NewHub.acks, !.listeners = listeners]
           v == [hub |-> h, wire |-> NewWire]
<1>1. w \in Worlds /\ Connected(w) /\ Quiet(w)
  BY DEF Sound, Serving
<1>2. Lose(w) = QueueReconnect(v)
  BY DEF Lose
<1>3. /\ listeners \in [Listeners -> Listener]
      /\ \A l \in Listeners :
           /\ listeners[l].phase = w.hub.listeners[l].phase
           /\ listeners[l].installed = 0 /\ listeners[l].connected = 0 /\ ~listeners[l].acked
           /\ listeners[l].phase = "active" => listeners[l].told = "reconnecting"
  <2>1. \A l \in Listeners : w.hub.listeners[l] \in Listener
    BY <1>1, Parts
  <2>2. \A l \in Listeners :
          /\ l \in Active(w.hub) <=> w.hub.listeners[l].phase = "active"
          /\ l \notin Active(w.hub) => w.hub.listeners[l].installed = 0
                                       /\ w.hub.listeners[l].connected = 0
                                       /\ ~w.hub.listeners[l].acked
    BY <1>1 DEF Active, Connected
  <2>3. \A l \in Listeners :
          /\ lost(l) \in Listener /\ lost(l).phase = w.hub.listeners[l].phase
          /\ lost(l).installed = 0 /\ lost(l).connected = 0 /\ ~lost(l).acked
          /\ lost(l).told = "reconnecting"
    BY <2>1 DEF Listener, Told3
  <2> HIDE DEF lost
  <2> QED  BY <2>1, <2>2, <2>3
<1> HIDE DEF listeners
<1>4. /\ NewHub.acks \in [Keys -> AckStates] /\ \A k \in Keys : NewHub.acks[k] = "none"
      /\ NoConnection \in [gen : Nat, heartbeat : BOOLEAN, blocks : BOOLEAN]
      /\ NoConnection.gen = 0
  BY DEF NewHub, AckStates, NoConnection
<1>5. /\ h \in Hubs /\ h.listeners = listeners /\ h.acks = NewHub.acks /\ h.pending = {}
      /\ h.connection = NoConnection /\ h.attempt = w.hub.attempt /\ ~h.retry /\ ~h.health
  <2>1. PICK g \in Nat : g = w.hub.generation + 1
    BY <1>1, Parts
  <2>2. PICK c \in [gen : Nat, heartbeat : BOOLEAN, blocks : BOOLEAN] : c = NoConnection
    BY <1>4
  <2>3. PICK a \in [Keys -> AckStates] : a = NewHub.acks
    BY <1>4
  <2>4. PICK ll \in [Listeners -> Listener] : ll = listeners
    BY <1>3
  <2>5. h = [w.hub EXCEPT !.connection = c, !.generation = g, !.retry = FALSE, !.health = FALSE,
                          !.pending = {}, !.acks = a, !.listeners = ll]
    BY <2>1, <2>2, <2>3, <2>4
  <2> HIDE DEF h
  <2>6. w.hub \in Hubs
    BY <1>1, Parts
  <2>7. h \in Hubs
    BY <2>1, <2>2, <2>3, <2>4, <2>5, <2>6 DEF Hubs
  <2> QED  BY <2>2, <2>3, <2>4, <2>5, <2>6, <2>7 DEF Hubs
<1> HIDE DEF h
<1>6. /\ NewWire \in Wires /\ NewWire.handlers = {} /\ NewWire.requests = << >>
      /\ DOMAIN NewWire.requests = {}
  BY EmptySeq DEF NewWire, Wires
<1>7. v \in Worlds /\ v.hub = h /\ v.wire = NewWire
  BY <1>5, <1>6 DEF Worlds
<1> HIDE DEF v
<1>8. Connected(v)
  BY <1>3, <1>4, <1>5, <1>6, <1>7 DEF Connected, Up
<1>9. Active(h) = Active(w.hub) /\ ~Up(h)
  BY <1>3, <1>4, <1>5 DEF Active, Up
<1>10. Quiet(v)
  BY <1>1, <1>5, <1>7, <1>9 DEF Quiet
<1>11. Requested(v) /\ TiedIsLive(v)
  BY <1>6, <1>7 DEF Requested, TiedIsLive
<1>12. AckHasHandler(v) /\ ResolvedIsAccepted(v)
  BY <1>4, <1>5, <1>7 DEF AckHasHandler, ResolvedIsAccepted
<1>13. AckedIsResolved(v) /\ ToldIsAcked(v)
  BY <1>3, <1>5, <1>7 DEF AckedIsResolved, ToldIsAcked
<1>14. Sound(v)
  BY <1>7, <1>8, <1>10, <1>11, <1>12, <1>13 DEF Sound, Serving
<1> QED  BY <1>2, <1>5, <1>7, <1>14, QueueKeeps

(* connect begins an attempt, or installs who is not installed yet.        *)
LEMMA ConnectKeeps ==
  ASSUME filter \in [Listeners -> Keys], NEW w, Sound(w)
  PROVE  Sound(Connect(w))
<1> DEFINE h == [w.hub EXCEPT !.generation = w.hub.generation + 1,
                   !.attempt = [phase |-> "load", gen |-> w.hub.generation + 1]]
<1>1. w \in Worlds /\ Connected(w) /\ Quiet(w)
  BY DEF Sound, Serving
<1>2. CASE w.hub.attempt.phase # "idle" \/ Active(w.hub) = {}
  BY <1>2 DEF Connect
<1>3. CASE w.hub.attempt.phase = "idle" /\ Active(w.hub) # {} /\ Up(w.hub)
  <2>1. Connect(w) = InstallAll(w)
    BY <1>3 DEF Connect
  <2> QED  BY <1>3, <2>1, InstallKeeps
<1>4. CASE w.hub.attempt.phase = "idle" /\ Active(w.hub) # {} /\ ~Up(w.hub)
  <2>1. /\ h \in Hubs /\ h.listeners = w.hub.listeners /\ h.acks = w.hub.acks
        /\ h.pending = w.hub.pending /\ h.connection = w.hub.connection
    <3>1. w.hub.generation + 1 \in Nat /\ "load" \in Phases
      BY <1>1, Parts DEF Phases
    <3> QED  BY <1>1, <3>1, Parts DEF Hubs
  <2>2. Connect(w) = [hub |-> h, wire |-> w.wire]
    <3>1. Connect(w) = [w EXCEPT !.hub.generation = w.hub.generation + 1,
                          !.hub.attempt = [phase |-> "load", gen |-> w.hub.generation + 1]]
      BY <1>4 DEF Connect
    <3>2. Connect(w) = [w EXCEPT !.hub = h]
      BY <1>1, <3>1, Parts DEF Hubs
    <3> HIDE DEF h
    <3> QED  BY <1>1, <3>2, Parts
  <2> HIDE DEF h
  <2>3. Steady(h, w)
    BY <1>1, <1>4, <2>1 DEF Steady, Connected, Quiet, Up
  <2> QED  BY <2>2, <2>3, SteadyKeeps
<1> QED  BY <1>2, <1>3, <1>4

(* An attempt ends, and looks who came meanwhile. *)
LEMMA FinallyKeeps ==
  ASSUME filter \in [Listeners -> Keys], NEW w, Sound(w)
  PROVE  Sound(Finally(w))
<1> DEFINE h == [w.hub EXCEPT !.attempt = NoAttempt]
           v == [w EXCEPT !.hub.attempt = NoAttempt]
<1>1. w \in Worlds /\ Connected(w) /\ Quiet(w)
  BY DEF Sound, Serving
<1>2. /\ h \in Hubs /\ h.listeners = w.hub.listeners /\ h.acks = w.hub.acks
      /\ h.pending = w.hub.pending /\ h.connection = w.hub.connection
      /\ h.generation = w.hub.generation /\ h.retry = w.hub.retry /\ h.health = w.hub.health
      /\ h.attempt.phase = "idle"
  BY <1>1, Parts DEF Hubs, NoAttempt, Phases
<1>3. v = [hub |-> h, wire |-> w.wire]
  BY <1>1, Parts DEF Hubs
<1>4. Finally(w) \in {QueueReconnect(v), Connect(v), v}
  <2> HIDE DEF h
  <2>1. Finally(w) = IF ~Up(v.hub) THEN QueueReconnect(v)
                     ELSE IF \E l \in Active(v.hub) : ~Installed(v.hub, l) THEN Connect(v) ELSE v
    BY DEF Finally
  <2> HIDE DEF v
  <2> QED  BY <2>1
<1> HIDE DEF h, v
<1>5. Steady(h, w)
  BY <1>1, <1>2 DEF Steady, Connected, Quiet, Up
<1>6. Sound(v)
  BY <1>3, <1>5, SteadyKeeps
<1> QED  BY <1>4, <1>6, QueueKeeps, ConnectKeeps

(* An attempt that fails takes its connection with it. *)
LEMMA ThrowKeeps ==
  ASSUME filter \in [Listeners -> Keys], NEW w, Sound(w)
  PROVE  Sound(Throw(w))
<1>1. Throw(w) \in {Finally(Lose(w)), Finally(w)}
  BY DEF Throw
<1> QED  BY <1>1, FinallyKeeps, LoseKeeps

(* Between two worlds, acks were forgotten, with those who wait for them   *)
(* and what is tied to them; nothing else changed.                         *)
Dropped(v, w, ks) ==
  /\ v \in Worlds
  /\ v.hub.generation = w.hub.generation /\ v.hub.connection = w.hub.connection
  /\ v.hub.attempt = w.hub.attempt /\ v.hub.retry = w.hub.retry
  /\ v.hub.health = w.hub.health /\ v.hub.listeners = w.hub.listeners
  /\ v.wire.handlers = w.wire.handlers /\ v.wire.sub = w.wire.sub
  /\ v.wire.doubled = w.wire.doubled
  /\ \A k \in Keys : v.hub.acks[k] = IF k \in ks THEN "none" ELSE w.hub.acks[k]
  /\ \A l \in v.hub.pending : l \in w.hub.pending /\ filter[l] \notin ks
  /\ DOMAIN v.wire.requests = DOMAIN w.wire.requests
  /\ \A i \in DOMAIN w.wire.requests :
       /\ v.wire.requests[i].key = w.wire.requests[i].key
       /\ v.wire.requests[i].sent = w.wire.requests[i].sent
       /\ v.wire.requests[i].live = w.wire.requests[i].live
       /\ v.wire.requests[i].mapped =>
            w.wire.requests[i].mapped /\ w.wire.requests[i].key \notin ks

(* DropAcks does that. *)
LEMMA DropIs ==
  ASSUME NEW w \in Worlds, NEW ks
  PROVE  Dropped(DropAcks(w, ks), w, ks)
<1>0. PICK v : v = DropAcks(w, ks)
  OBVIOUS
<1> DEFINE acks == [k \in Keys |-> IF k \in ks THEN "none" ELSE w.hub.acks[k]]
           pending == {l \in w.hub.pending : filter[l] \notin ks}
           s == w.wire.requests
           r == [i \in DOMAIN s |-> [s[i] EXCEPT !.mapped = s[i].mapped /\ s[i].key \notin ks]]
           h == [w.hub EXCEPT !.acks = acks, !.pending = pending]
           x == [w.wire EXCEPT !.requests = r]
<1>1. /\ w.hub \in Hubs /\ w.wire \in Wires /\ s \in Seq(Request) /\ DOMAIN s = 1..Len(s)
      /\ \A i \in DOMAIN s : s[i] \in Request
      /\ w = [hub |-> w.hub, wire |-> w.wire]
  BY Parts
<1>2. v = [hub |-> h, wire |-> x]
  <2>1. v = [w EXCEPT !.hub.acks = acks, !.hub.pending = pending, !.wire.requests = r]
    BY <1>0 DEF DropAcks
  <2> HIDE DEF acks, pending, r
  <2> QED  BY <1>1, <2>1 DEF Hubs, Wires
<1>3. acks \in [Keys -> AckStates] /\ pending \subseteq Listeners
  BY <1>1, Parts DEF AckStates
<1>4. /\ DOMAIN r = DOMAIN s
      /\ \A i \in DOMAIN s : /\ r[i] \in Request
                             /\ r[i].key = s[i].key /\ r[i].sent = s[i].sent /\ r[i].live = s[i].live
                             /\ r[i].mapped = (s[i].mapped /\ s[i].key \notin ks)
  BY <1>1 DEF Request
<1>5. r \in Seq(Request)
  <2>1. r \in [1..Len(s) -> Request] /\ Len(s) \in Nat
    BY <1>1, <1>4, LenProperties
  <2> HIDE DEF r
  <2> QED  BY <2>1, SeqDef
<1>6. \A k \in Keys : acks[k] = IF k \in ks THEN "none" ELSE w.hub.acks[k]
  OBVIOUS
<1>7. \A l \in pending : l \in w.hub.pending /\ filter[l] \notin ks
  OBVIOUS
<1> HIDE DEF acks, pending, r
<1>8. /\ h \in Hubs /\ h.acks = acks /\ h.pending = pending
      /\ h.generation = w.hub.generation /\ h.connection = w.hub.connection
      /\ h.attempt = w.hub.attempt /\ h.retry = w.hub.retry
      /\ h.health = w.hub.health /\ h.listeners = w.hub.listeners
  BY <1>1, <1>3 DEF Hubs
<1>9. /\ x \in Wires /\ x.requests = r /\ x.handlers = w.wire.handlers /\ x.sub = w.wire.sub
      /\ x.doubled = w.wire.doubled
  BY <1>1, <1>5 DEF Wires
<1> HIDE DEF h, x, s
<1>10. Dropped(v, w, ks)
  BY <1>2, <1>4, <1>6, <1>7, <1>8, <1>9 DEF Worlds, s, Dropped
<1> QED  BY <1>0, <1>10

(* Between two worlds, a subscription went with the last handler of its    *)
(* filter.                                                                 *)
Unhandled(v, w, l) ==
  /\ v \in Worlds /\ v.hub = w.hub
  /\ v.wire.handlers = w.wire.handlers \ {l} /\ v.wire.doubled = w.wire.doubled
  /\ \A k \in Keys \cap KeysOf(v.wire.handlers) : v.wire.sub[k] = w.wire.sub[k]
  /\ DOMAIN v.wire.requests = DOMAIN w.wire.requests
  /\ \A i \in DOMAIN w.wire.requests :
       /\ v.wire.requests[i].key = w.wire.requests[i].key
       /\ v.wire.requests[i].sent = w.wire.requests[i].sent
       /\ v.wire.requests[i].mapped = w.wire.requests[i].mapped
       /\ v.wire.requests[i].live <=>
            w.wire.requests[i].live /\ w.wire.requests[i].key \in KeysOf(v.wire.handlers)

(* off() does that. *)
LEMMA OffIs ==
  ASSUME NEW w \in Worlds, NEW l \in w.wire.handlers
  PROVE  Unhandled(Off(w, l), w, l)
<1>0. PICK v : v = Off(w, l)
  OBVIOUS
<1> DEFINE rest == w.wire.handlers \ {l}
           ks == KeysOf(rest)
           sub == [k \in Keys |-> IF k \in ks THEN w.wire.sub[k] ELSE "none"]
           s == w.wire.requests
           r == [i \in DOMAIN s |-> [s[i] EXCEPT !.live = s[i].live /\ s[i].key \in ks]]
           x == [w.wire EXCEPT !.handlers = rest, !.sub = sub, !.requests = r]
<1>1. /\ w.hub \in Hubs /\ w.wire \in Wires /\ s \in Seq(Request) /\ DOMAIN s = 1..Len(s)
      /\ \A i \in DOMAIN s : s[i] \in Request
      /\ w = [hub |-> w.hub, wire |-> w.wire]
      /\ rest \subseteq Listeners
  BY Parts
<1>2. v = [hub |-> w.hub, wire |-> x]
  <2>1. v = [w EXCEPT !.wire.handlers = rest, !.wire.sub = sub, !.wire.requests = r]
    BY <1>0 DEF Off
  <2> HIDE DEF rest, sub, r
  <2> QED  BY <1>1, <2>1 DEF Wires
<1> HIDE DEF ks, rest
<1>3. /\ sub \in [Keys -> {"none", "requested", "accepted", "refused"}]
      /\ \A k \in Keys \cap ks : sub[k] = w.wire.sub[k]
  BY Parts
<1>4. /\ DOMAIN r = DOMAIN s
      /\ \A i \in DOMAIN s : /\ r[i] \in Request
                             /\ r[i].key = s[i].key /\ r[i].sent = s[i].sent
                             /\ r[i].mapped = s[i].mapped
                             /\ r[i].live = (s[i].live /\ s[i].key \in ks)
  BY <1>1 DEF Request
<1>5. r \in Seq(Request)
  <2>1. r \in [1..Len(s) -> Request] /\ Len(s) \in Nat
    BY <1>1, <1>4, LenProperties
  <2> HIDE DEF r
  <2> QED  BY <2>1, SeqDef
<1> HIDE DEF sub, r
<1>6. /\ x \in Wires /\ x.requests = r /\ x.handlers = rest /\ x.sub = sub
      /\ x.doubled = w.wire.doubled
  BY <1>1, <1>3, <1>5 DEF Wires
<1> HIDE DEF x
<1>7. v \in Worlds /\ v.hub = w.hub /\ v.wire = x
  BY <1>1, <1>2, <1>6 DEF Worlds
<1>8. /\ v.wire.handlers = w.wire.handlers \ {l} /\ KeysOf(v.wire.handlers) = ks
      /\ v.wire.doubled = w.wire.doubled
  BY <1>6, <1>7 DEF ks, rest
<1>9. Unhandled(v, w, l)
  BY <1>3, <1>4, <1>6, <1>7, <1>8 DEF Unhandled
<1> QED  BY <1>0, <1>9

-----------------------------------------------------------------------------
(* A listener goes.                                                        *)

(* Between two worlds, listener l went: with the last handler of its       *)
(* filter the ack is gone, and all that is tied to it.                     *)
Removed(v, w, l) ==
  /\ v \in Worlds
  /\ v.hub.generation = w.hub.generation /\ v.hub.connection = w.hub.connection
  /\ v.hub.attempt = w.hub.attempt
  /\ v.hub.retry = w.hub.retry /\ v.hub.health = w.hub.health
  /\ v.hub.listeners[l].phase = "gone" /\ v.hub.listeners[l].installed = 0
  /\ v.hub.listeners[l].connected = 0 /\ ~v.hub.listeners[l].acked
  /\ \A o \in Listeners \ {l} : v.hub.listeners[o] = w.hub.listeners[o]
  /\ v.hub.pending \subseteq w.hub.pending
  /\ v.wire.handlers = w.wire.handlers \ {l} /\ v.wire.doubled = w.wire.doubled
  /\ \A k \in Keys : v.hub.acks[k] = "none" \/ (v.hub.acks[k] = w.hub.acks[k]
                        /\ (k \in KeysOf(w.wire.handlers) => k \in KeysOf(v.wire.handlers)))
  /\ \A k \in Keys \cap KeysOf(v.wire.handlers) :
       v.hub.acks[k] = w.hub.acks[k] /\ v.wire.sub[k] = w.wire.sub[k]
  /\ DOMAIN v.wire.requests = DOMAIN w.wire.requests
  /\ \A i \in DOMAIN w.wire.requests :
       /\ v.wire.requests[i].key = w.wire.requests[i].key
       /\ v.wire.requests[i].sent = w.wire.requests[i].sent
       /\ v.wire.requests[i].live <=>
            w.wire.requests[i].live /\ w.wire.requests[i].key \in KeysOf(v.wire.handlers)
       /\ v.wire.requests[i].mapped =>
            /\ w.wire.requests[i].mapped
            /\ w.wire.requests[i].key \in KeysOf(w.wire.handlers) =>
                 w.wire.requests[i].key \in KeysOf(v.wire.handlers)

(* A world with another record of listener l. *)
Put(w, l, n) ==
  [hub |-> [w.hub EXCEPT !.listeners = [w.hub.listeners EXCEPT ![l] = n]], wire |-> w.wire]

(* All that it changes is that record. *)
Placed(v, w, l, n) ==
  /\ v \in Worlds /\ v.wire = w.wire
  /\ v.hub.listeners[l] = n
  /\ \A o \in Listeners \ {l} : v.hub.listeners[o] = w.hub.listeners[o]
  /\ v.hub.generation = w.hub.generation /\ v.hub.connection = w.hub.connection
  /\ v.hub.attempt = w.hub.attempt /\ v.hub.retry = w.hub.retry
  /\ v.hub.health = w.hub.health /\ v.hub.acks = w.hub.acks
  /\ v.hub.pending = w.hub.pending

(* What it is, and that the last record put is the one that is there. *)
LEMMA PutIs ==
  ASSUME NEW w \in Worlds, NEW l \in Listeners, NEW n \in Listener
  PROVE  /\ Placed(Put(w, l, n), w, l, n)
         /\ [w EXCEPT !.hub.listeners[l] = n] = Put(w, l, n)
         /\ \A m : Put(Put(w, l, n), l, m) = Put(w, l, m)
<1> DEFINE f == [w.hub.listeners EXCEPT ![l] = n]
           h == [w.hub EXCEPT !.listeners = f]
<1>1. /\ w.hub \in Hubs /\ w.wire \in Wires /\ w = [hub |-> w.hub, wire |-> w.wire]
      /\ w.hub.listeners \in [Listeners -> Listener]
  BY Parts
<1>2. /\ f \in [Listeners -> Listener] /\ f[l] = n
      /\ \A o \in Listeners \ {l} : f[o] = w.hub.listeners[o]
      /\ \A m : [f EXCEPT ![l] = m] = [w.hub.listeners EXCEPT ![l] = m]
  BY <1>1
<1>3. [w EXCEPT !.hub.listeners[l] = n] = [w EXCEPT !.hub = h]
  OBVIOUS
<1> HIDE DEF f
<1>4. /\ h \in Hubs /\ h.listeners = f /\ h.generation = w.hub.generation
      /\ h.connection = w.hub.connection /\ h.attempt = w.hub.attempt
      /\ h.retry = w.hub.retry /\ h.health = w.hub.health /\ h.acks = w.hub.acks
      /\ h.pending = w.hub.pending
      /\ \A g : [h EXCEPT !.listeners = g] = [w.hub EXCEPT !.listeners = g]
  BY <1>1, <1>2 DEF Hubs
<1>5. Put(w, l, n) = [hub |-> h, wire |-> w.wire]
  BY DEF Put, f
<1> HIDE DEF h
<1>6. [w EXCEPT !.hub = h] = [hub |-> h, wire |-> w.wire]
  BY <1>1
<1>7. Placed(Put(w, l, n), w, l, n)
  BY <1>1, <1>2, <1>4, <1>5 DEF Worlds, Placed
<1>8. \A m : Put(Put(w, l, n), l, m) = Put(w, l, m)
  BY <1>2, <1>4, <1>5 DEF Put
<1> QED  BY <1>3, <1>5, <1>6, <1>7, <1>8

(* The record of a listener that goes, and of one that is removed. *)
LEMMA GoneIs ==
  ASSUME NEW w \in Worlds, NEW l \in Listeners
  PROVE  \E g, n \in Listener :
           /\ g.phase = "gone" /\ g.installed = w.hub.listeners[l].installed
           /\ g.acked = w.hub.listeners[l].acked /\ g.connected = w.hub.listeners[l].connected
           /\ n.phase = "gone" /\ n.installed = 0 /\ ~n.acked /\ n.connected = 0
           /\ [w EXCEPT !.hub.listeners[l].phase = "gone"] = Put(w, l, g)
           /\ [Put(w, l, g) EXCEPT !.hub.listeners[l].installed = 0,
                  !.hub.listeners[l].acked = FALSE, !.hub.listeners[l].connected = 0]
                = Put(w, l, n)
<1>1. w.hub.listeners[l] \in Listener
  BY Parts
<1>2. PICK g : g = [w.hub.listeners[l] EXCEPT !.phase = "gone"]
  OBVIOUS
<1>3. /\ g \in Listener /\ g.phase = "gone" /\ g.installed = w.hub.listeners[l].installed
      /\ g.acked = w.hub.listeners[l].acked /\ g.connected = w.hub.listeners[l].connected
  BY <1>1, <1>2 DEF Listener
<1>4. PICK n1 : n1 = [g EXCEPT !.installed = 0]
  OBVIOUS
<1>5. n1 \in Listener /\ n1.phase = "gone" /\ n1.installed = 0
  BY <1>3, <1>4 DEF Listener
<1>6. PICK n2 : n2 = [n1 EXCEPT !.acked = FALSE]
  OBVIOUS
<1>7. n2 \in Listener /\ n2.phase = "gone" /\ n2.installed = 0 /\ ~n2.acked
  BY <1>5, <1>6 DEF Listener
<1>8. PICK n : n = [n2 EXCEPT !.connected = 0]
  OBVIOUS
<1>9. n \in Listener /\ n.phase = "gone" /\ n.installed = 0 /\ ~n.acked /\ n.connected = 0
  BY <1>7, <1>8 DEF Listener
<1>10. [w EXCEPT !.hub.listeners[l].phase = "gone"] = Put(w, l, g)
  <2>1. [w EXCEPT !.hub.listeners[l].phase = "gone"] = [w EXCEPT !.hub.listeners[l] = g]
    BY <1>2
  <2>2. [w EXCEPT !.hub.listeners[l] = g] = Put(w, l, g)
    BY <1>3, PutIs
  <2> QED  BY <2>1, <2>2
<1>11. PICK x : x = Put(w, l, g)
  OBVIOUS
<1>12. x \in Worlds /\ x.hub.listeners[l] = g /\ \A m : Put(x, l, m) = Put(w, l, m)
  BY <1>3, <1>11, PutIs DEF Placed
<1>13. PICK y : y = Put(w, l, n1)
  OBVIOUS
<1>14. y \in Worlds /\ y.hub.listeners[l] = n1 /\ \A m : Put(y, l, m) = Put(w, l, m)
  BY <1>5, <1>13, PutIs DEF Placed
<1>15. PICK z : z = Put(w, l, n2)
  OBVIOUS
<1>16. z \in Worlds /\ z.hub.listeners[l] = n2 /\ \A m : Put(z, l, m) = Put(w, l, m)
  BY <1>7, <1>15, PutIs DEF Placed
<1>17. [x EXCEPT !.hub.listeners[l].installed = 0] = y
  <2>1. [x EXCEPT !.hub.listeners[l].installed = 0] = [x EXCEPT !.hub.listeners[l] = n1]
    BY <1>4, <1>12
  <2>2. [x EXCEPT !.hub.listeners[l] = n1] = Put(x, l, n1)
    BY <1>5, <1>12, PutIs
  <2> QED  BY <1>12, <1>13, <2>1, <2>2
<1>18. [y EXCEPT !.hub.listeners[l].acked = FALSE] = z
  <2>1. [y EXCEPT !.hub.listeners[l].acked = FALSE] = [y EXCEPT !.hub.listeners[l] = n2]
    BY <1>6, <1>14
  <2>2. [y EXCEPT !.hub.listeners[l] = n2] = Put(y, l, n2)
    BY <1>7, <1>14, PutIs
  <2> QED  BY <1>14, <1>15, <2>1, <2>2
<1>19. [z EXCEPT !.hub.listeners[l].connected = 0] = Put(w, l, n)
  <2>1. [z EXCEPT !.hub.listeners[l].connected = 0] = [z EXCEPT !.hub.listeners[l] = n]
    BY <1>8, <1>16
  <2>2. [z EXCEPT !.hub.listeners[l] = n] = Put(z, l, n)
    BY <1>9, <1>16, PutIs
  <2> QED  BY <1>16, <2>1, <2>2
<1>20. [x EXCEPT !.hub.listeners[l].installed = 0, !.hub.listeners[l].acked = FALSE,
                 !.hub.listeners[l].connected = 0]
         = [[[x EXCEPT !.hub.listeners[l].installed = 0]
               EXCEPT !.hub.listeners[l].acked = FALSE] EXCEPT !.hub.listeners[l].connected = 0]
  OBVIOUS
<1>21. [x EXCEPT !.hub.listeners[l].installed = 0, !.hub.listeners[l].acked = FALSE,
                 !.hub.listeners[l].connected = 0] = Put(w, l, n)
  BY ONLY <1>17, <1>18, <1>19, <1>20
<1> QED  BY ZenonT(60), <1>3, <1>9, <1>10, <1>11, <1>21

(* remove does that. *)
LEMMA RemovedIs ==
  ASSUME filter \in [Listeners -> Keys], NEW w, Sound(w), NEW l \in Active(w.hub)
  PROVE  Removed(RemoveListener([w EXCEPT !.hub.listeners[l].phase = "gone"], l), w, l)
<1>1. w \in Worlds /\ Connected(w) /\ l \in Listeners
  BY DEF Sound, Serving, Active
<1>2. PICK v : v = RemoveListener([w EXCEPT !.hub.listeners[l].phase = "gone"], l)
  OBVIOUS
<1>3. PICK g \in Listener, n \in Listener :
        /\ g.phase = "gone" /\ g.installed = w.hub.listeners[l].installed
        /\ g.acked = w.hub.listeners[l].acked /\ g.connected = w.hub.listeners[l].connected
        /\ n.phase = "gone" /\ n.installed = 0 /\ ~n.acked /\ n.connected = 0
        /\ [w EXCEPT !.hub.listeners[l].phase = "gone"] = Put(w, l, g)
        /\ [Put(w, l, g) EXCEPT !.hub.listeners[l].installed = 0,
               !.hub.listeners[l].acked = FALSE, !.hub.listeners[l].connected = 0]
             = Put(w, l, n)
  BY <1>1, GoneIs
<1>4. PICK wg, wn : wg = Put(w, l, g) /\ wn = Put(w, l, n)
  OBVIOUS
<1>5. Placed(wg, w, l, g)
  BY <1>1, <1>3, <1>4, PutIs
<1>6. Placed(wn, w, l, n)
  BY <1>1, <1>3, <1>4, PutIs
<1> DEFINE shared == \E o \in Active(wg.hub) :
                       wg.hub.listeners[o].installed # 0 /\ filter[o] = filter[l]
           u == Off(wn, l)
<1>7. v = CASE wg.hub.listeners[l].installed = 0 -> wg
            [] wg.hub.listeners[l].installed # 0 /\ Up(wg.hub) /\ ~shared -> DropAcks(u, {filter[l]})
            [] OTHER -> u
  <2>1. v = RemoveListener(wg, l)
    BY <1>2, <1>3, <1>4
  <2>2. [wg EXCEPT !.hub.listeners[l].installed = 0, !.hub.listeners[l].acked = FALSE,
                   !.hub.listeners[l].connected = 0] = wn
    BY <1>3, <1>4
  <2> QED  BY <2>1, <2>2 DEF RemoveListener
<1>8. CASE w.hub.listeners[l].installed = 0
  <2>1. v = wg
    BY <1>3, <1>5, <1>7, <1>8 DEF Placed
  <2>2. l \notin w.wire.handlers /\ ~g.acked /\ g.connected = 0
    BY <1>1, <1>3, <1>8 DEF Connected
  <2>3. v.wire.handlers = w.wire.handlers \ {l} /\ v.wire = w.wire
    BY <1>5, <2>1, <2>2 DEF Placed
  <2>4. \A i \in DOMAIN w.wire.requests :
          w.wire.requests[i].live => w.wire.requests[i].key \in KeysOf(w.wire.handlers)
    BY DEF Sound, Serving, Requested
  <2>5. KeysOf(v.wire.handlers) = KeysOf(w.wire.handlers)
    BY <2>2, <2>3 DEF KeysOf
  <2>6. Removed(v, w, l)
    BY <1>3, <1>5, <1>8, <2>1, <2>2, <2>3, <2>4, <2>5 DEF Removed, Placed
  <2> QED  BY <1>2, <2>6
<1>9. CASE w.hub.listeners[l].installed # 0
  <2>1. Up(wg.hub) /\ l \in w.wire.handlers
    BY <1>1, <1>5, <1>9 DEF Connected, Up, Placed
  <2>2. v = IF shared THEN u ELSE DropAcks(u, {filter[l]})
    BY <1>3, <1>5, <1>7, <1>9, <2>1 DEF Placed
  <2>3. shared <=> filter[l] \in KeysOf(w.wire.handlers \ {l})
    <3>1. \A o \in Listeners : o \in Active(wg.hub) /\ wg.hub.listeners[o].installed # 0
                                 <=> o \in w.wire.handlers \ {l}
      <4> SUFFICES ASSUME NEW o \in Listeners
                   PROVE  o \in Active(wg.hub) /\ wg.hub.listeners[o].installed # 0
                            <=> o \in w.wire.handlers \ {l}
        OBVIOUS
      <4>1. CASE o = l
        BY <1>3, <1>5, <4>1 DEF Active, Placed
      <4>2. CASE o # l
        <5>1. wg.hub.listeners[o] = w.hub.listeners[o]
          BY <1>5, <4>2 DEF Placed
        <5>2. /\ w.hub.listeners[o].installed # 0 => w.hub.listeners[o].phase = "active"
              /\ o \in w.wire.handlers <=> w.hub.listeners[o].installed # 0
          BY <1>1 DEF Connected
        <5> QED  BY <4>2, <5>1, <5>2 DEF Active
      <4> QED  BY <4>1, <4>2
    <3>2. w.wire.handlers \subseteq Listeners
      BY <1>1, Parts
    <3> QED  BY <3>1, <3>2 DEF KeysOf, Active
  <2>4. KeysOf(w.wire.handlers) = KeysOf(w.wire.handlers \ {l}) \cup {filter[l]}
    BY <2>1 DEF KeysOf
  <2> HIDE DEF shared
  <2>5. Unhandled(u, wn, l)
    <3>1. l \in wn.wire.handlers /\ wn \in Worlds
      BY <1>6, <2>1 DEF Placed
    <3> QED  BY <3>1, OffIs
  <2> HIDE DEF u
  <2>6. /\ u \in Worlds /\ u.wire.handlers = w.wire.handlers \ {l}
        /\ u.hub = wn.hub /\ u.wire.doubled = w.wire.doubled
    BY <1>6, <2>5 DEF Unhandled, Placed
  <2>7. DOMAIN u.wire.requests = DOMAIN w.wire.requests
    BY <1>6, <2>5 DEF Unhandled, Placed
  <2>8. \A i \in DOMAIN w.wire.requests :
         /\ u.wire.requests[i].key = w.wire.requests[i].key
         /\ u.wire.requests[i].sent = w.wire.requests[i].sent
         /\ u.wire.requests[i].mapped = w.wire.requests[i].mapped
         /\ u.wire.requests[i].live <=>
              w.wire.requests[i].live /\ w.wire.requests[i].key \in KeysOf(u.wire.handlers)
    <3>1. wn.wire = w.wire
      BY <1>6 DEF Placed
    <3> QED  BY <2>5, <3>1 DEF Unhandled
  <2>9. \A k \in Keys \cap KeysOf(u.wire.handlers) : u.wire.sub[k] = w.wire.sub[k]
    <3>1. wn.wire = w.wire
      BY <1>6 DEF Placed
    <3> QED  BY <2>5, <3>1 DEF Unhandled
  <2>10. /\ u.hub.generation = w.hub.generation /\ u.hub.connection = w.hub.connection
         /\ u.hub.attempt = w.hub.attempt /\ u.hub.retry = w.hub.retry
         /\ u.hub.health = w.hub.health /\ u.hub.acks = w.hub.acks
         /\ u.hub.pending = w.hub.pending
         /\ u.hub.listeners[l] = n
         /\ \A o \in Listeners \ {l} : u.hub.listeners[o] = w.hub.listeners[o]
    BY <1>6, <2>6 DEF Placed
  <2>11. CASE shared
    <3>1. v = u /\ KeysOf(w.wire.handlers) = KeysOf(v.wire.handlers)
      BY <2>2, <2>3, <2>4, <2>6, <2>11
    <3>2. \A i \in DOMAIN w.wire.requests :
            v.wire.requests[i].mapped = w.wire.requests[i].mapped
      BY <2>8, <3>1
    <3>3. Removed(v, w, l)
      BY <1>3, <2>6, <2>7, <2>8, <2>9, <2>10, <3>1, <3>2 DEF Removed
    <3> QED  BY <1>2, <3>3
  <2>12. CASE ~shared
    <3>1. Dropped(v, u, {filter[l]})
      BY <2>2, <2>6, <2>12, DropIs
    <3>2. /\ v \in Worlds /\ v.wire.handlers = u.wire.handlers /\ v.wire.sub = u.wire.sub
          /\ v.wire.doubled = w.wire.doubled
      BY <2>6, <3>1 DEF Dropped
    <3>3. /\ KeysOf(w.wire.handlers) = KeysOf(v.wire.handlers) \cup {filter[l]}
          /\ filter[l] \notin KeysOf(v.wire.handlers)
      BY <2>3, <2>4, <2>6, <2>12, <3>2
    <3>4. \A k \in Keys : v.hub.acks[k] = IF k = filter[l] THEN "none" ELSE w.hub.acks[k]
      BY <2>10, <3>1 DEF Dropped
    <3>5. \A k \in Keys : v.hub.acks[k] = "none" \/ (v.hub.acks[k] = w.hub.acks[k]
                        /\ (k \in KeysOf(w.wire.handlers) => k \in KeysOf(v.wire.handlers)))
      BY <3>3, <3>4
    <3>6. \A k \in Keys \cap KeysOf(v.wire.handlers) :
            v.hub.acks[k] = w.hub.acks[k] /\ v.wire.sub[k] = w.wire.sub[k]
      BY <2>9, <3>2, <3>3, <3>4
    <3>7. v.hub.pending \subseteq w.hub.pending
      BY <2>10, <3>1 DEF Dropped
    <3>8. DOMAIN v.wire.requests = DOMAIN w.wire.requests
      BY <2>7, <3>1 DEF Dropped
    <3>9. \A i \in DOMAIN w.wire.requests :
           /\ v.wire.requests[i].key = u.wire.requests[i].key
           /\ v.wire.requests[i].sent = u.wire.requests[i].sent
           /\ v.wire.requests[i].live = u.wire.requests[i].live
           /\ v.wire.requests[i].mapped =>
                u.wire.requests[i].mapped /\ u.wire.requests[i].key # filter[l]
      BY <2>7, <3>1 DEF Dropped
    <3>10. \A i \in DOMAIN w.wire.requests :
           /\ v.wire.requests[i].key = w.wire.requests[i].key
           /\ v.wire.requests[i].sent = w.wire.requests[i].sent
           /\ v.wire.requests[i].live <=>
                w.wire.requests[i].live /\ w.wire.requests[i].key \in KeysOf(v.wire.handlers)
           /\ v.wire.requests[i].mapped =>
                /\ w.wire.requests[i].mapped
                /\ w.wire.requests[i].key \in KeysOf(w.wire.handlers) =>
                     w.wire.requests[i].key \in KeysOf(v.wire.handlers)
      BY <2>8, <3>2, <3>3, <3>9
    <3>11. /\ v.hub.generation = u.hub.generation /\ v.hub.connection = u.hub.connection
           /\ v.hub.attempt = u.hub.attempt /\ v.hub.retry = u.hub.retry
           /\ v.hub.health = u.hub.health /\ v.hub.listeners = u.hub.listeners
      BY <3>1 DEF Dropped
    <3>12. Removed(v, w, l)
      BY ZenonT(60), <1>3, <2>6, <2>10, <3>2, <3>5, <3>6, <3>7, <3>8, <3>10, <3>11 DEF Removed
    <3> QED  BY <1>2, <3>12
  <2> QED  BY <2>11, <2>12
<1> QED  BY <1>8, <1>9

(* It leaves the others served. *)
LEMMA RemovedKeeps ==
  ASSUME filter \in [Listeners -> Keys], NEW w, Sound(w), NEW l \in Active(w.hub),
         NEW v, Removed(v, w, l)
  PROVE  Serving(v) /\ IsFiniteSet(Active(v.hub))
<1>1. /\ w \in Worlds /\ Connected(w) /\ l \in Listeners /\ v \in Worlds
      /\ IsFiniteSet(Active(w.hub))
  BY DEF Sound, Serving, Active, Removed, Quiet
<1>2. \A o \in Listeners : o \in v.wire.handlers <=> o \in w.wire.handlers /\ o # l
  BY DEF Removed
<1>3. IsFiniteSet(Active(v.hub))
  <2>1. Active(v.hub) \subseteq Active(w.hub)
    BY DEF Active, Removed
  <2> QED  BY <1>1, <2>1, FS_Subset
<1>4. Connected(v)
  <2>1. /\ v.hub.connection.gen \in {0, v.hub.generation}
        /\ v.hub.attempt.phase \in {"load", "network"} => ~Up(v.hub)
    BY <1>1 DEF Connected, Removed, Up
  <2> SUFFICES ASSUME NEW o \in Listeners
               PROVE  /\ v.hub.listeners[o].installed \in {0, v.hub.connection.gen}
                      /\ v.hub.listeners[o].connected \in {0, v.hub.listeners[o].installed}
                      /\ v.hub.listeners[o].acked => v.hub.listeners[o].installed # 0
                      /\ v.hub.listeners[o].installed # 0 => v.hub.listeners[o].phase = "active"
                      /\ o \in v.hub.pending /\ v.hub.listeners[o].phase = "active" =>
                           v.hub.listeners[o].installed # 0
                      /\ o \in v.hub.pending => v.hub.listeners[o].phase # "new"
                      /\ o \in v.wire.handlers <=> v.hub.listeners[o].installed # 0
    BY <2>1 DEF Connected
  <2>2. CASE o = l
    BY <1>2, <2>2 DEF Removed
  <2>3. CASE o # l
    <3>1. /\ v.hub.listeners[o] = w.hub.listeners[o] /\ v.hub.connection = w.hub.connection
          /\ o \in v.hub.pending => o \in w.hub.pending
      BY <2>3 DEF Removed
    <3> QED  BY <1>1, <1>2, <2>3, <3>1 DEF Connected
  <2> QED  BY <2>2, <2>3
<1>5. \A k \in Keys : v.hub.acks[k] # "none" =>
        v.hub.acks[k] = w.hub.acks[k] /\ k \in KeysOf(v.wire.handlers)
  BY DEF Removed, Sound, Serving, AckHasHandler
<1>6. AckHasHandler(v)
  BY <1>5 DEF AckHasHandler
<1>7. AckedIsResolved(v)
  <2> SUFFICES ASSUME NEW o \in Listeners, v.hub.listeners[o].acked
               PROVE  v.hub.acks[filter[o]] = "resolved"
    BY DEF AckedIsResolved
  <2>1. o # l /\ v.hub.listeners[o] = w.hub.listeners[o] /\ v.hub.listeners[o].installed # 0
    BY <1>4 DEF Removed, Connected
  <2>2. w.hub.acks[filter[o]] = "resolved"
    BY <2>1 DEF Sound, Serving, AckedIsResolved
  <2>3. filter[o] \in Keys \cap KeysOf(v.wire.handlers)
    BY <1>4, <2>1 DEF KeysOf, Connected
  <2> QED  BY <2>2, <2>3 DEF Removed
<1>8. ToldIsAcked(v)
  <2> SUFFICES ASSUME NEW o \in Listeners, v.hub.listeners[o].phase = "active",
                      v.hub.listeners[o].told = "connected"
               PROVE  /\ v.hub.listeners[o].acked /\ v.hub.listeners[o].connected # 0
                      /\ v.hub.connection.heartbeat
    BY DEF ToldIsAcked
  <2>1. o # l /\ v.hub.listeners[o] = w.hub.listeners[o] /\ v.hub.connection = w.hub.connection
    BY DEF Removed
  <2> QED  BY <2>1 DEF Sound, Serving, ToldIsAcked
<1>9. /\ DOMAIN v.wire.requests = DOMAIN w.wire.requests
      /\ \A i \in DOMAIN w.wire.requests :
           /\ v.wire.requests[i].key = w.wire.requests[i].key
           /\ v.wire.requests[i].sent = w.wire.requests[i].sent
           /\ v.wire.requests[i].live <=>
                w.wire.requests[i].live /\ w.wire.requests[i].key \in KeysOf(v.wire.handlers)
           /\ v.wire.requests[i].mapped =>
                /\ w.wire.requests[i].mapped
                /\ w.wire.requests[i].key \in KeysOf(w.wire.handlers) =>
                     w.wire.requests[i].key \in KeysOf(v.wire.handlers)
  BY DEF Removed
<1>10. Requested(v)
  BY <1>9 DEF Requested, Sound, Serving
<1>11. TiedIsLive(v)
  <2>0. w.wire.doubled = v.wire.doubled
    BY DEF Removed
  <2> SUFFICES ASSUME NEW i \in DOMAIN w.wire.requests,
                      Waited(v.wire.requests[i], v.wire.handlers),
                      v.wire.requests[i].key \notin w.wire.doubled
               PROVE  v.wire.requests[i].live
    BY <1>9, <2>0 DEF TiedIsLive
  <2>1. KeysOf(v.wire.handlers) \subseteq KeysOf(w.wire.handlers)
    <3>1. v.wire.handlers \subseteq w.wire.handlers
      BY DEF Removed
    <3> QED  BY <3>1 DEF KeysOf
  <2>2. Waited(w.wire.requests[i], w.wire.handlers)
    BY <1>9, <2>1 DEF Waited
  <2>3. w.wire.requests[i].live
    BY <1>9, <2>2 DEF Sound, Serving, TiedIsLive
  <2>4. w.wire.requests[i].key \in KeysOf(w.wire.handlers)
    BY <2>3 DEF Sound, Serving, Requested
  <2> QED  BY <1>9, <2>3, <2>4 DEF Waited
<1>12. ResolvedIsAccepted(v)
  <2> SUFFICES ASSUME NEW k \in Keys \ v.wire.doubled, v.hub.acks[k] = "resolved"
               PROVE  /\ v.wire.sub[k] = "accepted"
                      /\ \A i \in DOMAIN v.wire.requests :
                           v.wire.requests[i].live => v.wire.requests[i].key # k
    BY DEF ResolvedIsAccepted
  <2>1. w.hub.acks[k] = "resolved" /\ k \in KeysOf(v.wire.handlers)
    BY <1>5
  <2>2. /\ w.wire.sub[k] = "accepted"
        /\ \A i \in DOMAIN w.wire.requests : w.wire.requests[i].live => w.wire.requests[i].key # k
    BY <2>1 DEF Sound, Serving, ResolvedIsAccepted, Removed
  <2>3. v.wire.sub[k] = w.wire.sub[k]
    BY <2>1 DEF Removed
  <2> QED  BY <1>9, <2>2, <2>3
<1> QED  BY <1>1, <1>3, <1>4, <1>6, <1>7, <1>8, <1>10, <1>11, <1>12 DEF Serving

(* The last listener closes the hub. *)
LEMMA IdleKeeps ==
  ASSUME filter \in [Listeners -> Keys], NEW w, Serving(w), Active(w.hub) = {}
  PROVE  Sound(DropAcks([w EXCEPT !.hub.generation = w.hub.generation + 1, !.hub.retry = FALSE,
                                  !.hub.health = FALSE, !.hub.connection = NoConnection], Keys))
<1> DEFINE h == [w.hub EXCEPT !.generation = w.hub.generation + 1, !.retry = FALSE,
                              !.health = FALSE, !.connection = NoConnection]
<1>1. w \in Worlds /\ Connected(w) /\ Requested(w)
  BY DEF Serving
<1>2. PICK u : u = [hub |-> h, wire |-> w.wire]
  OBVIOUS
<1>3. PICK v : v = DropAcks(u, Keys)
  OBVIOUS
<1>4. /\ h \in Hubs /\ h.listeners = w.hub.listeners /\ h.connection.gen = 0
      /\ ~h.retry /\ ~h.health
  <2>1. PICK g \in Nat : g = w.hub.generation + 1
    BY <1>1, Parts
  <2>2. PICK c \in [gen : Nat, heartbeat : BOOLEAN, blocks : BOOLEAN] : c = NoConnection /\ c.gen = 0
    <3>1. /\ NoConnection \in [gen : Nat, heartbeat : BOOLEAN, blocks : BOOLEAN]
          /\ NoConnection.gen = 0
      BY DEF NoConnection
    <3> QED  BY <3>1
  <2>3. h = [w.hub EXCEPT !.generation = g, !.retry = FALSE, !.health = FALSE, !.connection = c]
    BY <2>1, <2>2
  <2> HIDE DEF h
  <2>4. w.hub \in Hubs
    BY <1>1, Parts
  <2> QED  BY <2>1, <2>2, <2>3, <2>4 DEF Hubs
<1>5. DropAcks([w EXCEPT !.hub.generation = w.hub.generation + 1, !.hub.retry = FALSE,
                         !.hub.health = FALSE, !.hub.connection = NoConnection], Keys) = v
  <2>1. [w EXCEPT !.hub.generation = w.hub.generation + 1, !.hub.retry = FALSE,
                  !.hub.health = FALSE, !.hub.connection = NoConnection] = [w EXCEPT !.hub = h]
    BY <1>1, Parts DEF Hubs
  <2> HIDE DEF h
  <2>2. [w EXCEPT !.hub = h] = [hub |-> h, wire |-> w.wire]
    BY <1>1, Parts
  <2> QED  BY <1>2, <1>3, <2>1, <2>2
<1> HIDE DEF h
<1>6. u \in Worlds /\ u.hub = h /\ u.wire = w.wire
  BY <1>1, <1>2, <1>4, Parts DEF Worlds
<1>7. Dropped(v, u, Keys)
  BY <1>3, <1>6, DropIs
<1>8. \A l \in Listeners :
        /\ w.hub.listeners[l].phase # "active" /\ w.hub.listeners[l].installed = 0
        /\ w.hub.listeners[l].connected = 0 /\ ~w.hub.listeners[l].acked
        /\ l \notin w.wire.handlers
  BY <1>1 DEF Active, Connected
<1>9. /\ v \in Worlds /\ v.hub.connection.gen = 0 /\ ~v.hub.retry /\ ~v.hub.health
      /\ v.hub.listeners = w.hub.listeners /\ v.wire.handlers = w.wire.handlers
      /\ \A k \in Keys : v.hub.acks[k] = "none"
      /\ v.hub.pending = {}
  <2>1. v \in Worlds
    BY <1>7 DEF Dropped
  <2>2. v.hub.pending \subseteq Listeners
    BY <2>1, Parts
  <2>3. v.hub.pending = {}
    BY <1>7, <2>2 DEF Dropped
  <2> QED  BY <1>4, <1>6, <1>7, <2>1, <2>3 DEF Dropped
<1>10. Connected(v)
  BY <1>8, <1>9 DEF Connected, Up
<1>11. Quiet(v)
  <2>1. Active(v.hub) = {}
    BY <1>8, <1>9 DEF Active
  <2> QED  BY <1>9, <2>1, FS_EmptySet DEF Quiet, Up
<1>12. \A i \in DOMAIN v.wire.requests : ~v.wire.requests[i].live
  <2>1. w.wire.handlers = {}
    BY <1>1, <1>8, Parts
  <2>2. \A i \in DOMAIN w.wire.requests : ~w.wire.requests[i].live
    BY <1>1, <2>1 DEF Requested, KeysOf
  <2> QED  BY <1>6, <1>7, <2>2 DEF Dropped
<1>13. Requested(v) /\ AckHasHandler(v) /\ ResolvedIsAccepted(v)
  BY <1>9, <1>12 DEF Requested, AckHasHandler, ResolvedIsAccepted
<1>14. AckedIsResolved(v) /\ ToldIsAcked(v)
  BY <1>8, <1>9 DEF AckedIsResolved, ToldIsAcked
<1>15. TiedIsLive(v)
  <2> SUFFICES ASSUME NEW i \in DOMAIN w.wire.requests
               PROVE  ~Waited(v.wire.requests[i], v.wire.handlers)
    BY <1>6, <1>7 DEF TiedIsLive, Dropped
  <2>1. w.wire.requests[i].key \in Keys
    BY <1>1, Parts DEF Request
  <2>2. v.wire.handlers = {}
    BY <1>1, <1>8, <1>9, Parts
  <2>3. ~v.wire.requests[i].mapped
    BY <1>6, <1>7, <2>1 DEF Dropped
  <2> QED  BY <2>2, <2>3 DEF Waited, KeysOf
<1>16. Sound(v)
  BY <1>9, <1>10, <1>11, <1>13, <1>14, <1>15 DEF Sound, Serving
<1> QED  BY <1>5, <1>16

-----------------------------------------------------------------------------
(* Who is acknowledged and told.                                           *)

(* Other records of the listeners: where they are installed stays, and     *)
(* they claim no more than there is.                                       *)
Relisted(f, w) ==
  /\ f \in [Listeners -> Listener]
  /\ \A l \in Listeners :
       /\ f[l].phase = w.hub.listeners[l].phase
       /\ f[l].installed = w.hub.listeners[l].installed
       /\ f[l].connected \in {0, f[l].installed}
       /\ f[l].acked => f[l].installed # 0 /\ w.hub.acks[filter[l]] = "resolved"
       /\ f[l].phase = "active" /\ f[l].told = "connected" =>
            f[l].acked /\ f[l].connected # 0 /\ w.hub.connection.heartbeat

(* They are sound. *)
LEMMA RelistedKeeps ==
  ASSUME NEW w, Sound(w), NEW f, Relisted(f, w),
         NEW v, v = [hub |-> [w.hub EXCEPT !.listeners = f], wire |-> w.wire]
  PROVE  Sound(v)
<1>1. w \in Worlds /\ Connected(w) /\ Quiet(w)
  BY DEF Sound, Serving
<1>2. PICK h : h = [w.hub EXCEPT !.listeners = f]
  OBVIOUS
<1>3. /\ h \in Hubs /\ h.listeners = f /\ h.generation = w.hub.generation
      /\ h.connection = w.hub.connection /\ h.attempt = w.hub.attempt
      /\ h.retry = w.hub.retry /\ h.health = w.hub.health /\ h.acks = w.hub.acks
      /\ h.pending = w.hub.pending
  <2>1. w.hub \in Hubs /\ f \in [Listeners -> Listener]
    BY <1>1, Parts DEF Relisted
  <2> QED  BY ONLY <1>2, <2>1 DEF Hubs
<1>4. v \in Worlds /\ v.hub = h /\ v.wire = w.wire
  BY <1>1, <1>2, <1>3, Parts DEF Worlds
<1>5. Quiet(v)
  <2>1. Active(v.hub) = Active(w.hub)
    BY <1>3, <1>4 DEF Active, Relisted
  <2> QED  BY <1>1, <1>3, <1>4, <2>1 DEF Quiet, Up
<1>6. Connected(v)
  <2>1. /\ v.hub.listeners = f /\ v.hub.generation = w.hub.generation
        /\ v.hub.connection = w.hub.connection /\ v.hub.attempt = w.hub.attempt
        /\ v.hub.pending = w.hub.pending /\ v.wire.handlers = w.wire.handlers
    BY <1>3, <1>4
  <2>2. Up(v.hub) <=> Up(w.hub)
    BY ONLY <2>1 DEF Up
  <2>3. ASSUME NEW l \in Listeners
        PROVE  /\ f[l].phase = w.hub.listeners[l].phase
               /\ f[l].installed = w.hub.listeners[l].installed
               /\ f[l].connected \in {0, f[l].installed}
               /\ f[l].acked => f[l].installed # 0
    BY DEF Relisted
  <2> QED  BY ONLY <1>1, <2>1, <2>2, <2>3 DEF Connected
<1>7. AckedIsResolved(v) /\ ToldIsAcked(v)
  BY <1>3, <1>4 DEF AckedIsResolved, ToldIsAcked, Relisted
<1>8. Requested(v) /\ AckHasHandler(v)
  BY <1>3, <1>4 DEF Sound, Serving, Requested, AckHasHandler
<1>9. TiedIsLive(v) /\ ResolvedIsAccepted(v)
  BY <1>3, <1>4 DEF Sound, Serving, TiedIsLive, ResolvedIsAccepted
<1> QED  BY <1>4, <1>5, <1>6, <1>7, <1>8, <1>9 DEF Sound, Serving

(* Those who are acknowledged are told, once a block was seen. *)
LEMMA PublishKeeps ==
  ASSUME NEW w, Sound(w)
  PROVE  Sound([hub |-> Publish(w.hub), wire |-> w.wire])
<1> DEFINE ready(l) == /\ Up(w.hub) /\ w.hub.connection.heartbeat /\ l \in Active(w.hub)
                       /\ w.hub.listeners[l].acked /\ Installed(w.hub, l)
                       /\ w.hub.listeners[l].connected # w.hub.connection.gen
           told(l) == [w.hub.listeners[l] EXCEPT !.told = "connected",
                                                 !.connected = w.hub.connection.gen]
           f == [l \in Listeners |-> IF ready(l) THEN told(l) ELSE w.hub.listeners[l]]
<1>1. w \in Worlds /\ Connected(w)
  BY DEF Sound, Serving
<1>2. Publish(w.hub) = [w.hub EXCEPT !.listeners = f]
  BY DEF Publish
<1>3. ASSUME NEW l \in Listeners
      PROVE  /\ told(l) \in Listener /\ told(l).phase = w.hub.listeners[l].phase
             /\ told(l).installed = w.hub.listeners[l].installed
             /\ told(l).acked = w.hub.listeners[l].acked
             /\ told(l).connected = w.hub.connection.gen
  <2>1. w.hub.listeners[l] \in Listener /\ w.hub.connection.gen \in Nat
    BY <1>1, <1>3, Parts
  <2> QED  BY <2>1 DEF Listener, Told3
<1>4. ASSUME NEW l \in Listeners, ready(l)
      PROVE  /\ w.hub.connection.heartbeat /\ w.hub.listeners[l].acked
             /\ w.hub.listeners[l].installed = w.hub.connection.gen
             /\ w.hub.connection.gen # 0
  BY <1>4 DEF Up, Installed
<1> HIDE DEF ready, told
<1>5. ASSUME NEW l \in Listeners
      PROVE  /\ w.hub.listeners[l] \in Listener
             /\ w.hub.listeners[l].connected \in {0, w.hub.listeners[l].installed}
             /\ w.hub.listeners[l].acked =>
                  w.hub.listeners[l].installed # 0 /\ w.hub.acks[filter[l]] = "resolved"
             /\ w.hub.listeners[l].phase = "active" /\ w.hub.listeners[l].told = "connected" =>
                  w.hub.listeners[l].acked /\ w.hub.listeners[l].connected # 0
                  /\ w.hub.connection.heartbeat
  <2>1. w.hub.listeners[l] \in Listener
    BY <1>1, <1>5, Parts
  <2> QED  BY <1>1, <1>5, <2>1 DEF Sound, Serving, Connected, AckedIsResolved, ToldIsAcked
<1>6. Relisted(f, w)
  <2>1. \A l \in Listeners : f[l] = IF ready(l) THEN told(l) ELSE w.hub.listeners[l]
    OBVIOUS
  <2>2. f \in [Listeners -> Listener]
    BY <1>3, <1>5
  <2> HIDE DEF f
  <2> SUFFICES ASSUME NEW l \in Listeners
               PROVE  /\ f[l].phase = w.hub.listeners[l].phase
                      /\ f[l].installed = w.hub.listeners[l].installed
                      /\ f[l].connected \in {0, f[l].installed}
                      /\ f[l].acked => f[l].installed # 0 /\ w.hub.acks[filter[l]] = "resolved"
                      /\ f[l].phase = "active" /\ f[l].told = "connected" =>
                           f[l].acked /\ f[l].connected # 0 /\ w.hub.connection.heartbeat
    BY <2>2 DEF Relisted
  <2>3. CASE ready(l)
    BY <1>3, <1>4, <1>5, <2>1, <2>3
  <2>4. CASE ~ready(l)
    BY <1>5, <2>1, <2>4
  <2> QED  BY <2>3, <2>4
<1> HIDE DEF f
<1>7. PICK v : v = [hub |-> [w.hub EXCEPT !.listeners = f], wire |-> w.wire]
  OBVIOUS
<1>8. Sound(v)
  BY <1>6, <1>7, RelistedKeeps
<1> QED  BY <1>2, <1>7, <1>8

(* A listener comes. *)
LEMMA SubscribeKeeps ==
  ASSUME filter \in [Listeners -> Keys], NEW w, Sound(w), NEW l \in Listeners,
         w.hub.listeners[l].phase = "new"
  PROVE  Sound([w EXCEPT !.hub.listeners[l].phase = "active",
                         !.hub.listeners[l].told = "reconnecting"])
<1>1. w \in Worlds /\ Connected(w) /\ IsFiniteSet(Active(w.hub))
  BY DEF Sound, Serving, Quiet
<1>2. w.hub.listeners[l] \in Listener
  BY <1>1, Parts
<1>3. PICK n1 : n1 = [w.hub.listeners[l] EXCEPT !.phase = "active"]
  OBVIOUS
<1>4. n1 \in Listener /\ n1.phase = "active" /\ n1.installed = w.hub.listeners[l].installed
      /\ n1.acked = w.hub.listeners[l].acked /\ n1.connected = w.hub.listeners[l].connected
  BY <1>2, <1>3 DEF Listener
<1>5. PICK n : n = [n1 EXCEPT !.told = "reconnecting"]
  OBVIOUS
<1>6. n \in Listener /\ n.phase = "active" /\ n.told = "reconnecting"
      /\ n.installed = w.hub.listeners[l].installed
      /\ n.acked = w.hub.listeners[l].acked /\ n.connected = w.hub.listeners[l].connected
  BY <1>4, <1>5 DEF Listener, Told3
<1>7. PICK x : x = Put(w, l, n1)
  OBVIOUS
<1>8. x \in Worlds /\ x.hub.listeners[l] = n1 /\ \A m : Put(x, l, m) = Put(w, l, m)
  BY <1>1, <1>4, <1>7, PutIs DEF Placed
<1>9. PICK v : v = Put(w, l, n)
  OBVIOUS
<1>10. [w EXCEPT !.hub.listeners[l].phase = "active",
                 !.hub.listeners[l].told = "reconnecting"] = v
  <2>1. [w EXCEPT !.hub.listeners[l].phase = "active"] = x
    <3>1. [w EXCEPT !.hub.listeners[l].phase = "active"] = [w EXCEPT !.hub.listeners[l] = n1]
      BY <1>3
    <3>2. [w EXCEPT !.hub.listeners[l] = n1] = Put(w, l, n1)
      BY <1>1, <1>4, PutIs
    <3> QED  BY <1>7, <3>1, <3>2
  <2>2. [x EXCEPT !.hub.listeners[l].told = "reconnecting"] = v
    <3>1. [x EXCEPT !.hub.listeners[l].told = "reconnecting"] = [x EXCEPT !.hub.listeners[l] = n]
      BY <1>5, <1>8
    <3>2. [x EXCEPT !.hub.listeners[l] = n] = Put(x, l, n)
      BY <1>6, <1>8, PutIs
    <3> QED  BY <1>8, <1>9, <3>1, <3>2
  <2> QED  BY <2>1, <2>2
<1>11. Placed(v, w, l, n)
  BY <1>1, <1>6, <1>9, PutIs
<1>12. /\ w.hub.listeners[l].installed = 0 /\ w.hub.listeners[l].connected = 0
       /\ ~w.hub.listeners[l].acked /\ l \notin w.hub.pending /\ l \notin w.wire.handlers
  BY <1>1 DEF Connected
<1>13. Active(v.hub) = Active(w.hub) \cup {l}
  BY <1>6, <1>11 DEF Active, Placed
<1>14. Quiet(v)
  BY <1>1, <1>13, FS_AddElement DEF Quiet
<1>15. Connected(v)
  BY <1>1, <1>6, <1>11, <1>12 DEF Connected, Placed, Up
<1>16. AckedIsResolved(v) /\ ToldIsAcked(v)
  BY <1>6, <1>11, <1>12 DEF AckedIsResolved, ToldIsAcked, Placed, Sound, Serving
<1>17. Requested(v) /\ AckHasHandler(v)
  BY <1>11 DEF Sound, Serving, Requested, AckHasHandler, Placed
<1>18. TiedIsLive(v) /\ ResolvedIsAccepted(v)
  BY <1>11 DEF Sound, Serving, TiedIsLive, ResolvedIsAccepted, Placed
<1>19. Sound(v)
  BY <1>11, <1>14, <1>15, <1>16, <1>17, <1>18 DEF Sound, Serving, Placed
<1> QED  BY <1>10, <1>19

-----------------------------------------------------------------------------
(* Messages.                                                               *)

(* A sequence has the others of s, each once, but for one. *)
Lacks(q, s, i) ==
  /\ DOMAIN q = 1..(Len(s) - 1)
  /\ \E e \in [1..(Len(s) - 1) -> 1..Len(s)] :
       /\ \A j, k \in 1..(Len(s) - 1) : e[j] = e[k] => j = k
       /\ \A j \in 1..(Len(s) - 1) : q[j] = s[e[j]] /\ e[j] # i

(* RemoveAt does that. *)
LEMMA RemovalIs ==
  ASSUME NEW s \in Seq(Request), NEW i \in 1..Len(s)
  PROVE  RemoveAt(s, i) \in Seq(Request) /\ Lacks(RemoveAt(s, i), s, i)
<1>0. PICK n \in Nat : n = Len(s)
  BY LenProperties
<1> DEFINE a == SubSeq(s, 1, i - 1)
           b == SubSeq(s, i + 1, Len(s))
           r == RemoveAt(s, i)
           e == [j \in 1..(n - 1) |-> IF j < i THEN j ELSE j + 1]
<1>1. a \in Seq(Request) /\ Len(a) = i - 1 /\ \A j \in 1..(i - 1) : a[j] = s[j]
  BY <1>0, SubSeqProperties
<1>2. b \in Seq(Request) /\ Len(b) = n - i /\ \A j \in 1..(n - i) : b[j] = s[i + j]
  <2>1. i + 1 \in 1..(n + 1) /\ n \in i..n
    BY <1>0
  <2>2. b \in Seq(Request) /\ Len(b) = IF i + 1 <= n THEN n - (i + 1) + 1 ELSE 0
    BY <2>1, <1>0, SubSeqProperties
  <2>3. \A j \in 1..(n - (i + 1) + 1) : b[j] = s[(i + 1) + j - 1]
    BY <2>1, <1>0, SubSeqProperties
  <2>4. Len(b) = n - i
    BY <2>2, <1>0
  <2>5. \A j \in 1..(n - i) : j \in 1..(n - (i + 1) + 1) /\ (i + 1) + j - 1 = i + j
    BY <1>0
  <2> QED  BY <2>2, <2>3, <2>4, <2>5
<1>3. r = a \o b
  BY DEF RemoveAt
<1> HIDE DEF a, b, r
<1>4. /\ r \in Seq(Request) /\ Len(r) = Len(a) + Len(b)
      /\ \A j \in 1..(Len(a) + Len(b)) : r[j] = IF j <= Len(a) THEN a[j] ELSE b[j - Len(a)]
  BY <1>1, <1>2, <1>3, ConcatProperties
<1>5. Len(r) = n - 1 /\ DOMAIN r = 1..Len(r)
  BY <1>0, <1>1, <1>2, <1>4, LenProperties
<1>6. ASSUME NEW j \in 1..(n - 1)
      PROVE  e[j] \in 1..n /\ e[j] # i /\ r[j] = s[e[j]]
  <2>0. r[j] = IF j <= i - 1 THEN a[j] ELSE b[j - (i - 1)]
    BY <1>0, <1>1, <1>2, <1>4
  <2>1. CASE j < i
    <3>1. j \in 1..(i - 1) /\ e[j] = j /\ j \in 1..n
      BY <1>0, <2>1
    <3> QED  BY <1>1, <2>0, <2>1, <3>1
  <2>2. CASE ~(j < i)
    <3>1. e[j] = j + 1
      BY <2>2
    <3>2. /\ j - (i - 1) \in 1..(n - i) /\ i + (j - (i - 1)) = j + 1 /\ ~(j <= i - 1)
          /\ j + 1 \in 1..n /\ j + 1 # i
      BY <1>0, <2>2
    <3> QED  BY <1>2, <2>0, <3>1, <3>2
  <2> QED  BY <2>1, <2>2
<1>7. ASSUME NEW j \in 1..(n - 1), NEW k \in 1..(n - 1), e[j] = e[k]
      PROVE  j = k
  BY <1>0, <1>7
<1>8. e \in [1..(n - 1) -> 1..n]
  <2>1. \A j \in 1..(n - 1) : (IF j < i THEN j ELSE j + 1) \in 1..n
    BY <1>0
  <2> QED  BY <2>1
<1> HIDE DEF e
<1> QED  BY <1>0, <1>4, <1>5, <1>6, <1>7, <1>8 DEF r, Lacks

(* Between two worlds a message went or came: the requests are some of     *)
(* those there were, none newly waited for, and no ack came or was         *)
(* unresolved.                                                             *)
Answered(a, x, w) ==
  /\ a \in [Keys -> AckStates] /\ x \in Wires /\ x.handlers = w.wire.handlers
  /\ x.doubled = w.wire.doubled
  /\ \A k \in Keys : a[k] # "none" => w.hub.acks[k] # "none"
  /\ \A k \in Keys : w.hub.acks[k] = "resolved" => a[k] = "resolved"
  /\ \E e \in [DOMAIN x.requests -> DOMAIN w.wire.requests] :
       /\ \A i, j \in DOMAIN x.requests : e[i] = e[j] => i = j
       /\ \A i \in DOMAIN x.requests :
            /\ x.requests[i].key = w.wire.requests[e[i]].key
            /\ x.requests[i].live = w.wire.requests[e[i]].live
            /\ Waited(x.requests[i], x.handlers) =>
                 Waited(w.wire.requests[e[i]], x.handlers)

(* It is sound, if an ack was resolved for a reason. *)
LEMMA AnsweredKeeps ==
  ASSUME filter \in [Listeners -> Keys], NEW w, Sound(w), NEW a, NEW x, Answered(a, x, w),
         NEW v, v = [hub |-> [w.hub EXCEPT !.acks = a], wire |-> x],
         ResolvedIsAccepted(v)
  PROVE  Sound(v)
<1>1. w \in Worlds /\ Connected(w) /\ Quiet(w)
  BY DEF Sound, Serving
<1>2. PICK h : h = [w.hub EXCEPT !.acks = a]
  OBVIOUS
<1>3. /\ h \in Hubs /\ h.listeners = w.hub.listeners /\ h.generation = w.hub.generation
      /\ h.connection = w.hub.connection /\ h.attempt = w.hub.attempt
      /\ h.retry = w.hub.retry /\ h.health = w.hub.health /\ h.acks = a
      /\ h.pending = w.hub.pending
  BY SMTT(40), <1>1, <1>2, Parts DEF Hubs, Answered
<1>4. /\ v \in Worlds /\ v.hub = h /\ v.wire = x
  BY <1>1, <1>2, <1>3, Parts DEF Worlds, Answered
<1>5. Quiet(v)
  <2>1. Active(v.hub) = Active(w.hub)
    BY <1>3, <1>4 DEF Active
  <2> QED  BY <1>1, <1>3, <1>4, <2>1 DEF Quiet, Up
<1>6. Connected(v)
  <2>1. /\ v.hub.listeners = w.hub.listeners /\ v.hub.generation = w.hub.generation
        /\ v.hub.connection = w.hub.connection /\ v.hub.attempt = w.hub.attempt
        /\ v.hub.pending = w.hub.pending /\ v.wire.handlers = w.wire.handlers
    BY <1>3, <1>4 DEF Answered
  <2>2. Up(v.hub) <=> Up(w.hub)
    BY ONLY <2>1 DEF Up
  <2> QED  BY ONLY <1>1, <2>1, <2>2 DEF Connected
<1>7. ToldIsAcked(v)
  BY <1>3, <1>4 DEF ToldIsAcked, Sound, Serving
<1>8. AckedIsResolved(v)
  BY <1>3, <1>4 DEF AckedIsResolved, Sound, Serving, Answered
<1>9. AckHasHandler(v)
  BY <1>3, <1>4 DEF AckHasHandler, Sound, Serving, Answered
<1>10. PICK e \in [DOMAIN x.requests -> DOMAIN w.wire.requests] :
         /\ \A i, j \in DOMAIN x.requests : e[i] = e[j] => i = j
         /\ \A i \in DOMAIN x.requests :
              /\ x.requests[i].key = w.wire.requests[e[i]].key
              /\ x.requests[i].live = w.wire.requests[e[i]].live
              /\ Waited(x.requests[i], x.handlers) =>
                   Waited(w.wire.requests[e[i]], x.handlers)
  BY DEF Answered
<1>11. Requested(v)
  <2>1. x.handlers = w.wire.handlers
    BY DEF Answered
  <2>2. \A i \in DOMAIN x.requests : x.requests[i].live => x.requests[i].key \in KeysOf(x.handlers)
    BY <1>10, <2>1 DEF Sound, Serving, Requested
  <2>3. \A i, j \in DOMAIN x.requests :
          /\ x.requests[i].live /\ x.requests[j].live
          /\ x.requests[i].key = x.requests[j].key
          => i = j
    BY <1>10 DEF Sound, Serving, Requested
  <2> QED  BY <1>4, <2>2, <2>3 DEF Requested
<1>12. TiedIsLive(v)
  <2>1. x.handlers = w.wire.handlers /\ x.doubled = w.wire.doubled
    BY DEF Answered
  <2> QED  BY <1>4, <1>10, <2>1 DEF TiedIsLive, Sound, Serving
<1> QED  BY <1>4, <1>5, <1>6, <1>7, <1>8, <1>9, <1>11, <1>12 DEF Sound, Serving

(* A step is sound if the world it leaves is. *)
LEMMA Becomes ==
  ASSUME filter' = filter, NEW v, hub' = v.hub, wire' = v.wire, Sound(v)
  PROVE  Sound(World)'
<1>1. v = [hub |-> hub', wire |-> wire']
  BY Parts DEF Sound, Serving
<1>2. PICK h, x : h = hub' /\ x = wire'
  OBVIOUS
<1>3. World' = v /\ v = [hub |-> h, wire |-> x] /\ v.hub = h /\ v.wire = x
  BY <1>1, <1>2 DEF World
<1>4. Quiet(World)'
  BY <1>2, <1>3 DEF Sound, Quiet, World, Active, Up
<1>5. Connected(World)'
  BY <1>2, <1>3 DEF Sound, Serving, Connected, World, Up
<1>6. Requested(World)' /\ AckHasHandler(World)'
  BY <1>2, <1>3 DEF Sound, Serving, Requested, AckHasHandler, World, KeysOf
<1>7. AckedIsResolved(World)' /\ ToldIsAcked(World)'
  BY <1>2, <1>3 DEF Sound, Serving, AckedIsResolved, ToldIsAcked, World
<1>8. (TiedIsLive(World) /\ ResolvedIsAccepted(World))'
  BY <1>2, <1>3 DEF Sound, Serving, TiedIsLive, ResolvedIsAccepted, World, Waited, KeysOf
<1>9. (World \in Worlds)'
  BY <1>3 DEF Sound, Serving
<1> QED  BY <1>4, <1>5, <1>6, <1>7, <1>8, <1>9 DEF Sound, Serving

(* The world there is. *)
LEMMA WorldIs ==
  ASSUME Sound(World)
  PROVE  /\ World.hub = hub /\ World.wire = wire /\ World \in Worlds
         /\ hub \in Hubs /\ wire \in Wires
         /\ wire.requests \in Seq(Request) /\ DOMAIN wire.requests = 1..Len(wire.requests)
         /\ \A i \in DOMAIN wire.requests : wire.requests[i] \in Request
<1>1. World.hub = hub /\ World.wire = wire /\ World \in Worlds
  BY DEF World, Sound, Serving
<1> QED  BY <1>1, Parts

(* Failures stay within their bound. *)
LEMMA FailKeeps ==
  ASSUME failures \in 0..MaxFailures, Fail \/ UNCHANGED failures
  PROVE  (failures \in 0..MaxFailures)'
  BY HintsAssumption DEF Fail

(* The reply to a request settles its ack alike. *)
LEMMA ReplyKeeps ==
  ASSUME filter \in [Listeners -> Keys], Sound(World),
         NEW i \in DOMAIN wire.requests, NEW accepted \in BOOLEAN, Reply(i, accepted)
  PROVE  Sound(World)'
<1> DEFINE r == wire.requests[i]
           q == RemoveAt(wire.requests, i)
           n == Len(wire.requests)
           answer == IF ~r.live THEN wire.sub[r.key]
                     ELSE IF accepted THEN "accepted" ELSE "refused"
           sub == [wire.sub EXCEPT ![r.key] = answer]
           outcome == IF accepted THEN "resolved" ELSE "rejected"
           acks == IF r.mapped THEN Settle(hub.acks, {r.key}, outcome) ELSE hub.acks
<1>1. /\ World.hub = hub /\ World.wire = wire /\ World \in Worlds
      /\ hub \in Hubs /\ wire \in Wires /\ wire.requests \in Seq(Request)
      /\ DOMAIN wire.requests = 1..n /\ r \in Request
      /\ wire.sub \in [Keys -> {"none", "requested", "accepted", "refused"}]
      /\ hub.acks \in [Keys -> AckStates]
  BY WorldIs, Parts
<1>2. r.key \in Keys /\ r.mapped \in BOOLEAN /\ r.live \in BOOLEAN /\ r.sent \in BOOLEAN
  BY <1>1 DEF Request
<1>3. wire' = [wire EXCEPT !.requests = q, !.sub = sub]
  BY <1>1 DEF Reply, Wires
<1>4. hub' = [hub EXCEPT !.acks = acks] /\ filter' = filter
  BY <1>1 DEF Reply, Hubs
<1>5. /\ sub \in [Keys -> {"none", "requested", "accepted", "refused"}]
      /\ \A k \in Keys \ {r.key} : sub[k] = wire.sub[k]
      /\ sub[r.key] = answer
  BY <1>1, <1>2
<1>6. /\ acks \in [Keys -> AckStates]
      /\ \A k \in Keys : acks[k] # hub.acks[k] =>
           r.mapped /\ k = r.key /\ hub.acks[k] = "open" /\ acks[k] = outcome
  BY <1>1, <1>2 DEF Settle, AckStates
<1> HIDE DEF sub, acks, q
<1>7. /\ q \in Seq(Request) /\ DOMAIN q = 1..(n - 1)
      /\ \E e \in [1..(n - 1) -> 1..n] :
           /\ \A j, k \in 1..(n - 1) : e[j] = e[k] => j = k
           /\ \A j \in 1..(n - 1) : q[j] = wire.requests[e[j]] /\ e[j] # i
  <2>1. i \in 1..Len(wire.requests)
    BY <1>1
  <2>2. PICK s \in Seq(Request) : s = wire.requests
    BY <1>1
  <2>3. RemoveAt(s, i) \in Seq(Request) /\ Lacks(RemoveAt(s, i), s, i)
    BY <2>1, <2>2, RemovalIs
  <2>4. q \in Seq(Request) /\ Lacks(q, wire.requests, i)
    BY <2>2, <2>3 DEF q
  <2> QED  BY <2>4 DEF Lacks
<1> HIDE DEF n
<1>8. PICK e \in [1..(n - 1) -> 1..n] :
        /\ \A j, k \in 1..(n - 1) : e[j] = e[k] => j = k
        /\ \A j \in 1..(n - 1) : q[j] = wire.requests[e[j]] /\ e[j] # i
  BY <1>7
<1>9. PICK x : x = [wire EXCEPT !.requests = q, !.sub = sub]
  OBVIOUS
<1>10. /\ x \in Wires /\ x.requests = q /\ x.sub = sub /\ x.handlers = wire.handlers
       /\ x.doubled = wire.doubled
  BY <1>1, <1>5, <1>7, <1>9 DEF Wires
<1>11. Answered(acks, x, World)
  <2>1. \A k \in Keys : acks[k] # "none" => hub.acks[k] # "none"
    BY <1>6
  <2>2. \A k \in Keys : hub.acks[k] = "resolved" => acks[k] = "resolved"
    BY <1>6
  <2>3. \A j \in 1..(n - 1) : e[j] \in 1..n
    OBVIOUS
  <2>4. \E f \in [DOMAIN x.requests -> DOMAIN wire.requests] :
          /\ \A j, k \in DOMAIN x.requests : f[j] = f[k] => j = k
          /\ \A j \in DOMAIN x.requests :
               /\ x.requests[j].key = wire.requests[f[j]].key
               /\ x.requests[j].live = wire.requests[f[j]].live
               /\ Waited(x.requests[j], x.handlers) => Waited(wire.requests[f[j]], x.handlers)
    <3>0. PICK d, s : d = 1..(n - 1) /\ s = wire.requests
      OBVIOUS
    <3>1. DOMAIN x.requests = d /\ x.requests = q
      BY <1>7, <1>10, <3>0
    <3>2. e \in [d -> DOMAIN s] /\ \A j, k \in d : e[j] = e[k] => j = k
      BY <1>1, <1>8, <3>0
    <3>3. \A j \in d : q[j] = s[e[j]]
      BY <1>8, <3>0
    <3>4. \A j \in d : /\ q[j].key = s[e[j]].key /\ q[j].live = s[e[j]].live
                       /\ Waited(q[j], x.handlers) => Waited(s[e[j]], x.handlers)
      BY <3>3
    <3> QED  BY <3>0, <3>1, <3>2, <3>4
  <2>5. /\ World.wire.requests = wire.requests /\ World.wire.handlers = wire.handlers
        /\ World.hub.acks = hub.acks /\ World.wire.doubled = wire.doubled
    BY <1>1
  <2> QED  BY <1>6, <1>10, <2>1, <2>2, <2>4, <2>5 DEF Answered
<1>12. PICK v : v = [hub |-> [hub EXCEPT !.acks = acks], wire |-> x]
  OBVIOUS
<1>13. v.hub.acks = acks /\ v.wire = x
  BY <1>1, <1>12 DEF Hubs
<1>14. ResolvedIsAccepted(v)
  <2> SUFFICES ASSUME NEW k \in Keys \ wire.doubled, acks[k] = "resolved"
               PROVE  /\ sub[k] = "accepted"
                      /\ \A j \in 1..(n - 1) : q[j].live => q[j].key # k
    BY ZenonT(60), <1>7, <1>10, <1>13 DEF ResolvedIsAccepted
  <2>1. ASSUME hub.acks[k] = "resolved"
        PROVE  /\ wire.sub[k] = "accepted"
               /\ \A j \in 1..n : wire.requests[j].live => wire.requests[j].key # k
    BY <1>1, <2>1 DEF Sound, Serving, ResolvedIsAccepted
  <2>2. CASE hub.acks[k] = "resolved"
    <3>1. sub[k] = "accepted"
      BY <1>1, <1>5, <2>1, <2>2
    <3> QED  BY <1>8, <2>1, <2>2, <3>1
  <2>3. CASE hub.acks[k] # "resolved"
    <3>1. r.mapped /\ k = r.key /\ accepted
      BY <1>6, <2>3
    <3>2. r.live
      <4>1. Waited(r, wire.handlers) /\ r.key \notin wire.doubled
        BY <3>1 DEF Waited
      <4> QED  BY <1>1, <4>1 DEF Sound, Serving, TiedIsLive
    <3>3. sub[k] = "accepted"
      BY <1>5, <3>1, <3>2
    <3>4. \A j \in 1..n : wire.requests[j].live /\ wire.requests[j].key = k => j = i
      BY <1>1, <3>1, <3>2 DEF Sound, Serving, Requested
    <3> QED  BY <1>8, <3>3, <3>4
  <2> QED  BY <2>2, <2>3
<1>15. Sound(v)
  BY <1>1, <1>11, <1>12, <1>14, AnsweredKeeps
<1>16. hub' = v.hub /\ wire' = v.wire
  BY <1>3, <1>4, <1>9, <1>12
<1> QED  BY <1>4, <1>15, <1>16, Becomes

(* The same requests, some sent or no longer tied, and no ack resolved. *)
Retied(a, x, w) ==
  /\ a \in [Keys -> AckStates] /\ x \in Wires
  /\ x.handlers = w.wire.handlers /\ x.sub = w.wire.sub /\ x.doubled = w.wire.doubled
  /\ \A k \in Keys : a[k] # "none" => w.hub.acks[k] # "none"
  /\ \A k \in Keys : w.hub.acks[k] = "resolved" <=> a[k] = "resolved"
  /\ DOMAIN x.requests = DOMAIN w.wire.requests
  /\ \A i \in DOMAIN x.requests :
       /\ x.requests[i].key = w.wire.requests[i].key
       /\ x.requests[i].live = w.wire.requests[i].live
       /\ Waited(x.requests[i], x.handlers) => Waited(w.wire.requests[i], x.handlers)

(* That is sound. *)
LEMMA RetiedKeeps ==
  ASSUME filter \in [Listeners -> Keys], NEW w, Sound(w), NEW a, NEW x, Retied(a, x, w),
         NEW v, v = [hub |-> [w.hub EXCEPT !.acks = a], wire |-> x]
  PROVE  Sound(v)
<1>1. w \in Worlds
  BY DEF Sound, Serving
<1>2. v.hub.acks = a /\ v.wire = x
  BY <1>1, Parts DEF Hubs
<1>3. ResolvedIsAccepted(v)
  BY <1>2 DEF Sound, Serving, ResolvedIsAccepted, Retied
<1>4. Answered(a, x, w)
  <2>1. PICK d : d = DOMAIN x.requests
    OBVIOUS
  <2>2. PICK e : e = [i \in d |-> i]
    OBVIOUS
  <2>3. e \in [d -> d] /\ \A i \in d : e[i] = i
    BY <2>2
  <2>4. DOMAIN w.wire.requests = d
    BY <2>1 DEF Retied
  <2>5. \A i \in d :
          /\ x.requests[i].key = w.wire.requests[e[i]].key
          /\ x.requests[i].live = w.wire.requests[e[i]].live
          /\ Waited(x.requests[i], x.handlers) =>
               Waited(w.wire.requests[e[i]], x.handlers)
    BY <2>1, <2>3 DEF Retied
  <2>6. \A i, j \in d : e[i] = e[j] => i = j
    BY <2>3
  <2> QED  BY <2>1, <2>3, <2>4, <2>5, <2>6 DEF Answered, Retied
<1> QED  BY <1>3, <1>4, AnsweredKeeps

(* A request goes out, and is tied to the ack of its filter. *)
LEMMA SendKeeps ==
  ASSUME filter \in [Listeners -> Keys], Sound(World), Send
  PROVE  Sound(World)'
<1>1. /\ World.hub = hub /\ World.wire = wire /\ World \in Worlds
      /\ hub \in Hubs /\ wire \in Wires /\ wire.requests \in Seq(Request)
      /\ \A i \in DOMAIN wire.requests : wire.requests[i] \in Request
      /\ DOMAIN wire.requests = 1..Len(wire.requests)
      /\ hub.acks \in [Keys -> AckStates]
  BY WorldIs, Parts
<1>2. PICK i \in DOMAIN wire.requests :
        /\ ~wire.requests[i].sent
        /\ wire' = [wire EXCEPT !.requests[i].sent = TRUE,
                      !.requests[i].mapped = Up(hub) /\ hub.acks[wire.requests[i].key] # "none"]
        /\ filter' = filter /\ hub' = hub
  BY DEF Send
<1>3. PICK m \in BOOLEAN : m = (Up(hub) /\ hub.acks[wire.requests[i].key] # "none")
  OBVIOUS
<1>4. PICK r : r = [wire.requests[i] EXCEPT !.sent = TRUE, !.mapped = m]
  OBVIOUS
<1>5. /\ r \in Request /\ r.key = wire.requests[i].key /\ r.live = wire.requests[i].live
      /\ r.sent
  <2>1. wire.requests[i] \in Request
    BY <1>1
  <2> QED  BY <1>4, <2>1 DEF Request
<1>6. PICK q : q = [wire.requests EXCEPT ![i] = r]
  OBVIOUS
<1>7. /\ q \in Seq(Request) /\ DOMAIN q = DOMAIN wire.requests /\ q[i] = r
      /\ \A j \in DOMAIN wire.requests : j # i => q[j] = wire.requests[j]
  BY <1>1, <1>5, <1>6, ExceptSeq
<1>8. PICK x : x = [wire EXCEPT !.requests = q]
  OBVIOUS
<1>9. wire' = x
  <2>1. wire' = [wire EXCEPT !.requests[i].sent = TRUE, !.requests[i].mapped = m]
    BY <1>2, <1>3
  <2>2. wire' = [wire EXCEPT !.requests[i] = r]
    BY <1>4, <2>1, <1>1 DEF Request, Wires
  <2> QED  BY <1>6, <1>8, <2>2
<1>10. /\ x \in Wires /\ x.requests = q /\ x.handlers = wire.handlers /\ x.sub = wire.sub
       /\ x.doubled = wire.doubled
  BY <1>1, <1>7, <1>8 DEF Wires
<1>11. Retied(hub.acks, x, World)
  <2>1. r.mapped => wire.requests[i].key \in KeysOf(wire.handlers)
    <3>1. r.mapped = m /\ wire.requests[i].key \in Keys
      BY <1>1, <1>4 DEF Request
    <3> QED  BY <1>1, <1>3, <3>1 DEF Sound, Serving, AckHasHandler
  <2>2. \A j \in DOMAIN q :
          /\ q[j].key = wire.requests[j].key /\ q[j].live = wire.requests[j].live
          /\ Waited(q[j], wire.handlers) => Waited(wire.requests[j], wire.handlers)
    BY <1>2, <1>5, <1>7, <2>1 DEF Waited
  <2> QED  BY <1>1, <1>7, <1>10, <2>2 DEF Retied
<1>12. PICK v : v = [hub |-> [World.hub EXCEPT !.acks = hub.acks], wire |-> x]
  OBVIOUS
<1>13. Sound(v)
  BY <1>11, <1>12, RetiedKeeps
<1>14. v.hub = hub /\ v.wire = x
  BY <1>1, <1>12 DEF Hubs
<1> QED  BY <1>2, <1>9, <1>13, <1>14, Becomes

(* A socket dies. *)
LEMMA DeathKeeps ==
  ASSUME filter \in [Listeners -> Keys], Sound(World),
         wire' = [wire EXCEPT !.alive = FALSE], UNCHANGED <<filter, hub>>
  PROVE  Sound(World)'
<1>1. /\ World.hub = hub /\ World.wire = wire /\ World \in Worlds
      /\ hub \in Hubs /\ wire \in Wires /\ hub.acks \in [Keys -> AckStates]
  BY WorldIs, Parts
<1>2. PICK x : x = [wire EXCEPT !.alive = FALSE]
  OBVIOUS
<1>3. /\ x \in Wires /\ x.requests = wire.requests /\ x.handlers = wire.handlers
      /\ x.sub = wire.sub /\ x.doubled = wire.doubled
  BY <1>1, <1>2 DEF Wires
<1>4. Retied(hub.acks, x, World)
  BY <1>1, <1>3 DEF Retied
<1>5. PICK v : v = [hub |-> [World.hub EXCEPT !.acks = hub.acks], wire |-> x]
  OBVIOUS
<1>6. Sound(v)
  BY <1>4, <1>5, RetiedKeeps
<1>7. v.hub = hub /\ v.wire = x
  BY <1>1, <1>5 DEF Hubs
<1> QED  BY <1>2, <1>6, <1>7, Becomes

(* Every request under way fails. *)
LEMMA RpcErrorKeeps ==
  ASSUME filter \in [Listeners -> Keys], Sound(World), RpcError
  PROVE  Sound(World)'
<1>1. /\ World.hub = hub /\ World.wire = wire /\ World \in Worlds
      /\ hub \in Hubs /\ wire \in Wires /\ wire.requests \in Seq(Request)
      /\ \A i \in DOMAIN wire.requests : wire.requests[i] \in Request
      /\ DOMAIN wire.requests = 1..Len(wire.requests)
      /\ hub.acks \in [Keys -> AckStates]
  BY WorldIs, Parts
<1>2. PICK ks : ks = {wire.requests[i].key :
                        i \in {i \in DOMAIN wire.requests : wire.requests[i].mapped}}
  OBVIOUS
<1>3. PICK a : a = Settle(hub.acks, ks, "rejected")
  OBVIOUS
<1>4. /\ a \in [Keys -> AckStates]
      /\ \A k \in Keys : a[k] # "none" => hub.acks[k] # "none"
      /\ \A k \in Keys : hub.acks[k] = "resolved" <=> a[k] = "resolved"
  BY <1>1, <1>3 DEF Settle, AckStates
<1>5. PICK q : q = [i \in DOMAIN wire.requests |-> [wire.requests[i] EXCEPT !.mapped = FALSE]]
  OBVIOUS
<1>6. DOMAIN q = DOMAIN wire.requests /\
      \A i \in DOMAIN q : /\ q[i] \in Request /\ q[i].key = wire.requests[i].key
                          /\ q[i].live = wire.requests[i].live
                          /\ q[i].sent = wire.requests[i].sent /\ ~q[i].mapped
  BY ZenonT(60), <1>1, <1>5 DEF Request
<1>7. q \in Seq(Request)
  <2>1. q \in [1..Len(wire.requests) -> Request]
    BY <1>1, <1>5, <1>6
  <2>2. Len(wire.requests) \in Nat
    BY <1>1, LenProperties
  <2> QED  BY <2>1, <2>2, SeqDef
<1>8. PICK x : x = [wire EXCEPT !.requests = q]
  OBVIOUS
<1>9. /\ x \in Wires /\ x.requests = q /\ x.handlers = wire.handlers /\ x.sub = wire.sub
      /\ x.doubled = wire.doubled
  BY <1>1, <1>7, <1>8 DEF Wires
<1>10. hub' = [hub EXCEPT !.acks = a] /\ wire' = x /\ filter' = filter
  BY <1>2, <1>3, <1>5, <1>8 DEF RpcError
<1>11. Retied(a, x, World)
  BY <1>1, <1>4, <1>6, <1>9 DEF Retied, Waited
<1>12. PICK v : v = [hub |-> [World.hub EXCEPT !.acks = a], wire |-> x]
  OBVIOUS
<1>13. Sound(v)
  BY <1>11, <1>12, RetiedKeeps
<1>14. v.hub = hub' /\ v.wire = x
  BY <1>1, <1>10, <1>12
<1> QED  BY <1>10, <1>13, <1>14, Becomes

-----------------------------------------------------------------------------
(* The attempt, its timers, and the actions.                               *)

(* The world that a step becomes. *)
LEMMA StepKeeps ==
  ASSUME NEW v, Sound(v), Become(v)
  PROVE  Sound(World)'
  BY Becomes DEF Become

(* The hub where its attempt has come to the next await. *)
Moved(h, phase) ==
  /\ h \in Hubs /\ h.attempt.phase = phase /\ h.attempt.gen = hub.attempt.gen
  /\ h.generation = hub.generation /\ h.connection = hub.connection
  /\ h.retry = hub.retry /\ h.health = hub.health /\ h.acks = hub.acks
  /\ h.pending = hub.pending /\ h.listeners = hub.listeners

(* Then is that world. *)
LEMMA ThenIs ==
  ASSUME Sound(World), NEW phase \in Phases
  PROVE  \E h : Moved(h, phase) /\ Then(phase) = [hub |-> h, wire |-> wire]
<1>1. /\ World.hub = hub /\ World.wire = wire /\ World \in Worlds
      /\ hub \in Hubs /\ World = [hub |-> hub, wire |-> wire]
      /\ hub.attempt \in [phase : Phases, gen : Nat]
  BY WorldIs, Parts DEF World
<1>2. PICK a : a = [hub.attempt EXCEPT !.phase = phase]
  OBVIOUS
<1>3. a \in [phase : Phases, gen : Nat] /\ a.phase = phase /\ a.gen = hub.attempt.gen
  BY <1>1, <1>2
<1>4. PICK h : h = [hub EXCEPT !.attempt = a]
  OBVIOUS
<1>5. Moved(h, phase)
  BY <1>1, <1>3, <1>4 DEF Hubs, Moved
<1>6. Then(phase) = [World EXCEPT !.hub = h]
  BY <1>1, <1>2, <1>4 DEF Then
<1>7. [World EXCEPT !.hub = h] = [hub |-> h, wire |-> wire]
  BY <1>1
<1> QED  BY <1>5, <1>6, <1>7

(* The socket is loaded. *)
LEMMA LoadedKeeps ==
  ASSUME filter \in [Listeners -> Keys], Sound(World), Loaded
  PROVE  Sound(World)'
<1>1. CASE Stale
  <2>1. Become(Finally(World))
    BY <1>1 DEF Loaded
  <2> QED  BY <2>1, FinallyKeeps, StepKeeps
<1>2. CASE ~Stale
  <2>1. Become(Then("network"))
    BY <1>2 DEF Loaded
  <2>2. PICK h : Moved(h, "network") /\ Then("network") = [hub |-> h, wire |-> wire]
    BY ThenIs DEF Phases
  <2>3. World.hub = hub /\ World.wire = wire /\ Connected(World) /\ Quiet(World)
    BY WorldIs DEF Sound, Serving
  <2>4. ~Up(hub)
    BY <2>3 DEF Connected, Loaded, At
  <2>5. Steady(h, World)
    BY <2>2, <2>3, <2>4 DEF Steady, Moved, Connected, Quiet, Up
  <2>6. Sound(Then("network"))
    BY <2>2, <2>3, <2>5, SteadyKeeps
  <2> QED  BY <2>1, <2>6, StepKeeps
<1> QED  BY <1>1, <1>2

(* The connection of this attempt is there, unless it is of the past. *)
LEMMA NetworkKeeps ==
  ASSUME filter \in [Listeners -> Keys], Sound(World), Network
  PROVE  Sound(World)'
<1>1. CASE Stale
  <2>1. Become(Finally(World))
    BY <1>1 DEF Network
  <2> QED  BY <2>1, FinallyKeeps, StepKeeps
<1>2. CASE ~Stale
  <2>1. PICK c : c = [gen |-> hub.attempt.gen, heartbeat |-> FALSE, blocks |-> FALSE]
    OBVIOUS
  <2>2. PICK g : Moved(g, "debug") /\ Then("debug") = [hub |-> g, wire |-> wire]
    BY ThenIs DEF Phases
  <2>3. PICK h : h = [g EXCEPT !.connection = c]
    OBVIOUS
  <2>4. PICK v : v = [hub |-> h, wire |-> wire]
    OBVIOUS
  <2>5. Become(v)
    <3>1. Become([Then("debug") EXCEPT !.hub.connection = c])
      BY <1>2, <2>1 DEF Network
    <3>2. [Then("debug") EXCEPT !.hub.connection = c] = v
      BY <2>2, <2>3, <2>4
    <3> QED  BY <3>1, <3>2
  <2>6. World.hub = hub /\ World.wire = wire /\ Connected(World) /\ Quiet(World)
        /\ hub.attempt \in [phase : Phases, gen : Nat]
    BY WorldIs, Parts DEF Sound, Serving
  <2>7. ~Up(hub) /\ hub.attempt.gen = hub.generation /\ Active(hub) # {}
    BY <1>2, <2>6 DEF Connected, Network, At, Stale
  <2>8. /\ h \in Hubs /\ h.connection.gen = h.generation /\ h.attempt.phase = "debug"
        /\ h.listeners = hub.listeners /\ h.acks = hub.acks /\ h.pending = hub.pending
    <3>1. /\ c \in [gen : Nat, heartbeat : BOOLEAN, blocks : BOOLEAN]
          /\ c.gen = hub.generation
      BY <2>1, <2>6, <2>7
    <3> QED  BY <2>2, <2>3, <3>1 DEF Moved, Hubs
  <2>9. Steady(h, World)
    BY <2>6, <2>7, <2>8 DEF Steady
  <2>10. Sound(v)
    BY <2>4, <2>6, <2>9, SteadyKeeps
  <2> QED  BY <2>5, <2>10, StepKeeps
<1> QED  BY <1>1, <1>2

(* Its debug events are listened to. *)
LEMMA DebugOnKeeps ==
  ASSUME filter \in [Listeners -> Keys], Sound(World), DebugOn
  PROVE  Sound(World)'
<1>1. CASE ~Up(hub)
  <2>1. Become(Finally(World))
    BY <1>1 DEF DebugOn
  <2> QED  BY <2>1, FinallyKeeps, StepKeeps
<1>2. CASE Up(hub)
  <2>1. PICK g : Moved(g, "block") /\ Then("block") = [hub |-> g, wire |-> wire]
    BY ThenIs DEF Phases
  <2>2. PICK c : c = [hub.connection EXCEPT !.blocks = TRUE]
    OBVIOUS
  <2>3. PICK h : h = [g EXCEPT !.connection = c]
    OBVIOUS
  <2>4. PICK v : v = [hub |-> h, wire |-> wire]
    OBVIOUS
  <2>5. Become(v)
    <3>1. Become([Then("block") EXCEPT !.hub.connection.blocks = TRUE])
      BY <1>2 DEF DebugOn
    <3>2. PICK x : x = [hub |-> g, wire |-> wire]
      OBVIOUS
    <3>3. [x EXCEPT !.hub.connection.blocks = TRUE]
            = [x EXCEPT !.hub.connection = [x.hub.connection EXCEPT !.blocks = TRUE]]
      OBVIOUS
    <3>4. x.hub.connection = hub.connection
      BY <2>1, <3>2 DEF Moved
    <3>5. [x EXCEPT !.hub.connection = c] = v
      BY <2>3, <2>4, <3>2
    <3> QED  BY <2>1, <2>2, <3>1, <3>2, <3>3, <3>4, <3>5
  <2>6. World.hub = hub /\ World.wire = wire /\ Connected(World) /\ Quiet(World) /\ hub \in Hubs
    BY WorldIs DEF Sound, Serving
  <2>7. /\ h \in Hubs /\ h.connection.gen = hub.connection.gen /\ h.attempt.phase = "block"
        /\ h.connection.heartbeat = hub.connection.heartbeat /\ h.generation = hub.generation
        /\ h.listeners = hub.listeners /\ h.acks = hub.acks /\ h.pending = hub.pending
    <3>1. hub.connection \in [gen : Nat, heartbeat : BOOLEAN, blocks : BOOLEAN]
      BY <2>6 DEF Hubs
    <3>2. /\ c \in [gen : Nat, heartbeat : BOOLEAN, blocks : BOOLEAN]
          /\ c.gen = hub.connection.gen /\ c.heartbeat = hub.connection.heartbeat
      BY <2>2, <3>1
    <3> QED  BY <2>1, <2>3, <3>2 DEF Moved, Hubs
  <2>8. Steady(h, World)
    BY <1>2, <2>6, <2>7 DEF Steady, Connected, Quiet
  <2>9. Sound(v)
    BY <2>4, <2>6, <2>8, SteadyKeeps
  <2> QED  BY <2>5, <2>9, StepKeeps
<1> QED  BY <1>1, <1>2

(* Its blocks are listened to, and everybody is installed. *)
LEMMA BlockOnKeeps ==
  ASSUME filter \in [Listeners -> Keys], Sound(World), BlockOn
  PROVE  Sound(World)'
<1>1. CASE ~Up(hub)
  <2>1. Become(Finally(World))
    BY <1>1 DEF BlockOn
  <2> QED  BY <2>1, FinallyKeeps, StepKeeps
<1>2. CASE Up(hub)
  <2>1. PICK g : Moved(g, "install") /\ Then("install") = [hub |-> g, wire |-> wire]
    BY ThenIs DEF Phases
  <2>2. PICK b \in BOOLEAN : b = (g.health \/ ~hub.connection.heartbeat)
    OBVIOUS
  <2>3. PICK h : h = [g EXCEPT !.health = b]
    OBVIOUS
  <2>4. PICK v : v = [hub |-> h, wire |-> wire]
    OBVIOUS
  <2>5. Become(InstallAll(v))
    <3>1. Become(InstallAll([Then("install") EXCEPT
                               !.hub.health = @ \/ ~hub.connection.heartbeat]))
      BY <1>2 DEF BlockOn
    <3>2. [Then("install") EXCEPT !.hub.health = @ \/ ~hub.connection.heartbeat] = v
      BY <2>1, <2>2, <2>3, <2>4
    <3> QED  BY <3>1, <3>2
  <2>6. World.hub = hub /\ World.wire = wire /\ Connected(World) /\ Quiet(World) /\ hub \in Hubs
    BY WorldIs DEF Sound, Serving
  <2>7. /\ h \in Hubs /\ h.connection = hub.connection /\ h.attempt.phase = "install"
        /\ h.generation = hub.generation
        /\ h.listeners = hub.listeners /\ h.acks = hub.acks /\ h.pending = hub.pending
    BY <2>1, <2>2, <2>3 DEF Moved, Hubs
  <2>8. Steady(h, World)
    BY <1>2, <2>6, <2>7 DEF Steady, Connected, Quiet
  <2>9. Sound(v)
    BY <2>4, <2>6, <2>8, SteadyKeeps
  <2>10. Up(v.hub)
    BY <1>2, <2>4, <2>7 DEF Up
  <2>11. Sound(InstallAll(v))
    BY <2>9, <2>10, InstallKeeps
  <2> QED  BY <2>5, <2>11, StepKeeps
<1> QED  BY <1>1, <1>2

(* Every install of the attempt has returned. *)
LEMMA SettledKeeps ==
  ASSUME filter \in [Listeners -> Keys], Sound(World), Settled
  PROVE  Sound(World)'
<1>1. Become(Finally(World))
  BY DEF Settled
<1> QED  BY <1>1, FinallyKeeps, StepKeeps

(* The hub with fewer installs that wait. *)
LEMMA LessPending ==
  ASSUME Sound(World), NEW l, NEW h, h = [hub EXCEPT !.pending = hub.pending \ {l}]
  PROVE  /\ Sound([hub |-> h, wire |-> wire])
         /\ h \in Hubs /\ h.listeners = hub.listeners /\ h.acks = hub.acks
<1>1. /\ World.hub = hub /\ World.wire = wire /\ World \in Worlds
      /\ Connected(World) /\ Quiet(World) /\ hub \in Hubs
  BY WorldIs DEF Sound, Serving
<1>2. /\ h \in Hubs /\ h.connection = hub.connection /\ h.attempt = hub.attempt
      /\ h.generation = hub.generation /\ h.retry = hub.retry /\ h.health = hub.health
      /\ h.listeners = hub.listeners /\ h.acks = hub.acks
      /\ h.pending \subseteq hub.pending
  BY <1>1 DEF Hubs
<1>3. Steady(h, World)
  BY <1>1, <1>2 DEF Steady, Connected, Quiet, Up
<1>4. PICK v : v = [hub |-> h, wire |-> wire]
  OBVIOUS
<1>5. Sound(v)
  BY <1>1, <1>3, <1>4, SteadyKeeps
<1> QED  BY <1>2, <1>4, <1>5

(* An install fails, or that of a listener that has gone returns. *)
LEMMA InstallFailsKeeps ==
  ASSUME filter \in [Listeners -> Keys], Sound(World), NEW l \in Listeners, InstallFails(l)
  PROVE  Sound(World)'
<1>1. CASE l \in Active(hub)
  <2>1. Become(Throws(World))
    BY <1>1 DEF InstallFails
  <2>2. Sound(Throws(World))
    <3>1. Throws(World) \in {Throw(World), Lose(World)}
      BY DEF Throws
    <3> QED  BY <3>1, ThrowKeeps, LoseKeeps
  <2> QED  BY <2>1, <2>2, StepKeeps
<1>2. CASE l \notin Active(hub)
  <2>1. PICK h : h = [hub EXCEPT !.pending = hub.pending \ {l}]
    OBVIOUS
  <2>2. PICK v : v = [hub |-> h, wire |-> wire]
    OBVIOUS
  <2>3. Become(v)
    <3>1. Become([World EXCEPT !.hub.pending = World.hub.pending \ {l}])
      BY <1>2 DEF InstallFails
    <3>2. [World EXCEPT !.hub.pending = World.hub.pending \ {l}] = v
      BY <2>1, <2>2 DEF World
    <3> QED  BY <3>1, <3>2
  <2>4. Sound(v)
    BY <2>1, <2>2, LessPending
  <2> QED  BY <2>3, <2>4, StepKeeps
<1> QED  BY <1>1, <1>2

(* An install returns with a resolved ack: its listener is acknowledged. *)
LEMMA InstallDoneKeeps ==
  ASSUME filter \in [Listeners -> Keys], Sound(World), NEW l \in Listeners, InstallDone(l)
  PROVE  Sound(World)'
<1>1. PICK h : h = [hub EXCEPT !.pending = hub.pending \ {l}]
  OBVIOUS
<1>2. PICK w : w = [hub |-> h, wire |-> wire]
  OBVIOUS
<1>3. /\ Sound(w) /\ w.hub = h /\ w.wire = wire
      /\ h \in Hubs /\ h.listeners = hub.listeners /\ h.acks = hub.acks
  BY <1>1, <1>2, LessPending
<1>4. CASE l \notin Active(hub)
  <2>1. Become(w)
    BY <1>1, <1>3, <1>4 DEF InstallDone, Become
  <2> QED  BY <1>3, <2>1, StepKeeps
<1>5. CASE l \in Active(hub)
  <2>1. PICK n : n = [hub.listeners[l] EXCEPT !.acked = TRUE]
    OBVIOUS
  <2>2. PICK f : f = [hub.listeners EXCEPT ![l] = n]
    OBVIOUS
  <2>3. PICK g : g = [h EXCEPT !.listeners = f]
    OBVIOUS
  <2>4. PICK u : u = [hub |-> g, wire |-> wire]
    OBVIOUS
  <2>5. hub' = Publish(g) /\ wire' = wire /\ filter' = filter
    <3>1. [h EXCEPT !.listeners[l].acked = TRUE] = g
      BY <1>3, <2>1, <2>2, <2>3
    <3> QED  BY <1>1, <1>5, <3>1 DEF InstallDone
  <2>6. /\ World.hub = hub /\ Connected(World) /\ hub.listeners \in [Listeners -> Listener]
        /\ AckedIsResolved(World) /\ ToldIsAcked(World)
    BY WorldIs, Parts DEF Sound, Serving
  <2>7. l \in hub.pending /\ hub.acks[filter[l]] = "resolved"
    BY DEF InstallDone
  <2>8. hub.listeners[l].installed # 0
    BY <1>5, <2>6, <2>7 DEF Connected, Active
  <2>9. /\ n \in Listener /\ n.phase = hub.listeners[l].phase /\ n.told = hub.listeners[l].told
        /\ n.installed = hub.listeners[l].installed /\ n.connected = hub.listeners[l].connected
        /\ n.acked
    <3>1. hub.listeners[l] \in Listener
      BY <2>6
    <3> QED  BY <2>1, <3>1 DEF Listener
  <2>10. Relisted(f, w)
    <3>1. /\ f \in [Listeners -> Listener] /\ f[l] = n
          /\ \A o \in Listeners \ {l} : f[o] = hub.listeners[o]
      BY <2>2, <2>6, <2>9
    <3>2. h.connection = hub.connection
      BY <1>1, <1>3 DEF Hubs
    <3> SUFFICES ASSUME NEW o \in Listeners
                 PROVE  /\ f[o].phase = w.hub.listeners[o].phase
                        /\ f[o].installed = w.hub.listeners[o].installed
                        /\ f[o].connected \in {0, f[o].installed}
                        /\ f[o].acked => f[o].installed # 0 /\ w.hub.acks[filter[o]] = "resolved"
                        /\ f[o].phase = "active" /\ f[o].told = "connected" =>
                             f[o].acked /\ f[o].connected # 0 /\ w.hub.connection.heartbeat
      BY <3>1 DEF Relisted
    <3>3. /\ w.hub.listeners[o] = hub.listeners[o] /\ w.hub.acks = hub.acks
          /\ w.hub.connection = hub.connection
      BY <1>3, <3>2
    <3>4. /\ hub.listeners[o].connected \in {0, hub.listeners[o].installed}
          /\ hub.listeners[o].acked =>
               hub.listeners[o].installed # 0 /\ hub.acks[filter[o]] = "resolved"
          /\ hub.listeners[o].phase = "active" /\ hub.listeners[o].told = "connected" =>
               hub.listeners[o].acked /\ hub.listeners[o].connected # 0 /\ hub.connection.heartbeat
      BY <2>6 DEF Connected, AckedIsResolved, ToldIsAcked
    <3>5. CASE o = l
      BY <2>7, <2>8, <2>9, <3>1, <3>3, <3>4, <3>5
    <3>6. CASE o # l
      BY <3>1, <3>3, <3>4, <3>6
    <3> QED  BY <3>5, <3>6
  <2>11. Sound(u) /\ u.hub = g /\ u.wire = wire
    <3>1. u = [hub |-> [w.hub EXCEPT !.listeners = f], wire |-> w.wire]
      BY <1>3, <2>3, <2>4
    <3> QED  BY <1>3, <2>4, <2>10, <3>1, RelistedKeeps
  <2>12. PICK v : v = [hub |-> Publish(g), wire |-> wire]
    OBVIOUS
  <2>13. Sound(v)
    BY <2>11, <2>12, PublishKeeps
  <2> QED  BY <2>5, <2>12, <2>13, Becomes
<1> QED  BY <1>4, <1>5

(* The retry timer fires. *)
LEMMA RetryFiresKeeps ==
  ASSUME filter \in [Listeners -> Keys], Sound(World), RetryFires
  PROVE  Sound(World)'
<1>1. PICK h : h = [hub EXCEPT !.retry = FALSE]
  OBVIOUS
<1>2. PICK v : v = [hub |-> h, wire |-> wire]
  OBVIOUS
<1>3. Become(Connect(v))
  <2>0. World = [hub |-> hub, wire |-> wire] /\ World.hub = hub
    BY DEF World
  <2>1. [World EXCEPT !.hub.retry = FALSE] = [World EXCEPT !.hub = h]
    BY <1>1, <2>0
  <2>2. [World EXCEPT !.hub = h] = v
    BY <1>2, <2>0
  <2> QED  BY <2>1, <2>2 DEF RetryFires
<1>4. World.hub = hub /\ World.wire = wire /\ Connected(World) /\ Quiet(World) /\ hub \in Hubs
  BY WorldIs DEF Sound, Serving
<1>5. /\ h \in Hubs /\ h.connection = hub.connection /\ h.attempt = hub.attempt
      /\ h.generation = hub.generation /\ h.pending = hub.pending /\ ~h.retry
      /\ h.health = hub.health /\ h.listeners = hub.listeners /\ h.acks = hub.acks
  BY <1>1, <1>4 DEF Hubs
<1>6. Steady(h, World)
  BY <1>4, <1>5 DEF Steady, Connected, Quiet, Up
<1>7. Sound(v)
  BY <1>2, <1>4, <1>6, SteadyKeeps
<1> QED  BY <1>3, <1>7, ConnectKeeps, StepKeeps

(* A block is seen, and those who are acknowledged are told. *)
LEMMA HeartbeatKeeps ==
  ASSUME filter \in [Listeners -> Keys], Sound(World), Heartbeat
  PROVE  Sound(World)'
<1>1. PICK c : c = [hub.connection EXCEPT !.heartbeat = TRUE]
  OBVIOUS
<1>2. PICK h : h = [hub EXCEPT !.connection = c, !.health = TRUE]
  OBVIOUS
<1>3. PICK u : u = [hub |-> h, wire |-> wire]
  OBVIOUS
<1>4. World.hub = hub /\ World.wire = wire /\ Connected(World) /\ Quiet(World) /\ hub \in Hubs
      /\ hub.connection \in [gen : Nat, heartbeat : BOOLEAN, blocks : BOOLEAN]
  BY WorldIs DEF Sound, Serving, Hubs
<1>5. hub' = Publish(h) /\ wire' = wire /\ filter' = filter
  <2>1. [hub EXCEPT !.connection.heartbeat = TRUE, !.health = TRUE] = h
    BY <1>1, <1>2, <1>4 DEF Hubs
  <2> QED  BY <2>1 DEF Heartbeat
<1>6. /\ c \in [gen : Nat, heartbeat : BOOLEAN, blocks : BOOLEAN]
      /\ c.gen = hub.connection.gen /\ c.heartbeat
  BY <1>1, <1>4
<1>7. /\ h \in Hubs /\ h.connection = c /\ h.attempt = hub.attempt
      /\ h.generation = hub.generation /\ h.pending = hub.pending
      /\ h.retry = hub.retry /\ h.listeners = hub.listeners /\ h.acks = hub.acks
  BY <1>2, <1>4, <1>6 DEF Hubs
<1>8. Up(hub)
  BY DEF Heartbeat
<1>9. Steady(h, World)
  BY <1>4, <1>6, <1>7, <1>8 DEF Steady, Connected, Quiet, Up
<1>10. Sound(u) /\ u.hub = h /\ u.wire = wire
  BY <1>3, <1>4, <1>9, SteadyKeeps
<1>11. PICK v : v = [hub |-> Publish(h), wire |-> wire]
  OBVIOUS
<1>12. Sound(v)
  BY <1>10, <1>11, PublishKeeps
<1> QED  BY <1>5, <1>11, <1>12, Becomes

(* A listener comes, and finds a timer or connects. *)
LEMMA ComingKeeps ==
  ASSUME filter \in [Listeners -> Keys], Sound(World), NEW l \in Listeners, Subscribe(l)
  PROVE  Sound(World)'
<1>1. PICK w : w = [World EXCEPT !.hub.listeners[l].phase = "active",
                                 !.hub.listeners[l].told = "reconnecting"]
  OBVIOUS
<1>2. World.hub.listeners[l].phase = "new"
  BY WorldIs DEF Subscribe
<1>3. Sound(w)
  BY <1>1, <1>2, SubscribeKeeps
<1>4. Become(IF hub.retry THEN w ELSE Connect(w))
  BY <1>1 DEF Subscribe
<1> QED  BY <1>3, <1>4, ConnectKeeps, StepKeeps

(* A listener goes, and with the last one the connection. *)
LEMMA GoingKeeps ==
  ASSUME filter \in [Listeners -> Keys], Sound(World), NEW l \in Listeners, Dispose(l)
  PROVE  Sound(World)'
<1>1. PICK v : v = RemoveListener([World EXCEPT !.hub.listeners[l].phase = "gone"], l)
  OBVIOUS
<1>2. World.hub = hub /\ World.wire = wire
  BY WorldIs
<1>3. l \in Active(World.hub)
  BY <1>2 DEF Dispose, Active
<1>5. Removed(v, World, l)
  BY <1>1, <1>3, RemovedIs
<1>6. Serving(v) /\ IsFiniteSet(Active(v.hub))
  BY <1>3, <1>5, RemovedKeeps
<1>7. Become(IF Active(v.hub) # {} THEN v
             ELSE DropAcks([v EXCEPT !.hub.generation = v.hub.generation + 1, !.hub.retry = FALSE,
                                     !.hub.health = FALSE, !.hub.connection = NoConnection], Keys))
  BY <1>1 DEF Dispose
<1>8. CASE Active(v.hub) # {}
  BY <1>6, <1>7, <1>8, StepKeeps DEF Sound, Quiet
<1>9. CASE Active(v.hub) = {}
  BY <1>6, <1>7, <1>9, StepKeeps, IdleKeeps
<1> QED  BY <1>8, <1>9

-----------------------------------------------------------------------------
(* The invariant, and what follows from it.                                *)

(* It holds at first. *)
LEMMA InitSound == Init => HintsInv
<1> SUFFICES ASSUME Init PROVE HintsInv
  OBVIOUS
<1>1. filter \in [Listeners -> Keys] /\ hub = NewHub /\ wire = NewWire /\ failures = 0
  BY DEF Init
<1>2. /\ NewListener \in Listener /\ NewListener.phase = "new" /\ NewListener.installed = 0
      /\ NewListener.connected = 0 /\ ~NewListener.acked
  BY DEF NewListener, Listener, Told3
<1>3. /\ NoConnection \in [gen : Nat, heartbeat : BOOLEAN, blocks : BOOLEAN]
      /\ NoConnection.gen = 0
      /\ NoAttempt \in [phase : Phases, gen : Nat] /\ NoAttempt.phase = "idle"
  BY DEF NoConnection, NoAttempt, Phases
<1>4. PICK c, a : c = NoConnection /\ a = NoAttempt
  OBVIOUS
<1>5. PICK f : f = [l \in Listeners |-> NewListener]
  OBVIOUS
<1>6. f \in [Listeners -> Listener] /\ \A l \in Listeners : f[l] = NewListener
  BY <1>2, <1>5
<1>7. PICK k0 : k0 = [k \in Keys |-> "none"]
  OBVIOUS
<1>8. k0 \in [Keys -> AckStates] /\ \A k \in Keys : k0[k] = "none"
  BY <1>7 DEF AckStates
<1>9. hub = [generation |-> 0, connection |-> c, attempt |-> a, retry |-> FALSE, health |-> FALSE,
             acks |-> k0, pending |-> {}, listeners |-> f]
  BY <1>1, <1>4, <1>5, <1>7 DEF NewHub
<1>10. /\ hub \in Hubs /\ hub.listeners = f /\ hub.acks = k0 /\ hub.pending = {}
       /\ hub.connection = c /\ hub.attempt = a /\ ~hub.retry /\ ~hub.health
       /\ hub.generation = 0
  BY <1>3, <1>4, <1>6, <1>8, <1>9 DEF Hubs
<1>11. /\ wire \in Wires /\ wire.handlers = {} /\ wire.requests = << >>
       /\ DOMAIN wire.requests = {}
  BY <1>1, EmptySeq DEF NewWire, Wires
<1>12. World.hub = hub /\ World.wire = wire /\ World \in Worlds
  BY <1>10, <1>11 DEF World, Worlds
<1>13. Active(hub) = {}
  BY <1>2, <1>6, <1>10 DEF Active
<1>14. Quiet(World)
  BY <1>3, <1>4, <1>10, <1>12, <1>13, FS_EmptySet DEF Quiet, Up
<1>15. Connected(World)
  BY <1>2, <1>3, <1>4, <1>6, <1>10, <1>11, <1>12 DEF Connected, Up
<1>16. Requested(World) /\ AckHasHandler(World) /\ TiedIsLive(World) /\ ResolvedIsAccepted(World)
  BY <1>8, <1>10, <1>11, <1>12
     DEF Requested, AckHasHandler, TiedIsLive, ResolvedIsAccepted
<1>17. AckedIsResolved(World) /\ ToldIsAcked(World)
  BY <1>2, <1>6, <1>10, <1>12 DEF AckedIsResolved, ToldIsAcked
<1>18. Sound(World)
  BY <1>12, <1>14, <1>15, <1>16, <1>17 DEF Sound, Serving
<1> QED  BY <1>1, <1>18, HintsAssumption DEF HintsInv

(* And every step keeps it. *)
LEMMA NextSound == HintsInv /\ [Next]_vars => HintsInv'
<1> SUFFICES ASSUME HintsInv, [Next]_vars PROVE HintsInv'
  OBVIOUS
<1>1. filter \in [Listeners -> Keys] /\ failures \in 0..MaxFailures /\ Sound(World)
  BY DEF HintsInv
<1>2. SUFFICES Sound(World)' /\ filter' = filter /\ (Fail \/ UNCHANGED failures)
  BY <1>1, FailKeeps DEF HintsInv
<1>3. CASE Loaded
  BY <1>1, <1>3, LoadedKeeps DEF Loaded, Become
<1>4. CASE Network
  BY <1>1, <1>4, NetworkKeeps DEF Network, Become
<1>5. CASE DebugOn
  BY <1>1, <1>5, DebugOnKeeps DEF DebugOn, Become
<1>6. CASE BlockOn
  BY <1>1, <1>6, BlockOnKeeps DEF BlockOn, Become
<1>7. CASE Settled
  BY <1>1, <1>7, SettledKeeps DEF Settled, Become
<1>8. CASE RetryFires
  BY <1>1, <1>8, RetryFiresKeeps DEF RetryFires, Become
<1>9. ASSUME NEW l \in Listeners, InstallDone(l)
      PROVE  Sound(World)' /\ filter' = filter /\ UNCHANGED failures
  BY <1>1, <1>9, InstallDoneKeeps DEF InstallDone
<1>10. ASSUME NEW l \in Listeners, InstallFails(l)
       PROVE  Sound(World)' /\ filter' = filter /\ (Fail \/ UNCHANGED failures)
  BY <1>1, <1>10, InstallFailsKeeps DEF InstallFails, Become
<1>11. CASE Heartbeat
  BY <1>1, <1>11, HeartbeatKeeps DEF Heartbeat
<1>12. CASE Send
  BY <1>1, <1>12, SendKeeps DEF Send
<1>13. CASE Accepted
  <2>1. PICK i \in DOMAIN wire.requests : Reply(i, TRUE) /\ UNCHANGED failures
    BY <1>13 DEF Accepted
  <2> QED  BY <1>1, <2>1, ReplyKeeps DEF Reply
<1>14. CASE SetupFails
  <2>1. Become(Throw(World)) /\ Fail
    BY <1>14 DEF SetupFails
  <2>2. Sound(World)'
    BY <1>1, <2>1, ThrowKeeps, StepKeeps
  <2> QED  BY <2>1, <2>2 DEF Become
<1>15. CASE HealthFires
  <2>1. Become(Lose(World)) /\ Fail
    BY <1>15 DEF HealthFires
  <2>2. Sound(World)'
    BY <1>1, <2>1, LoseKeeps, StepKeeps
  <2> QED  BY <2>1, <2>2 DEF Become
<1>16. CASE Close
  <2>1. CASE Up(hub)
    <3>1. Become(Lose(World)) /\ Fail
      BY <1>16, <2>1 DEF Close
    <3>2. Sound(World)'
      BY <1>1, <3>1, LoseKeeps, StepKeeps
    <3> QED  BY <3>1, <3>2 DEF Become
  <2>2. CASE ~Up(hub)
    <3>1. Become([World EXCEPT !.wire.alive = FALSE]) /\ Fail
      BY <1>16, <2>2 DEF Close
    <3>2. World = [hub |-> hub, wire |-> wire] /\ World.wire = wire
      BY DEF World
    <3>3. PICK x : x = [wire EXCEPT !.alive = FALSE]
      OBVIOUS
    <3>4. [World EXCEPT !.wire.alive = FALSE] = [hub |-> hub, wire |-> x]
      <4>1. [World EXCEPT !.wire.alive = FALSE] = [World EXCEPT !.wire = x]
        BY <3>2, <3>3
      <4>2. [World EXCEPT !.wire = x] = [hub |-> hub, wire |-> x]
        BY <3>2
      <4> QED  BY <4>1, <4>2
    <3>5. wire' = [wire EXCEPT !.alive = FALSE] /\ UNCHANGED <<filter, hub>>
      BY <3>1, <3>3, <3>4 DEF Become
    <3> QED  BY <1>1, <3>1, <3>5, DeathKeeps
  <2> QED  BY <2>1, <2>2
<1>17. CASE Silence
  BY <1>1, <1>17, DeathKeeps DEF Silence
<1>18. CASE Refused
  <2>1. PICK i \in DOMAIN wire.requests : Reply(i, FALSE) /\ Fail
    BY <1>18 DEF Refused
  <2> QED  BY <1>1, <2>1, ReplyKeeps DEF Reply
<1>19. CASE RpcError
  BY <1>1, <1>19, RpcErrorKeeps DEF RpcError
<1>20. ASSUME NEW l \in Listeners, Subscribe(l)
       PROVE  Sound(World)' /\ filter' = filter /\ UNCHANGED failures
  BY <1>1, <1>20, ComingKeeps DEF Subscribe, Become
<1>21. ASSUME NEW l \in Listeners, Dispose(l)
       PROVE  Sound(World)' /\ filter' = filter /\ UNCHANGED failures
  BY <1>1, <1>21, GoingKeeps DEF Dispose, Become
<1>22. CASE UNCHANGED vars
  <2>1. UNCHANGED <<filter, hub, wire, failures>>
    BY <1>22 DEF vars
  <2>2. World.hub = hub /\ World.wire = wire
    BY <1>1, WorldIs
  <2>3. PICK v : v = World
    OBVIOUS
  <2>4. hub' = v.hub /\ wire' = v.wire /\ Sound(v)
    BY <1>1, <2>1, <2>2, <2>3
  <2> QED  BY <2>1, <2>4, Becomes
<1> QED
  BY <1>3, <1>4, <1>5, <1>6, <1>7, <1>8, <1>9, <1>10, <1>11, <1>12, <1>13, <1>14, <1>15,
     <1>16, <1>17, <1>18, <1>19, <1>20, <1>21, <1>22
     DEF Next, Steps, Installs, Messages, Losses

(* So it holds always. *)
LEMMA HintsInvariant == Spec => []HintsInv
  BY InitSound, NextSound, PTL DEF Spec

(* The subscriber and its socket are of their types, whatever is lost; no  *)
(* listener is left installed on a connection of the past, and no          *)
(* connection outlives its generation.                                     *)
THEOREM HintsTypeCorrect == Spec => []TypeOK
<1>1. HintsInv => TypeOK
  <2> SUFFICES ASSUME HintsInv PROVE TypeOK
    OBVIOUS
  <2>1. /\ filter \in [Listeners -> Keys] /\ failures \in 0..MaxFailures
        /\ Sound(World) /\ Connected(World)
    BY DEF HintsInv, Sound, Serving
  <2>2. World.hub = hub /\ World.wire = wire /\ World \in Worlds
    BY <2>1, WorldIs
  <2>3. /\ hub.generation \in Nat /\ hub.connection.gen \in Nat
        /\ hub.connection.heartbeat \in BOOLEAN /\ hub.connection.blocks \in BOOLEAN
        /\ hub.attempt \in [phase : Phases, gen : Nat]
        /\ hub.retry \in BOOLEAN /\ hub.health \in BOOLEAN
        /\ hub.acks \in [Keys -> AckStates] /\ hub.pending \subseteq Listeners
        /\ hub.listeners \in [Listeners -> Listener]
        /\ wire.alive \in BOOLEAN /\ wire.handlers \subseteq Listeners
        /\ wire.requests \in Seq(Request)
        /\ wire.sub \in [Keys -> {"none", "requested", "accepted", "refused"}]
        /\ wire.doubled \subseteq Keys
    BY <2>2, Parts
  <2>4. /\ hub.connection.gen \in {0, hub.generation}
        /\ \A l \in Listeners : /\ hub.listeners[l].installed \in {0, hub.connection.gen}
                                /\ hub.listeners[l].connected \in {0, hub.listeners[l].installed}
    BY <2>1, <2>2 DEF Connected
  <2>5. hub.attempt.phase \in Phases /\ hub.attempt.gen \in Nat
    BY <2>3
  <2> QED  BY <2>1, <2>3, <2>4, <2>5 DEF TypeOK, AckStates, Listener, Told3
<1> QED  BY <1>1, HintsInvariant, PTL

(* When the last listener has gone, no connection, timer or handler is     *)
(* left to run for nobody.                                                 *)
THEOREM IdleStaysQuiet == Spec => []IdleIsQuiet
<1>1. HintsInv => IdleIsQuiet
  <2> SUFFICES ASSUME HintsInv, Active(hub) = {}
               PROVE  ~Up(hub) /\ ~hub.retry /\ ~hub.health /\ wire.handlers = {}
    BY DEF IdleIsQuiet
  <2>1. Sound(World) /\ Connected(World) /\ Quiet(World)
    BY DEF HintsInv, Sound, Serving
  <2>2. World.hub = hub /\ World.wire = wire /\ wire.handlers \subseteq Listeners
    BY <2>1, WorldIs DEF Wires
  <2>3. \A l \in Listeners : l \notin wire.handlers
    BY <2>1, <2>2 DEF Connected, Active
  <2> QED  BY <2>1, <2>2, <2>3 DEF Quiet
<1> QED  BY <1>1, HintsInvariant, PTL

(* A listener that is told it is connected is served, whatever came, went  *)
(* or was lost, at any await: its handler is on the connection of this     *)
(* instant, which has seen a block, and the node has accepted its filter,  *)
(* unless that was requested again before its first request was sent.      *)
THEOREM ConnectedStaysServed == Spec => []ConnectedIsServed
<1>1. HintsInv => ConnectedIsServed
  <2> SUFFICES ASSUME HintsInv, NEW l \in Listeners, Told(l)
               PROVE  /\ Up(hub) /\ hub.connection.heartbeat /\ l \in wire.handlers
                      /\ wire.sub[filter[l]] = "accepted" \/ filter[l] \in wire.doubled
    BY DEF ConnectedIsServed
  <2>1. /\ filter \in [Listeners -> Keys] /\ Sound(World)
        /\ Connected(World) /\ AckedIsResolved(World) /\ ToldIsAcked(World)
        /\ ResolvedIsAccepted(World)
    BY DEF HintsInv, Sound, Serving
  <2>2. World.hub = hub /\ World.wire = wire
    BY <2>1, WorldIs
  <2>3. hub.listeners[l].acked /\ hub.connection.heartbeat
    BY <2>1, <2>2 DEF ToldIsAcked, Told, Active
  <2>4. /\ hub.listeners[l].installed # 0 /\ hub.listeners[l].installed \in {0, hub.connection.gen}
        /\ l \in wire.handlers
    BY <2>1, <2>2, <2>3 DEF Connected
  <2>5. wire.sub[filter[l]] = "accepted" \/ filter[l] \in wire.doubled
    BY <2>1, <2>2, <2>3 DEF AckedIsResolved, ResolvedIsAccepted
  <2> QED  BY <2>3, <2>4, <2>5 DEF Up
<1> QED  BY <1>1, HintsInvariant, PTL
=============================================================================
