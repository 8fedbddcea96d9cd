-------------------------- MODULE WalletFlow_proofs --------------------------
(***************************************************************************)
(* For any wallets, chains and flows: the registry has its type and counts *)
(* in memory exactly the flows in progress.                                *)
(***************************************************************************)
EXTENDS WalletFlow, FiniteSetTheorems, TLAPS

\* A flow that has not started is not running: what makes RunningIsCounted
\* inductive, since beginning a flow that runs already would be counted twice.
WaitingIdle == \A f \in waiting : running[f] = NotRunning

FlowInv == FlowTypeOK /\ RunningIsCounted /\ WaitingIdle

\* The flows registered under a session.
Of(s) == {f \in Flows : running[f] = s}

-----------------------------------------------------------------------------
(* The registry's operations.                                              *)

\* The number of flows is a natural number.
LEMMA FlowsCounted == Cardinality(Flows) \in Nat
  BY FlowAssumption, FS_CardinalityType

\* An entry is written with a positive lifetime, and memory is left alone.
LEMMA TouchType ==
  ASSUME NEW r \in Registry, NEW s \in Sessions, NEW c \in 0..(Cardinality(Flows) + 1)
  PROVE  Touch(r, s, c) \in Registry /\ Touch(r, s, c).active = r.active
  BY SMTT(40), FlowsCounted, FlowAssumption DEF Touch, Registry

\* So does recording a stage, with a flow or without.
LEMMA StageType ==
  ASSUME NEW r \in Registry, NEW s \in Sessions
  PROVE  Stage(r, s) \in Registry /\ Stage(r, s).active = r.active
<1> DEFINE c == IF r.active[s] > 0 THEN r.active[s]
                ELSE IF Stored(r, s) THEN r.stored[s].count ELSE 1
<1>1. c \in 0..(Cardinality(Flows) + 1)
  BY FlowsCounted DEF Registry
<1> HIDE DEF c
<1>2. Touch(r, s, c) \in Registry /\ Touch(r, s, c).active = r.active
  BY <1>1, TouchType
<1> QED
  BY <1>2 DEF Stage, c

\* Forgetting a session empties its count and its entry.
LEMMA ForgetType ==
  ASSUME NEW r \in Registry, NEW s \in Sessions
  PROVE  Forget(r, s) \in Registry /\ Forget(r, s).active = [r.active EXCEPT ![s] = 0]
<1>1. NoEntry \in [count: 0..(Cardinality(Flows) + 1), left: 0..Ttl] /\ 0 \in 0..Cardinality(Flows)
  BY FlowsCounted, FlowAssumption DEF NoEntry
<1>2. [r.active EXCEPT ![s] = 0] \in [Sessions -> 0..Cardinality(Flows)]
  BY <1>1 DEF Registry
<1>3. [r.stored EXCEPT ![s] = NoEntry]
        \in [Sessions -> [count: 0..(Cardinality(Flows) + 1), left: 0..Ttl]]
  BY <1>1 DEF Registry
<1> QED
  BY <1>2, <1>3 DEF Forget, Registry

\* A poll interval ages the entries and leaves memory alone.
LEMMA AgedType ==
  ASSUME NEW r \in Registry
  PROVE  Aged(r) \in Registry /\ Aged(r).active = r.active
<1> DEFINE age(s) == IF r.stored[s].left <= 1 THEN NoEntry
                     ELSE [r.stored[s] EXCEPT !.left = @ - 1]
<1>1. \A s \in Sessions : age(s) \in [count: 0..(Cardinality(Flows) + 1), left: 0..Ttl]
  BY FlowsCounted, FlowAssumption DEF Registry, NoEntry
<1> QED
  BY <1>1 DEF Aged, Registry

\* Beginning a flow counts it, if there was room for it.
LEMMA BeginType ==
  ASSUME NEW r \in Registry, NEW s \in Sessions, r.active[s] < Cardinality(Flows)
  PROVE  /\ Begin(r, s) \in Registry
         /\ Begin(r, s).active = [r.active EXCEPT ![s] = @ + 1]
<1> DEFINE q == [r EXCEPT !.active[s] = @ + 1]
<1>1. q \in Registry /\ q.active = [r.active EXCEPT ![s] = @ + 1]
  BY FlowsCounted DEF Registry
<1>2. r.active[s] + 1 \in 0..(Cardinality(Flows) + 1)
  BY FlowsCounted DEF Registry
<1> HIDE DEF q
<1>3. Touch(q, s, r.active[s] + 1) \in Registry /\ Touch(q, s, r.active[s] + 1).active = q.active
  BY <1>1, <1>2, TouchType
<1> QED
  BY <1>1, <1>3 DEF Begin, q

\* Ending a flow that was counted takes one from the count.
LEMMA EndType ==
  ASSUME NEW r \in Registry, NEW s \in Sessions, r.active[s] > 0
  PROVE  /\ End(r, s) \in Registry
         /\ End(r, s).active = [r.active EXCEPT ![s] = @ - 1]
<1>1. CASE r.active[s] <= 1
  <2>1. r.active[s] - 1 = 0
    BY <1>1 DEF Registry
  <2> QED
    BY <1>1, <2>1, ForgetType DEF End
<1>2. CASE r.active[s] > 1
  <2> DEFINE q == [r EXCEPT !.active[s] = @ - 1]
  <2>1. q \in Registry /\ q.active = [r.active EXCEPT ![s] = @ - 1]
    BY SMTT(40), <1>2, FlowsCounted DEF Registry
  <2>2. r.active[s] - 1 \in 0..(Cardinality(Flows) + 1)
    BY FlowsCounted DEF Registry
  <2> HIDE DEF q
  <2>3. Touch(q, s, r.active[s] - 1) \in Registry /\ Touch(q, s, r.active[s] - 1).active = q.active
    BY <2>1, <2>2, TouchType
  <2>4. ~(r.active[s] <= 1)
    BY <1>2 DEF Registry
  <2> QED
    BY <2>1, <2>3, <2>4 DEF End, q
<1> QED
  BY <1>1, <1>2 DEF Registry

-----------------------------------------------------------------------------
(* The flows of a session.                                                 *)

\* They are finitely many.
LEMMA OfFinite ==
  ASSUME NEW s
  PROVE  IsFiniteSet(Of(s)) /\ Cardinality(Of(s)) \in Nat
                            /\ Cardinality(Of(s)) <= Cardinality(Flows)
  BY FlowAssumption, FS_Subset, FS_CardinalityType DEF Of
\* A flow that begins adds itself to those of its session and to no other's.
LEMMA OfBegin ==
  ASSUME NEW f \in Flows, NEW s \in Sessions,
         running \in [Flows -> Sessions \cup {NotRunning}], running[f] = NotRunning,
         running' = [running EXCEPT ![f] = s]
  PROVE  /\ Cardinality(Of(s)') = Cardinality(Of(s)) + 1
         /\ Cardinality(Of(s)) < Cardinality(Flows)
         /\ \A t \in Sessions \ {s} : Of(t)' = Of(t)
<1>1. f \notin Of(s)
  BY FlowAssumption DEF Of
<1>2. Of(s)' = Of(s) \cup {f}
  BY DEF Of
<1>3. Cardinality(Of(s)') = Cardinality(Of(s)) + 1
  BY <1>1, <1>2, OfFinite, FS_AddElement
<1>4. Cardinality(Of(s)') <= Cardinality(Flows)
  BY FlowAssumption, FS_Subset DEF Of
<1>5. \A t \in Sessions \ {s} : Of(t)' = Of(t)
  BY FlowAssumption DEF Of
<1> QED
  BY <1>3, <1>4, <1>5, OfFinite, FlowsCounted

\* A flow that ends takes itself out of those of its session.
LEMMA OfEnd ==
  ASSUME NEW f \in Flows, NEW s \in Sessions,
         running \in [Flows -> Sessions \cup {NotRunning}], running[f] = s,
         running' = [running EXCEPT ![f] = NotRunning]
  PROVE  /\ Cardinality(Of(s)) > 0
         /\ Cardinality(Of(s)') = Cardinality(Of(s)) - 1
         /\ \A t \in Sessions \ {s} : Of(t)' = Of(t)
<1>1. f \in Of(s)
  BY DEF Of
<1>2. Of(s)' = Of(s) \ {f}
  BY FlowAssumption DEF Of
<1>3. Cardinality(Of(s)') = Cardinality(Of(s)) - 1
  BY <1>1, <1>2, OfFinite, FS_RemoveElement
<1>4. Cardinality(Of(s)) > 0
  BY <1>1, OfFinite, FS_EmptySet
<1>5. \A t \in Sessions \ {s} : Of(t)' = Of(t)
  BY FlowAssumption DEF Of
<1> QED
  BY <1>3, <1>4, <1>5

-----------------------------------------------------------------------------
(* The steps.                                                              *)

\* Initially no flow runs, and none is counted.
LEMMA InitFlowInv == FlowInit => FlowInv
<1> SUFFICES ASSUME FlowInit PROVE FlowInv
  OBVIOUS
<1>1. NoEntry \in [count: 0..(Cardinality(Flows) + 1), left: 0..Ttl]
  BY FlowsCounted, FlowAssumption DEF NoEntry
<1>2. registry \in Registry
  BY <1>1, FlowsCounted DEF FlowInit, EmptyRegistry, Registry
<1>3. FlowTypeOK
  BY <1>2, FlowAssumption DEF FlowInit, FlowTypeOK, NoRefresh
<1>4. RunningIsCounted
  <2> SUFFICES ASSUME NEW s \in Sessions
               PROVE  registry.active[s] = Cardinality({f \in Flows : running[f] = s})
    BY DEF RunningIsCounted
  <2>1. {f \in Flows : running[f] = s} = {}
    BY FlowAssumption DEF FlowInit
  <2> QED
    BY <2>1, FS_EmptySet DEF FlowInit, EmptyRegistry
<1> QED
  BY <1>3, <1>4 DEF FlowInv, WaitingIdle, FlowInit

\* A step that leaves the flows alone and changes no count keeps the counts.
LEMMA CountsKept ==
  ASSUME FlowInv, running' = running, waiting' = waiting,
         registry'.active = registry.active
  PROVE  RunningIsCounted' /\ WaitingIdle'
  BY DEF FlowInv, RunningIsCounted, WaitingIdle

\* Following the wallet leads to a session.
LEMMA FollowType ==
  ASSUME NEW wallet \in Wallets \cup {NoWallet}, NEW chain,
         wallet # NoWallet => chain \in Chains, Follow(wallet, chain)
  PROVE  session' \in Sessions
  BY DEF Follow, Sessions

\* A reader's trace and a poll interval leave the flows alone.
LEMMA TraceStep ==
  ASSUME FlowInv, Hold(registry) \/ Age,
         UNCHANGED <<session, waiting, running, refresh, changes>>
  PROVE  FlowInv'
<1>1. registry \in Registry /\ session \in Sessions
  BY DEF FlowInv, FlowTypeOK
<1>2. registry' \in Registry /\ registry'.active = registry.active
  <2>1. CASE registry' = Stage(registry, session)
    BY <1>1, <2>1, StageType
  <2>2. CASE registry' = Aged(registry)
    BY <1>1, <2>2, AgedType
  <2>3. CASE registry' = Stage(Aged(registry), session)
    BY <1>1, <2>3, AgedType, StageType
  <2> QED
    BY <2>1, <2>2, <2>3 DEF Age, Hold
<1>3. RunningIsCounted' /\ WaitingIdle'
  BY <1>2, CountsKept
<1> QED
  BY <1>2, <1>3 DEF FlowInv, FlowTypeOK

\* Refreshes, connecting and disconnecting change the session, never a count.
LEMMA WalletStepKeeps ==
  ASSUME FlowInv, WalletStep
  PROVE  FlowInv'
<1>1. registry \in Registry /\ session \in Sessions
  BY DEF FlowInv, FlowTypeOK
<1>2. ASSUME NEW wallet \in Wallets \cup {NoWallet}, RefreshAccounts(wallet)
      PROVE  FlowInv'
  <2>1. registry' \in Registry /\ registry'.active = registry.active
    <3>1. CASE registry' = registry
      BY <1>1, <3>1
    <3>2. CASE registry' = Stage(registry, session)
      BY <1>1, <3>2, StageType
    <3>3. CASE ~PromptActive(registry) /\ registry' = Forget(registry, session)
      <4>1. registry.active[session] = 0
        BY <1>1, <3>3, FlowsCounted DEF PromptActive, Registry
      <4>2. [registry.active EXCEPT ![session] = 0] = registry.active
        BY <1>1, <4>1 DEF Registry
      <4> QED
        BY <1>1, <3>3, <4>2, ForgetType
    <3> QED
      BY <1>2, <3>1, <3>2, <3>3 DEF RefreshAccounts
  <2>2. RunningIsCounted' /\ WaitingIdle'
    BY <1>2, <2>1, CountsKept DEF RefreshAccounts
  <2>3. session' \in Sessions
    BY <1>1, <1>2 DEF RefreshAccounts, Follow, Sessions
  <2>4. refresh' \in [pending: BOOLEAN, wallet: Wallets \cup {NoWallet}, prompt: BOOLEAN]
    <3> DEFINE prompt == PromptActive(registry)
    <3>1. prompt \in BOOLEAN
      BY Zenon DEF PromptActive
    <3>2. refresh' = refresh
            \/ refresh' = [pending |-> TRUE, wallet |-> wallet, prompt |-> prompt]
      BY <1>2, Zenon DEF RefreshAccounts
    <3> HIDE DEF prompt
    <3>3. [pending |-> TRUE, wallet |-> wallet, prompt |-> prompt]
            \in [pending: BOOLEAN, wallet: Wallets \cup {NoWallet}, prompt: BOOLEAN]
      BY <3>1, Zenon
    <3> QED
      BY <3>2, <3>3, Zenon DEF FlowInv, FlowTypeOK
  <2>5. changes' \in [switches: 0..MaxSwitches, reloads: 0..MaxReloads]
    BY <1>2, FlowAssumption DEF RefreshAccounts, FlowInv, FlowTypeOK
  <2> QED
    BY <1>2, <2>1, <2>2, <2>3, <2>4, <2>5 DEF RefreshAccounts, FlowInv, FlowTypeOK
<1>3. ASSUME NEW chain \in Chains, RefreshChain(chain)
      PROVE  FlowInv'
  <2>1. registry' \in Registry /\ registry'.active = registry.active
    BY <1>1, <1>3, StageType DEF RefreshChain
  <2>2. RunningIsCounted' /\ WaitingIdle'
    BY <1>3, <2>1, CountsKept DEF RefreshChain
  <2>3. session' \in Sessions
    BY <1>1, <1>3, FollowType DEF RefreshChain, FlowInv, FlowTypeOK
  <2> QED
    BY <1>3, <2>1, <2>2, <2>3 DEF RefreshChain, FlowInv, FlowTypeOK, NoRefresh
<1>4. ASSUME NEW f \in Flows, CommitWallet(f)
      PROVE  FlowInv'
  <2>1. RunningIsCounted' /\ WaitingIdle'
    BY <1>4, CountsKept DEF CommitWallet
  <2> QED
    BY <1>4, <2>1 DEF CommitWallet, FlowInv, FlowTypeOK, NoRefresh, Sessions
<1>5. CASE Disconnect
  <2>1. RunningIsCounted' /\ WaitingIdle'
    BY <1>5, CountsKept DEF Disconnect
  <2>2. changes' \in [switches: 0..MaxSwitches, reloads: 0..MaxReloads]
    BY <1>5, FlowAssumption DEF Disconnect, FlowInv, FlowTypeOK
  <2>3. session' \in Sessions
    BY <1>5 DEF Disconnect, Follow, Sessions
  <2> QED
    BY <1>5, <2>1, <2>2, <2>3 DEF Disconnect, FlowInv, FlowTypeOK, NoRefresh
<1> QED
  BY <1>2, <1>3, <1>4, <1>5 DEF WalletStep

\* A flow that begins is counted under the session of that instant.
LEMMA BeginStep ==
  ASSUME FlowInv, NEW f \in Flows, BeginFlow(f)
  PROVE  FlowInv'
<1> USE DEF FlowInv, FlowTypeOK
<1>1. PICK s \in Sessions : s = session
  OBVIOUS
<1>2. running[f] = NotRunning /\ running' = [running EXCEPT ![f] = s]
  BY <1>1 DEF BeginFlow, WaitingIdle
<1>3. /\ Cardinality(Of(s)') = Cardinality(Of(s)) + 1
      /\ Cardinality(Of(s)) < Cardinality(Flows)
      /\ \A t \in Sessions \ {s} : Of(t)' = Of(t)
  BY <1>2, OfBegin
<1>4. \A t \in Sessions : registry.active[t] = Cardinality(Of(t))
  BY DEF RunningIsCounted, Of
<1>5. registry' \in Registry /\ registry'.active = [registry.active EXCEPT ![s] = @ + 1]
  BY <1>1, <1>3, <1>4, BeginType DEF BeginFlow
<1>6. RunningIsCounted'
  <2>1. \A t \in Sessions : registry'.active[t] = Cardinality(Of(t)')
    BY <1>3, <1>4, <1>5 DEF Registry
  <2> QED
    BY <2>1 DEF RunningIsCounted, Of
<1>7. WaitingIdle'
  BY <1>2 DEF BeginFlow, WaitingIdle
<1> QED
  BY <1>2, <1>5, <1>6, <1>7 DEF BeginFlow

\* A flow that ends is taken off the session it was registered under, which is
\* no longer the page's session, perhaps.
LEMMA EndStep ==
  ASSUME FlowInv, NEW f \in Flows, EndFlow(f)
  PROVE  FlowInv'
<1> USE DEF FlowInv, FlowTypeOK
<1>1. PICK s \in Sessions : s = running[f]
  BY DEF EndFlow
<1>2. running' = [running EXCEPT ![f] = NotRunning]
  BY DEF EndFlow
<1>3. /\ Cardinality(Of(s)) > 0
      /\ Cardinality(Of(s)') = Cardinality(Of(s)) - 1
      /\ \A t \in Sessions \ {s} : Of(t)' = Of(t)
  BY <1>1, <1>2, OfEnd
<1>4. \A t \in Sessions : registry.active[t] = Cardinality(Of(t))
  BY DEF RunningIsCounted, Of
<1>5. registry' \in Registry /\ registry'.active = [registry.active EXCEPT ![s] = @ - 1]
  BY <1>1, <1>3, <1>4, EndType DEF EndFlow
<1>6. RunningIsCounted'
  <2>1. \A t \in Sessions : registry'.active[t] = Cardinality(Of(t)')
    BY <1>3, <1>4, <1>5 DEF Registry
  <2> QED
    BY <2>1 DEF RunningIsCounted, Of
<1>7. WaitingIdle'
  BY <1>2 DEF EndFlow, WaitingIdle
<1> QED
  BY <1>2, <1>5, <1>6, <1>7 DEF EndFlow

\* A reload empties memory, and with it ends every flow.
LEMMA ReloadStep ==
  ASSUME FlowInv, ReloadFlows
  PROVE  FlowInv'
<1> USE DEF FlowInv, FlowTypeOK
<1>1. registry' \in Registry
  BY FlowsCounted DEF ReloadFlows, Registry, EmptyRegistry
<1>2. RunningIsCounted'
  <2>1. \A s \in Sessions : {f \in Flows : running'[f] = s} = {}
    BY FlowAssumption DEF ReloadFlows
  <2>2. \A s \in Sessions : registry'.active[s] = 0
    BY DEF ReloadFlows, EmptyRegistry, Registry
  <2> QED
    BY <2>1, <2>2, FS_EmptySet DEF RunningIsCounted
<1>3. WaitingIdle'
  BY DEF ReloadFlows, WaitingIdle
<1> QED
  BY <1>1, <1>2, <1>3, FlowAssumption DEF ReloadFlows, NoRefresh

\* Every step preserves the invariant.
LEMMA StepFlowInv == FlowInv /\ [FlowNext]_flowVars => FlowInv'
<1> SUFFICES ASSUME FlowInv, [FlowNext]_flowVars PROVE FlowInv'
  OBVIOUS
<1>1. CASE WalletStep
  BY <1>1, WalletStepKeeps
<1>2. CASE ReloadFlows
  BY <1>2, ReloadStep
<1>3. CASE (Hold(registry) \/ Age) /\ UNCHANGED <<session, waiting, running, refresh, changes>>
  BY <1>3, TraceStep
<1>4. ASSUME NEW f \in Flows, BeginFlow(f) PROVE FlowInv'
  BY <1>4, BeginStep
<1>5. ASSUME NEW f \in Flows, EndFlow(f) PROVE FlowInv'
  BY <1>5, EndStep
<1>6. CASE UNCHANGED flowVars
  BY <1>6 DEF flowVars, FlowInv, FlowTypeOK, RunningIsCounted, WaitingIdle
<1> QED
  BY <1>1, <1>2, <1>3, <1>4, <1>5, <1>6 DEF FlowNext

-----------------------------------------------------------------------------

\* The invariant holds of every behaviour of the flows.
THEOREM FlowInvHolds == FlowSpec => []FlowInv
  BY InitFlowInv, StepFlowInv, PTL DEF FlowSpec

\* So the memory of walletTransactionFlow.ts counts exactly the flows in
\* progress: no prompt is taken for none, and none for a prompt.
THEOREM FlowsAreCounted == FlowSpec => []RunningIsCounted
  BY FlowInvHolds, PTL DEF FlowInv
=============================================================================
