------------------------------ MODULE WalletFlow ------------------------------
(***************************************************************************)
(* Wallet transaction flows: which wallet prompts are open, as the readers *)
(* that must stay out of their way see it.                                 *)
(*                                                                         *)
(* A flow is registered under the session key (wallet, chain) of the       *)
(* moment it starts: a count in memory and an entry in sessionStorage that *)
(* survives a reload of the page until it expires.  Meanwhile the session  *)
(* changes: a connecting flow commits a wallet, and a refresh of the       *)
(* wallet's state (eth_accounts, then eth_chainId) follows the wallet      *)
(* unless a prompt is open.                                                *)
(***************************************************************************)
EXTENDS Integers, FiniteSets

CONSTANTS
  Wallets,     \* accounts of the browser wallet
  Chains,      \* chains the wallet may select
  NoWallet,    \* the session without a wallet ...
  NoChain,     \* ... and its chain
  Flows,       \* the operations that may run as a flow, each at most once
  NotRunning,  \* no session: the flow has not started or has ended
  Ttl,         \* lifetime of a stored entry, in poll intervals
  MaxSwitches, \* bound on the wallet refreshes and disconnections
  MaxReloads   \* bound on the reloads of the page

Sessions == {[wallet |-> NoWallet, chain |-> NoChain]}
              \cup [wallet: Wallets, chain: Chains]

ASSUME FlowAssumption ==
  /\ NoWallet \notin Wallets /\ NoChain \notin Chains
  /\ NotRunning \notin Sessions
  /\ IsFiniteSet(Flows)
  /\ Ttl \in Nat \ {0} /\ MaxSwitches \in Nat /\ MaxReloads \in Nat

VARIABLES
  session,  \* what getTradeWalletFlowInput and the shared runtime describe
  waiting,  \* flows that have not started
  running,  \* the session each running flow is registered under
  registry, \* activeFlowCounts and the entries of sessionStorage
  refresh,  \* a wallet refresh between its two requests
  changes   \* refreshes and reloads so far

flowVars == <<session, waiting, running, registry, refresh, changes>>

-----------------------------------------------------------------------------
(* The registry.                                                           *)

NoEntry == [count |-> 0, left |-> 0]
Registry ==
  [active: [Sessions -> 0..Cardinality(Flows)],
   stored: [Sessions -> [count: 0..(Cardinality(Flows) + 1), left: 0..Ttl]]]
EmptyRegistry ==
  [active |-> [s \in Sessions |-> 0], stored |-> [s \in Sessions |-> NoEntry]]

Stored(r, s) == r.stored[s].left > 0

\* getWalletTransactionFlowState without input: memory-active, or active at all.
PromptActive(r) == \E s \in Sessions : r.active[s] > 0
FlowActive(r) == PromptActive(r) \/ \E s \in Sessions : Stored(r, s)

\* touchStoredFlow: the entry is written with a new lifetime.
Touch(r, s, count) == [r EXCEPT !.stored[s] = [count |-> count, left |-> Ttl]]

\* recordWalletTransactionFlowStage, for a session that may have no flow.
Stage(r, s) ==
  Touch(r, s, IF r.active[s] > 0 THEN r.active[s]
              ELSE IF Stored(r, s) THEN r.stored[s].count ELSE 1)

Begin(r, s) == Touch([r EXCEPT !.active[s] = @ + 1], s, r.active[s] + 1)

Forget(r, s) == [active |-> [r.active EXCEPT ![s] = 0],
                 stored |-> [r.stored EXCEPT ![s] = NoEntry]]

\* A plausible mistake: the first flow to end takes the others with it.
EndForgets(r, s) == Forget(r, s)

\* endWalletTransactionFlow.
End(r, s) ==
  IF r.active[s] <= 1 THEN Forget(r, s)
  ELSE Touch([r EXCEPT !.active[s] = @ - 1], s, r.active[s] - 1)

\* A plausible mistake: entries age and are never pruned.
AgedUnpruned(r) ==
  [r EXCEPT !.stored = [s \in Sessions |-> [r.stored[s] EXCEPT !.left = @ - 1]]]

\* One poll interval passes; readStoredFlows prunes the entries that expired.
Aged(r) ==
  [r EXCEPT !.stored = [s \in Sessions |->
     IF r.stored[s].left <= 1 THEN NoEntry ELSE [r.stored[s] EXCEPT !.left = @ - 1]]]

-----------------------------------------------------------------------------
(* Flows and the wallet.                                                   *)

NoRefresh == [pending |-> FALSE, wallet |-> NoWallet, prompt |-> FALSE]

FlowTypeOK ==
  /\ session \in Sessions
  /\ waiting \subseteq Flows
  /\ running \in [Flows -> Sessions \cup {NotRunning}]
  /\ registry \in Registry
  /\ refresh \in [pending: BOOLEAN, wallet: Wallets \cup {NoWallet}, prompt: BOOLEAN]
  /\ changes \in [switches: 0..MaxSwitches, reloads: 0..MaxReloads]

FlowInit ==
  /\ session \in Sessions
  /\ waiting = Flows
  /\ running = [f \in Flows |-> NotRunning]
  /\ registry = EmptyRegistry
  /\ refresh = NoRefresh
  /\ changes = [switches |-> 0, reloads |-> 0]

\* runWalletTransactionFlow begins under the session of this instant.
BeginFlow(f) ==
  /\ f \in waiting
  /\ waiting' = waiting \ {f}
  /\ running' = [running EXCEPT ![f] = session]
  /\ registry' = Begin(registry, session)
  /\ UNCHANGED <<session, refresh, changes>>

\* Its operation has succeeded or failed.
EndFlow(f) ==
  /\ running[f] # NotRunning
  /\ registry' = End(registry, running[f])
  /\ running' = [running EXCEPT ![f] = NotRunning]
  /\ UNCHANGED <<session, waiting, refresh, changes>>

\* A connecting flow commits its wallet, in place of another if one was connected,
\* and goes on to the privacy prompt; the refresh that was under way is stale.
CommitWallet(f) ==
  /\ running[f] # NotRunning
  /\ session' \in [wallet: Wallets, chain: Chains]
  /\ refresh' = NoRefresh
  /\ UNCHANGED <<waiting, running, registry, changes>>

Follow(wallet, chain) ==
  session' = IF wallet = NoWallet THEN [wallet |-> NoWallet, chain |-> NoChain]
                                   ELSE [wallet |-> wallet, chain |-> chain]

\* disconnectWallet: the user lets the wallet go, whatever flows are open.
Disconnect ==
  /\ session.wallet # NoWallet /\ changes.switches < MaxSwitches
  /\ changes' = [changes EXCEPT !.switches = @ + 1]
  /\ Follow(NoWallet, NoChain) /\ refresh' = NoRefresh
  /\ UNCHANGED <<waiting, running, registry>>

\* refreshWalletState, once eth_accounts has answered.  An account that changes
\* under a prompt is ignored; a stale stored entry is cleared.
RefreshAccounts(wallet) ==
  LET conflict == session.wallet # NoWallet /\ wallet # session.wallet
      prompt == PromptActive(registry)
  IN /\ ~refresh.pending /\ changes.switches < MaxSwitches
     /\ changes' = [changes EXCEPT !.switches = @ + 1]
     /\ registry' = CASE conflict /\ prompt -> Stage(registry, session)
                      [] conflict /\ ~prompt /\ FlowActive(registry) -> Forget(registry, session)
                      [] OTHER -> registry
     /\ IF conflict /\ prompt
          THEN UNCHANGED <<session, refresh>>
          ELSE IF wallet = NoWallet
            THEN Follow(NoWallet, NoChain) /\ UNCHANGED refresh
            ELSE /\ refresh' = [pending |-> TRUE, wallet |-> wallet, prompt |-> prompt]
                 /\ UNCHANGED session
     /\ UNCHANGED <<waiting, running>>

\* And once eth_chainId has: a chain that changes under a prompt is ignored.
RefreshChain(chain) ==
  /\ refresh.pending
  /\ IF session.wallet # NoWallet /\ refresh.prompt /\ chain # session.chain
       THEN registry' = Stage(registry, session) /\ UNCHANGED session
       ELSE Follow(refresh.wallet, chain) /\ UNCHANGED registry
  /\ refresh' = NoRefresh
  /\ UNCHANGED <<waiting, running, changes>>

\* The page is gone, with the flows it ran; sessionStorage stays.
ReloadFlows ==
  /\ changes.reloads < MaxReloads
  /\ changes' = [changes EXCEPT !.reloads = @ + 1]
  /\ running' = [f \in Flows |-> NotRunning]
  /\ registry' = [registry EXCEPT !.active = EmptyRegistry.active]
  /\ refresh' = NoRefresh
  /\ UNCHANGED <<session, waiting>>

\* A reader that finds a flow active leaves a trace of it in the session's entry.
Hold(r) == FlowActive(r) /\ registry' = Stage(r, session)

\* A poll interval passes, and perhaps a reader with it.
Age == registry' = Aged(registry) \/ Hold(Aged(registry))

WalletStep ==
  \/ \E wallet \in Wallets \cup {NoWallet} : RefreshAccounts(wallet)
  \/ \E chain \in Chains : RefreshChain(chain)
  \/ \E f \in Flows : CommitWallet(f)
  \/ Disconnect

FlowNext ==
  \/ WalletStep
  \/ ReloadFlows
  \/ (Hold(registry) \/ Age) /\ UNCHANGED <<session, waiting, running, refresh, changes>>
  \/ \E f \in Flows : BeginFlow(f) \/ EndFlow(f)

FlowSpec == FlowInit /\ [][FlowNext]_flowVars

-----------------------------------------------------------------------------
(* Properties.                                                             *)

\* The memory counts exactly the flows in progress, so that a reader never takes
\* an open prompt for none: through nested flows, flows of several sessions, a
\* session that changes under a flow, a reload and an expired or cleared entry.
RunningIsCounted ==
  \A s \in Sessions : registry.active[s] = Cardinality({f \in Flows : running[f] = s})

\* A refresh does not change the chain of a connected wallet under an open prompt.
ChainHeldUnderPrompt ==
  [][\A chain \in Chains :
       RefreshChain(chain) /\ PromptActive(registry) /\ session.wallet # NoWallet
         => session' = session]_flowVars
=============================================================================
