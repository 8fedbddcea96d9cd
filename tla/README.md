# ChainWhisper: a TLA+ verification project

ChainWhisper is a browser client for the COTI chain: encrypted direct and group
chat, over-the-counter trades, a private exchange.  It has no server of its own
for most of this.  One page, one event loop, talks to RPC nodes that lag, drop
and reorganise, to a wallet that opens prompts whenever it likes, and to an
event socket that comes and goes.  Every hard bug of such a program sits between
two awaits.  These modules model the parts where that matters most; TLC checks
them on small instances, and TLAPS proves what matters most for every instance.

Contents: [the system](#the-system), [the modules](#the-modules-and-the-code),
[the runs](#the-runs), [fairness](#fairness), [the proofs](#the-proofs),
[findings](#where-the-code-and-its-word-part), [what is left out](#not-modelled),
[the plan](#plan).

## The system

| Component | State it keeps | Operations | Talks to | What makes it correct |
|---|---|---|---|---|
| **Direct chat history** `directChatV2SyncCoordinator`, `directChatV2History`, `directChatV2HistoryMemory`, `directChatV2HistoryRuntime` | per conversation: a checkpoint (block and hash, first and last loaded id, older cursor), a revision, a pending reset, the version of the latest batch; in the App: the messages shown | `sync`, `loadOlder`, the batch's `applyMutations`/`commit` | RPC node, the App's projection, the write coordinator's receipts | what the checkpoint claims is what is shown, of one chain; what is final stays; nothing becomes unreachable; newest and older messages are shown in the end |
| **Wallet transaction flows** `walletTransactionFlow`, the refresh in `useWalletOnboarding` | a count per session in memory, an expiring entry per session in sessionStorage | begin, end, record a stage, clear; follow the wallet's accounts and chain | every feature that opens a wallet prompt, every reader that must wait for it | the count is exact; entries expire; a session does not change under a prompt |
| **Trading page freshness** `useP2PSyncQueue`, `useP2PRealtimeSync`, `p2pSyncCoordinator`, `useP2PTradeWalletPromptFlow` | the queued reason, a debounce, a throttle timer, polling, busy and reading readers | schedule, flush, dispatch, poll, focus, connected/lost, the prompt flow | the event socket, the flows, the trade readers | a hint is read in the end; a confirmed action keeps its place and its urgency; what is queued is lost in one known way only |
| **Chain-event hint socket** `cotiEventHints`, `realtimeConnection` | generation, connection, attempt, retry and health timers, acks per filter, listeners | subscribe, dispose, connect, lose, heartbeat, `onDebug` | ethers' WebSocketProvider; the pages that poll while it is not connected | who is told "connected" is served; who stays is connected again; silence is noticed; the last to go leaves nothing |
| **Direct chat write coordinator** `directChatV2WriteCoordinator`, `directChatV2NonceRetirement` | optimistic messages per tab, an IndexedDB store of used nonces that the tabs share | send: ensure the session, insert, draw and retire the nonce, transact, replace by the receipt or mark failed | session, history projection | a nonce is durable before it is used and used once; an optimistic message is settled by its own outcome |
| **Read cursors and their cloud copy** `directChatV2ReadCursor*`, `groupChatV2ReadCursor*`, `chatReadCursorCloud*` | a cursor with a generation per browser, a row in a table, notices between tabs | mark visible, load, reset, merge, pull, push | history, tabs, Supabase | a cursor says only what a user saw; within a generation it goes back only with its block (or what a node says of it); a reset is not undone; devices agree in the end |
| Incoming discovery `directChatV2IncomingDiscovery`, group `groupChatV2DiscoveryRuntime` | a scan cursor, conversations found | scan, watch, pause | socket hints, RPC | no conversation is skipped |
| Group chat V2 `groupChatV2HistoryRuntime` ... | as direct chat, with epochs and members | as direct chat | RPC | as direct chat |
| Reactions `chatReactionsV1*` | cached reactions per message | toggle, read, cache | histories, RPC | the cache agrees with the chain |
| **DEX submission** `currentDexSubmission*`, `currentDexPending...` | in sessionStorage the pending attempt, the lookups of accepted swaps and the record of charges; in memory a budget | quote, accept, cancel, recover, each: charge, reserve, ask the wallet, record the hash, verify; restore, discard | wallet, chain, storage | written before it is sent, sent once, in order; what holds tokens is never forgotten |
| Link trade creation `linkTradeV2CreationJournal`, `...Flow` | a journal of phases | advance, recover | wallet, chain, storage | same |
| OTC actions `otcV2ActionRuntime` | journals and activity of the trades it acts on | admit, approve, submit, confirm, recover | wallet, flows, contracts | an action is submitted only under an admission that still holds, and confirmed by its own receipt |
| Private liquidity `privateLiquidityWorkspaceCoordinator`, ... | a phase, a revision, the anchor block, the catalog and the position batches read so far | advance (one batch, or one range of events) | RPC | a complete snapshot is of one canonical block; an advance from a stale revision is refused |
| **RPC pacing** `cotiRpcPacing` | three queues, turn counts, the request under way, a sticky stop | enqueue, take turns, cancel, expire, stop | every reader | one request in flight; no class starves; nothing is sent after a stop; every call is answered |
| Crypto, images, supervisor, views, workers, manifests | none that outlives a call, or outside the program | | | |

How they interact: hints of the socket make the trading page and the chat loops
read; the readers ask the flow registry first whether a prompt is open; the
histories write one projection that receipts of the write coordinator also
write; every read passes the pacing.  The page is single-threaded, so a step is
what runs between two awaits, timers or callbacks; *all* concurrency is the order
in which these steps happen, and what the world does between them.

The hazards of this code, each at its line, are listed in `PROJECT.json`
(`hazards`) with the properties that would catch them going wrong.

## The modules and the code

| Module | Models |
|---|---|
| `DirectChatHistory` | the history of one conversation: calls, reads, batches, with the chain and the receipts as environment |
| `DirectChatHistoryInv` | the inductive invariant `Inv` behind `CheckpointVouches` |
| `DirectChatHistory_proofs` | its proof; when reorganisations are shallow what is shown as finalized is canonical, and stays; resets are earned; what is older is reached |
| `MCDirectChatHistory` | the instance with several interchangeable callers |
| `WalletFlow` | the registry of flows and the wallet refresh |
| `WalletFlow_proofs` | the counts are exact |
| `P2PSync` | the trading page; EXTENDS `WalletFlow`, whose steps it takes and whose specification it implements |
| `P2PSync_proofs` | the page implements `WalletFlow`; its types; what was asked for is queued until it is read, and a wallet action as what it is |
| `EventHints` | the shared socket of hints |
| `EventHints_proofs` | its types; nobody listening means nothing is open; who is told "connected" is served |
| `DirectChatWrites` | the sends of an owner's tabs to one peer, the nonces they use and the rows they show |
| `DirectChatWrites_proofs` | its types; a nonce is used once; a receipt finds its row; a draft says what became of its send; what is final stays final |
| `ReadCursors` | the read cursor of one conversation in several browsers or tabs, and its row in the cloud |
| `ReadCursors_proofs` | its types; a cursor's position was seen by its owner; a stored position is not lost |
| `MCReadCursors` | the instance whose tabs are interchangeable |
| `RpcPacing` | the queue in front of the RPC transport |
| `RpcPacing_proofs` | its types; one request at a time, the stop, and how often a class is passed over; the counts are of the calls that wait |
| `SubmissionJournal` | abstract: a write-ahead journal of calls and the transactions that follow it |
| `DexSubmission` | the swaps of one tab; implements `SubmissionJournal` |
| `DexSubmission_proofs` | its types; what was sent can be traced from storage; a funded swap stays remembered; it implements the journal |

### DirectChatHistory

A read is one action per await of `syncDirectChatV2HistoryPage`:
`ReadConversation`, `ReadLatest`, `ReadCheckpointBlock`, `ReadSafeHead`,
`ReadBoundary`, `ReadLogs`, `CheckEventBlock` (once per event),
`RecheckCheckpoint`, `RecheckBoundary`, `RecheckSafeHead`, then `ResetCursor` in
the runtime when the conversation is reset.  `run` is the closure of that read:
its snapshot, what it saw, the window, `readBlock`'s cache, the page.  `queue` is
`syncTail`; `Ask` is the App's call, `Apply` its `applyMutations` and `commit`,
`Drop` a call that fails or is abandoned at any of these points.  Between any two
of them the chain grows (`Mine`) or reorganises (`Reorg`), and a receipt of an own
message reaches the projection (`DeliverReceipt`).

*A hash is the chain it commits to.*  The hash of block n is modelled as the
sequence of blocks up to n, and `<<>>` is the null answer; equal hashes are equal
chains, which is what a collision-free hash gives.  A block holds how many messages
the conversation has after it and a salt, the number of reorganisations before it,
so that a replaced block never equals its replacement.  (A chain that returns to
the very same blocks after leaving them is thereby excluded: were it to happen
inside one page read, the boundary checks could not see it.)  `Lag` lets a node
answer as if its head were behind, and null for the newest blocks.

Contents of messages, decryption and formatting are left out.  `Backed` compares
ids and heights only, as the code does; that this *suffices* is what
`CheckpointVouches` says.  Revisions are only ever compared for equality with one
read by an outstanding call, so they count modulo 3.

In this model several of the code's defences overlap: the projection-reset record,
the re-check of the page boundary, the comparison of event hashes and the revision
check can each be taken away alone without breaking `CheckpointVouches`, because
the re-check of the safe head or the comparison of the batch version catches the
same case.  The mutants are therefore of the parts that carry the weight.

### WalletFlow

`registry` is `activeFlowCounts` and the stored entries; `Begin`, `End`, `Stage`
and `Forget` are the module's functions.  `Follow` and the two halves
`RefreshAccounts`, `RefreshChain` are `refreshWalletState` around its second
await; `CommitWallet` is the flow that connects a wallet, or another in place of the
one that was, and goes on, so that its key and the session part; `Disconnect` lets the wallet
go under whatever flows are open; `ReloadFlows` loses the memory and keeps sessionStorage.
Time is counted in poll intervals (`Age`); an entry lives `Ttl` of them (10 minutes
in the code).  Each flow starts at most once: a flow that starts again is another
member of `Flows`.  A session that is restored when the page is loaded begins in no flow,
as one does that a refresh finds.  sessionStorage is assumed to work; the code falls back to memory
without it.

### P2PSync

`World` is what a callback may change, the page's refs and the registry; the
functions of the two hooks are operators on it, composed as the calls are
(`Realtime` calls `Dispatch` calls `Schedule` calls `Flush` calls `Run`).  A
callback runs to its end before the next.  Three fields are history: `owed`, a hint or a
confirmed action that no silent read has covered, followed only where the constant `Owing`
says so, in the configurations of the liveness properties; `asked`, what was scheduled, other than a
poll tick, and not yet handed to a reader; `over`, whether a poll tick was merged after it
and a flush then found a reader busy, the one way in which it is lost.  Nothing tells the
reasons `focus` and `chain-event` apart, and `hint` stands for both.  The throttle (1500 ms)
outlasts the debounce (250 ms) that it starts with, and a poll interval (30 s)
outlasts the throttle: `Cool` waits for `debounce`, `Tick` for `ticked`; nothing
else about time is assumed.  Domains of a refresh and the contents of the readers
are left out, and the route is a constant.  The reasons `manual` and `initial` have
no caller in the repository.  The effect of `useP2PRealtimeSync` starts over, with a new
throttle and a new listener, when the session changes (`Session`) and when the route or a
callback of the page does (`Restart`).  The silent reader is that of the lists, which
coalesces; the one of a selected trade (`refreshTradeDetail`) starts a second read beside
the first, which `FetchDone` takes for one read after the other.  A coalesced second read may start while a prompt is open, as
in the code; silent reads do not make the page busy.

`DirectFlows` are flows that other features run without the page's prompt flow (the
private swap in `usePrivateLiquiditySwapAction.ts`): nothing flushes the queue
after them.

### EventHints

`hub` is the closure of `createCotiEventHintSubscriber`; `wire` is the socket and
its client library, which is external: `on()` and `off()` take effect in the order
of the calls; a filter's first handler makes a request, which goes out on a timer
after `on()` has returned (the test at `cotiEventHints.test.ts:41` has to advance
timers for it); replies come once what was queued is out; `resetProvider` leaves a
fresh socket.  One action per await of `connect` (`Loaded`, `Network`, `DebugOn`,
`BlockOn`, `Settled`), and each may find that its generation has passed (`Stale`).
`Silence` is the socket that dies without a close event.  A failure of a live socket
is bounded (`MaxFailures`); a dead one fails every step that needs it.  A listener may be
disposed of at any time, before its request is on the wire too, as React does when an effect
is re-run at once.  `doubled` is a history variable: filters requested again while an earlier
request of theirs, whose handlers went, was not yet sent.  A second `off()` that a late
registration makes for a handler already removed changes nothing and is left out.

### DirectChatWrites

The tabs of an owner share the chain (`submitted`, `mined`) and the store of retired
nonces; each has its rows, its runtime and at most one send, which moves by one action
per await: `Begin`, `Ensured`, `SendStarts`, `Encrypt` (a nonce is drawn), `Claim` (the
IndexedDB transaction that retires it, or finds it retired), `Submit` (the wallet is
handed the ciphertext), `Receipt` or `SendRejects`.  In between, `Look` opens another
contact, `OtherMutation` takes the session, `Replace` replaces the runtime, `Reload`
forgets everything but IndexedDB, `HistoryPage` shows what is mined as finalized, before
or after the receipt does, and `Replay` is the reset that drops the rows of the chain.
`ended` is a history variable: how the coordinator left a send.  A receipt is applied
(`received`); or the row that a page brought is of another block, and the update throws
(`disputed`); or the contact is not on screen or the runtime was replaced, and nothing is
done with it (`unseen`).  In the last two the draft stays pending beside the message that a
page shows: the code leaves it so, and `DraftSaysTheOutcome` says that it is left so in no
other case.  A draft shown as failed belongs to a send that was refused, whose message may
still be mined.  A send has one receipt.  The draw of a nonce is any member of `Nonces`: that the draws of two tabs may be
equal is what the retirement is for.

### ReadCursors

`store` is the localStorage of a browser, `row` the cloud's, `view` the history that a
tab projects, `op` its mark or load between two awaits and `reset` its reset.  The
anchors of a cursor are read one per action (`ReadAnchor`); `Pull` and `Push` are the
cloud's two requests, `Push` with what the trigger of the table does.  A block is named
by the branch it was mined on, so that equal names are equal hashes.

What a merge is told of a block need not be the truth (`Answered`): a node that is behind
does not have it yet or still has the one it replaced, a log may come without the message,
and `canonicalAnchorReader` answers null for either as for a block that is gone.  The merge
then keeps the next cursor it was given, a lower one of the same generation, and stores it,
so that *one false answer takes a position back*.  No answer tells the two apart, and
`PositionIsKept` allows exactly this: a position falls only when its block has left the chain
or was denied to the very merge that stores the lower one (`lost`).  In the same way `Sync`
may take a node that is behind, or a block replaced with no message moved, for a
reorganisation and reset the cursor.  False answers share the bound `MaxTroubles` with
failures, reloads, wiped rows and reorganisations.

A tab has one call at a time, and reads its message count in the step that begins it; the
code reads it over awaits before, and a count that is too low makes the call throw, as
`OpFails` does.  The cursor that a notice carries is one the shared storage held, and is left
out of `Load`.

`shared` says which of two worlds it is: tabs of one browser with one storage and one
Web Lock, without a cloud session; or browsers of their own that write one row.  Tabs of
one browser *with* a cloud session are outside this bound, as are browsers without Web
Locks (there the code falls back to no lock).  After a reorganisation that no running
tab has seen, the row keeps a position whose block is gone, and cannot go back within
its generation: the code is best effort there, and `PositionIsKept` and `DevicesAgree`
say nothing of it.  Several reset notices to a tab count as one.

### RpcPacing

The loop of the queue runs to its next await within the action that wakes it (`Turn`,
`Paced`), and the operators it is made of (`Chosen`, the turn counts) are functions of
the queues.  A call is `queued`, then `pacing` if the trial spaces requests, `sent`,
`settled`.  `Deadline` answers the caller while the transport may still be reading,
which is why `transport` outlives the call (`LateEnd`).  Time is not counted; a deadline
may pass whenever its timer is set.  `passed` is a history variable.

### DexSubmission

`pending`, `lookups`, `barred` and `record` are sessionStorage, which a reload keeps;
`held`, `budget`, `live`, `issued` and `op` are the page's memory.  `op` is where a call
of the adapter stands; `Commit`, `Persist`, `Reserve`, `WalletSends`, `HashReturned`,
`Submitted`, `RememberHash` are the steps of a send, and between any two of them the
page may be reloaded, a write may fail (`Fails`, `Throws`), the wallet may send another
transaction (`Other`) or a block may come.  The wallet's prompt outlives the page: the
wallet sends what it was asked, whether or not anybody waits for the hash.  A scope is
the hash of a Quote's data and is new with each Quote.  The in-memory reservations
repeat the keys of the budget and are left out.

The page restores a quote only when nothing is saved, or a Quote that is observed mined
(`DexV2Page.tsx:548`), so that the branches of `restoreOperation` for a saved Accept,
Cancel or Recover are not reached and not modelled; what follows from that is a finding.
Token approvals, a repriced transaction, pools, limit orders and the trials of single
owners, which share the file, are left out.

### SubmissionJournal

What such a page promises: a call is journalled before it is sent, is sent at most once
and in the order of the journal, and is journalled only when everything before it is
mined.  `DexSubmission!ImplementsJournal` maps the record of charges to the journal and
our transactions to the wire.

## The runs

Every bound is a constant of its module.  Small numbers suffice because every
rule of these components speaks of two neighbours at most: two pages that touch, two
callers, two sessions, two filters.

| Run | Asks | Instance | Expected |
|---|---|---|---|
| `history_shallow` | `TypeOK`, `FinalizedCanonical` (what is final is canonical for ever), `LoadedStays` (no final message disappears or falls back) | 5 blocks, 3 messages, pages of 2 blocks, depth 1: three pages, one reorganisation within the depth, one failure, one lossy answer, one receipt at any moment | holds, 2.0 M states |
| `history_callers` | `CheckpointVouches`, `Inv` | two callers, batches applied at any later time, a lagging node, a reorganisation of 3 blocks; symmetry on callers, only safety asked | holds, 1.4 M |
| `history_live` | `OlderCursorReaches`, `ResetIsEarned`, `RecentIsShown`, `HistoryIsShown` | 5 blocks, 2 messages, both perhaps in one block (a page may end within a block), a reorganisation of 3 blocks, one lossy answer | holds, 364 K |
| `sync_safety` | `SyncTypeOK`, `RunningIsCounted`, `QueueIsKept`, `WalletActionIsKept`, `OnlyTraces` (implements `WalletFlow`) | two flows, one of them direct, a wallet, a switch (a session that comes, goes or is followed), a reload, foreground reads at any time | holds, 1.1 M |
| `sync_live` | `HintIsServed` on the page of a trade | one session, one flow, foreground reads at any time, one loss of the socket, one restart of the effect | holds, 96 K |
| `hints` | `TypeOK`, `ConnectedIsServed`, `IdleIsQuiet`, `SubscribedIsConnected`, `SilenceIsNoticed` | two listeners of one filter or two, who go at any time, three failures | holds, 30 K |
| `sends` | `WriteTypeOK`, `NonceUsedOnce`, `DraftSaysTheOutcome`, `ReceiptFindsItsRow`, `FinalityIsKept` | two tabs, two nonces, two sends, one reload or replaced runtime | holds, 640 K |
| `cursors` | `CursorTypeOK`, `PositionWasSeen`, `PositionIsKept` | two tabs or two devices, one message, one thing that goes wrong: a reorganisation, a false answer, a failed call, a reload or a wiped row; symmetry on tabs, only safety asked | holds, 1.5 M |
| `cursors_live` | `DevicesAgree` | two devices, one message, one false answer, failed call, reload or wiped row | holds, 154 K |
| `pacing` | `PacingTypeOK`, `OneRequest`, `CountsExact`, `BypassBounded`, `StopIsFinal`, `EveryCallEnds` | six calls, the three builds of the queue, a trial of four requests | holds, 948 K |
| `dex` | `DexTypeOK`, `SentIsTraceable`, `FundedIsRemembered`, `ImplementsJournal` | a slow and a fast quote, six transactions of the wallet, any number of reloads and failed writes | holds, 537 K |
| `dex_saved` | `SavedAcceptIsVerified` | one slow quote, two transactions | violated |

Seven more configurations stand beside the runs.  Six show a property that the code
violates, described under [findings](#where-the-code-and-its-word-part):
`history_lossy` (`OlderCursorReaches` when an older page comes back empty), `sync_gap`
(`GapIsReconciled` off the page of a trade), `sync_drop` (`HintsAreHeld`), `sync_expire` (`StaleExpires`),
`flow_prompt` (`ChainHeldUnderPrompt`) and `hints_ack` (`ConnectedIsAccepted`).
The seventh, `history_retry`, checks the two liveness properties of
`history_live` with a failed read in place of a lossy answer; they hold.

Bounds worth a word:

- *5 blocks, depth 1, pages of 2.*  Room for the creation block, two pages of
  messages, a window in the middle that is neither first nor last, and a head above
  the safe head.  A depth of 1 makes a reorganisation of 1 shallow and of 3 deep.
- *`PromptApply`.*  The App applies a batch in the continuation of its read; with
  one caller no other answer comes first.  `history_callers` lifts it.
- *`Ttl`.*  1 in `sync_safety`, where only counts and the queue are asked, 2 where
  expiry is.
- *`MaxSwitches`, `MaxReloads` 1.*  A session has one predecessor; `Wallets` with
  one member gives two sessions (connected and not).
- *`MaxFailures` 3.*  Lose a connection, fail its successor, and refuse the request
  of a third.  Safety with three listeners and two failures was checked as well.
- *Two tabs, two nonces, two sends.*  A nonce is used twice by two sends, of one tab
  before and after a reload or of two tabs.  The theorems need no bound.
- *One message, one thing that goes wrong (`cursors`, `cursors_live`).*  A position falls or
  is tied to another block by one reorganisation, or one false answer, under a call of one of
  two tabs.  With one message a device is ahead of another by having read it, or by a
  generation that a node behind the head made it begin.  `cursors_live` has no
  reorganisation, since what is promised is promised of a chain that keeps its blocks; that
  no generation is undone is `PositionIsKept`.  The theorems need none of these bounds.
- *Six calls, a limit of four.*  Three turns of others and then the one that waited,
  with one more on either side; the trial's limit is reached with calls still waiting.
- *`MaxNonce` 6.*  A quote, its Accept and a Recover, the next quote, its Accept, and a
  transaction of the wallet in between.

`CHECK_DEADLOCK FALSE` appears for `EventHints`, whose listeners are subscribed and
disposed of at most once, for `RpcPacing`, whose bounded calls all end, and for
`DexSubmission`, whose wallet runs out of nonces: each really stops.

Every property has a mutant in `PROJECT.json`: a plausible mistake, kept beside the
definition it replaces (`PlannedUnsettled`, `OlderCursorSkips`,
`CheckpointNotRechecked`, `EndForgets`, `BusyDrops`, `MergeLatest`,
`DisposeKeepsTimers`, ...), under which the property fails in its own run.

## Fairness

- `DirectChatHistory!FairSpec`: `WF` on `Read`, since an RPC call is answered or
  times out; `WF` on `Ask(c, FALSE)`, since the App's loops ask again on their
  interval; `WF` on `Apply`, a continuation of the same page.  `PatientSpec` adds
  `SF` on `Ask(c, TRUE)`: the user keeps scrolling back while there is more, and is
  not put off for ever by the loop's own reads.  The liveness properties speak only
  of conversations whose last message is final (`Settled`): the code reads nothing
  until the last message is under the safe head (`Planned`), so a conversation in
  which somebody writes in every block is never caught up with.  That is what the
  code says, and no property denies it.
- `P2PSync!FairSync`: `WF` on each timer and task of the browser, on the ends of
  reads (by their time-outs) and of flows (the user answers the prompt or rejects
  it), and on `Connected` (the socket's own promise, `SubscribedIsConnected`).  No
  fairness on hints, focus or foreground reads: they may never come.  Foreground reads may
  also come at any time and for ever; `HintIsServed` exempts only the behaviours in which
  they never cease (`NeverAtRest`: the page is busy again and again), since the silent
  reads wait for a page that is not busy.
- `EventHints!FairSpec`: `WF` on the awaits of an attempt, on the hub's timers, on
  what a live socket sends, and on time-outs of a dead one.  No fairness on a
  failure of a live socket.
- `ReadCursors!FairCursorSpec`: `WF` on the steps of a call (requests are answered or time
  out), on `Load` and `Sync` (the App's timers) and on the awaits of a reset; `SF` on
  `Acquire` and `ResetStore`, since the tab's queue and the browser's Web Lock serve in the
  order of arrival.  Nobody has to mark a message, and nothing has to fail.
- `RpcPacing!PacingSpec`: `WF` on the loop (a settled promise wakes it, a timer that is set
  fires) and on the deadline of a call that was sent.  No fairness on the transport, on
  callers, or on the deadline of a call that waits: `EveryCallEnds` needs none.
- `DexSubmission!DexFairSpec`, used by `dex_saved` alone: `WF` on `Mining` and on
  `Checking`, the page's own steps and a user who keeps asking for the state of the swap.
  The property is violated even so.

## The proofs

Everything is proved from the assumptions the modules declare
(`HistoryAssumption`, `FlowAssumption`, `SyncAssumption`, `WriteAssumption`,
`CursorAssumption`, `HintsAssumption`, `PacingAssumption`, `DexAssumption`: bounds are naturals, `Flows` is finite, the fast
quotes are quotes, "no wallet" is not a wallet, "no nonce" not a nonce, "no quote" not a
quote), for every value of the constants.

- `DirectChatHistory_proofs`: **`CheckpointIsVouched`** (`Spec => []CheckpointVouches`),
  with `InvHolds` and `TypeCorrect`.  `CheckpointVouches` is not inductive: nothing in
  it says that the batch about to be applied, or the page being read, is any good.
  `Inv` adds what the runtime knows at each await.  (1) `CacheShape`: what a read has
  cached was on the chain when it was read (`Past`), and a hash that has left the chain
  never comes back (`NeverComesBack`).  (2) `PageOnSafeHead`: *as long as the safe head
  the read started from is canonical*, its page and its checkpoint lie on the chain
  that hash commits to.  A reorganisation that disturbs the page makes the premise
  false for good.  (3) The re-check of the safe head at the end discharges the
  premise, so the next checkpoint is `Earned`: each id it claims is in the page or was
  claimed by the checkpoint it extends, all on its own chain (`NextCheckpointEarned`).
  (4) `RevisionShape` and `BatchShape`: the checkpoint a batch extends is still the
  stored one when the batch is applied, or the batch is refused.  Then `Backed`, which
  looks at ids and heights alone, is enough.  One lemma per action; the lemmas `RunStep`
  and `ReadStep` say once what a step that only writes `run` need not disturb.
- There too, **`FinalizedIsCanonical`** (`Spec => []FinalizedCanonical`
  when `ReorgDepth <= ConfirmationDepth`, the assumption of the theorem).  On top of `Inv`
  it needs only depth: the safe head of a read, each block of its page, each page waiting
  to be applied and each finalized message on screen are `Deep` (canonical and
  `ConfirmationDepth` under the head), and such a block is never replaced (`DeepStays`).
  The hash checks of a read are not used; they matter for deeper reorganisations, which is
  what `CheckpointVouches` and `ResetIsEarned` are about.
- There too, **`ResetsAreEarned`** (`Spec => []ResetIsEarned` when `Lag = 0`, i.e. every
  node that answers has the head).  A stored checkpoint was a safe head once (`Sunk`), and
  the chain never gets shorter, so it is below the safe head for good: a node that does not
  have its block tells of a reorganisation, and a replaced block never comes back.
  `RevisionShape` ties the checkpoint the read tested to the one stored when the batch is
  applied.  With a node that is behind, the property fails, and the code cannot know.
- There too, **`CursorReachesOlder`** (`Spec => []OlderCursorReaches` when `EmptyAnswers`
  is FALSE): each checkpoint, stored, read from or about to be applied, has its older
  cursor at or above the block of the message before its first (`Reaches`); a window below
  it that is empty holds no message (`EmptyWindow`), since a node that drops the records of
  a whole window is what the assumption excludes.  `history_lossy` has such a node, and
  the property fails there.
- There too, **`LoadedIsKept`** (`Spec => LoadedStays` for one caller, `ReorgDepth <=
  ConfirmationDepth` and `Lag = 0`): a finalized message stays on screen as it is.  The
  property compares two states, and what makes it hold is spread over a whole read.  `Stay`
  says that one caller has one call at a time, in the queue, being read, or as a batch; so
  the projection a call captured is backed by the same stored checkpoint until its batch is
  applied (`Carried`, `Resumes`), and that checkpoint is too deep to be replaced
  (`Rooted`).  Hence no read resets (`NothingResets`) and none replays.  A batch adds
  messages or replaces one that is shown, and then by itself, for a message is in one block
  of the chain (`SameMessage`).  With several callers a second batch may be applied over
  a newer projection than it was read for, and the theorem is not claimed.
- `WalletFlow_proofs`: **`FlowsAreCounted`** (`FlowSpec => []RunningIsCounted`).  To the
  count `FlowInv` adds the types and that a waiting flow does not run; without the
  second `Begin` could count a flow twice.
- `P2PSync_proofs`: **`ReadersOnlyTrace`** (`SyncSpec => OnlyTraces`): the page
  implements `WalletFlow`.  Each operator of a callback leaves the registry as it was, or
  with one `Stage` of the session under an active flow (`Traced`); a second `Stage` adds
  nothing (`StageTwice`), so nested calls that record several times are still one step of
  `WalletFlow`.  A tick ages first and traces then, which is `Age`.  With it
  **`PageCountsFlows`**: the count is exact on the page too.
- There too, **`PageTypeCorrect`**, **`QueuedIsRead`** (`SyncSpec => []QueueIsKept`)
  and **`WalletActionWaits`** (`SyncSpec => []WalletActionIsKept`).  Each operator a callback
  is made of keeps the page typed and the queue true to what was asked (`Good`).  The
  callbacks nest these operators, so the lemmas do too, with one case per step at the end.
  What is proved is the whole truth of the queue, from the request to the read: it is there
  under its own name; or a poll tick was merged after it; or, after that, a flush found a
  reader busy and dropped both, which `sync_drop` shows to happen.
- `DirectChatWrites_proofs`: **`WritesTypeCorrect`**, **`NoncesAreUsedOnce`** (`WriteSpec =>
  []NonceUsedOnce`, for any number of tabs, sends and reloads), **`DraftsEnd`**,
  **`ReceiptsFindRows`** and **`FinalityStays`**.  For the nonces: what was submitted is retired (`SpentIsRetired`),
  and a nonce that a tab has claimed but not submitted is nobody else's (`ClaimIsOwned`);
  a claim that commits makes both true at once, and no later step can draw past it.  For
  the rows: `RowFollowsSend` says at each step of a send which row it has, as long as its
  runtime is current, and `SendIsOneTabs` that no other tab has one of it; so what a step does to
  a draft is what it records of the send.
- `RpcPacing_proofs`: **`PacingTypeCorrect`**, **`OneRequestAtATime`**, **`StopIsKept`**,
  **`BypassIsBounded`** and **`CallsAreCounted`**, for any number of calls and any limit.  `WorkerOwns` ties the
  transport to the loop: a request whose caller is answered early holds the transport with
  the queue stopped, so no second one starts.  `TurnsLeft` and `EssentialLeft` give each
  class that waits its distance from its turn, in the counters the code keeps; the bound
  on essential calls (5) is larger than the comment's 3 because two turns of background
  calls may fall in between, one that was due already and one that becomes due.
  `CountsInv` says that each call that waits is in the queue exactly once (`Counted`), so
  that a call that leaves it, whichever way, takes exactly one from the count.
- `DexSubmission_proofs`: **`DexTypeCorrect`**, **`SentsAreTraceable`** (`DexSpec =>
  []SentIsTraceable`), **`FundedStaysRemembered`** (`DexSpec => []FundedIsRemembered`) and
  **`PageKeepsJournal`** (`DexSpec => ImplementsJournal`), for any
  number of quotes and transactions.  None of them is inductive.  `DexInv` adds the
  `Ledger`, which relates three sequences: what the wallet sent, the record in storage and
  the budget in memory.  The record is at most one charge ahead of the wallet, and every
  other charge is of the transaction with its number (`WireIsKept`); the budget is ahead of
  the record by the charge of the next call, and only while nothing is pending and all that
  was sent is mined (`MeantIsNext`); the attempt under way is the last charge of the record
  (`PendingIsLast`), and while the wallet still asks for it, it is not sent
  (`PromptIsUnsent`).  `Step` says for each await of a call what has been written by then,
  which is what a reload between two of them finds.  The refinement goes step by step: the
  write of the record before the wallet is asked, or the one that closes a call, logs; the
  wallet's sending sends; the receipt of the last call recorded mines; all else stutters.
  For the funds, `Funding` ties three views of a swap: what the chain has done with it, the
  stage the session knows, and the action in storage.  What is not mined is pending
  (`UnminedIsPending`), what the wallet owns on the chain is the active swap
  (`OwnedIsActive`), a mined Accept is saved or confirmed (`FundedIsSaved`), a stage is of
  a transaction that was sent (`StagesAreSent`), and a swap begins with its Quote
  (`QuoteIsFirst`).  A second Accept, or another swap's Quote over a funded one, would
  need one of them to be false.

- `ReadCursors_proofs`: **`CursorTypeCorrect`**, **`PositionsWereSeen`** (`CursorSpec =>
  []PositionWasSeen`) and **`PositionsStay`** (the action property: a stored generation never falls,
  and within one a position goes back only where its block left the chain or a node denied
  it to the merge that stored the lower one).  A merge
  is spread over awaits, so neither is inductive.  `CursorInv` follows each copy of a
  cursor: all of them, in memory, in a store, in a merge under way, in the cloud and on the
  wire, hold positions that were seen (`AllSeen`), none of them on the newest branch
  unless it is on the chain, so that a block that has left never comes back (`AllAtHome`); and as one tab at a time holds the lock of a
  store (`OneStore`, `OneHolder`), a merge will not fall behind what the store holds, but for
  what has left the chain or was denied to it (`MergesKeep`).
- `EventHints_proofs`: **`HintsTypeCorrect`**, **`IdleStaysQuiet`** (`Spec =>
  []IdleIsQuiet`) and **`ConnectedStaysServed`** (`Spec => []ConnectedIsServed`).  The last
  one relates two ends of a wire: a listener is told it is connected by a promise, the promise
  by a reply, and the reply by a request that may have been sent for another listener of the
  same filter.  `HintsInv` says of each filter that was not `doubled`: at most one request is
  live; a request that is tied to an ack, or not sent yet, is live; an ack that is resolved was
  accepted at the service and has no live request left; who is acked has a resolved ack, and
  who is told was acked.  Nothing is assumed of when listeners go.  A filter that was requested
  again before its first request was sent is exempt from one conjunct, that the service
  accepted it, since there the code is wrong: `hints_ack`.

Only model-checked: everything under fairness (`RecentIsShown`, `HistoryIsShown`,
`HintIsServed`, `SubscribedIsConnected`, `SilenceIsNoticed`, `DevicesAgree`,
`EveryCallEnds`), which is beyond the prover: it has no rule for liveness under
fairness, and none for `ENABLED`.  Every invariant and every safety property of a step
that a run expects to hold is proved too, four of the history's under the assumptions named
above, which their runs make as well.

## Where the code and its word part

Each of these configurations fails, and shows the code doing other than a comment or a
test of the repository says.  `PROJECT.json` quotes the lines.

1. `history_lossy`: after an older page *without any record* the cursor goes below the
   page (`directChatV2SyncCoordinator.ts:617`), although the comment at 454 says that
   a missing leading record stays reachable at the inclusive cursor.  The code sees the
   loss only when the page is the conversation's first.  With a loss that leaves one
   record of the page the comment is right, which `history_live` checks.
2. `sync_gap`: the hint that reconciles the gap of a lost socket is swallowed by a
   pending timer; if that is a poll tick, a busy page drops it, and polling is off.
3. `sync_drop`: a hint that waits in the queue is relabelled by the poll tick that is merged
   into it (`p2pSyncCoordinator.ts:5`), and a flush that then finds a reader busy drops it
   (`useP2PSyncQueue.ts:95`), although "the existing sync queue holds and coalesces hints
   while readers are busy" (`useP2PRealtimeSync.ts:61`).  The tick gets past the throttle when
   the effect has started over in between.
4. `sync_expire`: each reader that finds the stored entry of a flow that a reload has
   ended renews its lifetime, so that it does not expire while the page polls.
5. `flow_prompt`: whether a prompt is open is read before `eth_chainId` is awaited and not
   after; a prompt that opens in between does not hold the session.
6. `hints_ack`: a request is tied to the ack its filter has when it is *sent*; if its
   listener was replaced by another of the same filter before that, its reply
   acknowledges the newcomer's subscription.
7. `dex_saved` (a listed run): an Accept that is saved when the page is reloaded, or when
   its send throws, and is then mined, is kept "until an authenticated path verifies it"
   (`currentDexSubmission.ts:1755`), but no path of the page does: the public receipt is
   refused, and restoration is asked for only when nothing, or a Quote, is saved.

Two more were met while modelling `DexSubmission` and are stated in `PROJECT.json`
without a run: the restoration of a saved Recover, which the page does not reach, would
throw; and a reverted Quote that is reconciled after a reload leaves its swap active in
the record, so that no further Quote is admitted.

## Not modelled

- *A read of several conversations.*  Scopes are independent in the code; one is
  modelled.
- *The views' snapshots.*  A background caller of the App passes a snapshot of the
  entries taken before its read; the model's projection is the one the batch is applied to.
- *Own messages of a replaced block.*  `DirectChatHistory` has receipts and
  reorganisations, `DirectChatWrites` has sends without reorganisations.  That a confirmed
  row whose block is gone stays until the history is reset shows in neither as a
  violation: no property denies it.
- *Watchers and unread counts* of the history runtime, and the cursors of groups.
- *Cryptography, payloads, formatting*: values a model can only name.
- *Contracts*: external, and not in this repository's sources of the client.
- *Views, HTTP workers, deployment manifests, the supervisor of the DEX services*: no
  state of their own that these properties speak of, or outside the program.  They are
  most of the repository's lines; so are the ABI encodings and validations of the chain
  libraries (`appChain.ts`, `groupChatV2Chain.ts`, `directChatV2Chain.ts`), which are
  pure functions of one RPC answer.
- The remaining components of the first table: see the plan.

## Plan

Done: the history, the flows, the page, the socket, the sends, the read cursors, the
pacing, the exchange's submissions with their abstract journal; the proofs above.

Next, in this order.

1. The link-trade journal as a second implementation of `SubmissionJournal`.
2. `DirectChatWrites` composed with `DirectChatHistory` over one projection: the receipt
   of a message whose block is replaced.
3. `IncomingDiscovery` and the group history as further readers of a reorganising chain.
4. `PrivateLiquidityWorkspace` (*a complete snapshot is of one canonical block*, whatever
   reorganises between its batches), OTC actions, reactions.

Proofs next: `LoadedStays` for several callers, which would need what a batch read for an
older projection may still do to a newer one (TLC first); the modules of this plan as they
come.

To check a module: `tlc -config history_live.cfg DirectChatHistory`; to check a proof:
`tlapm DirectChatHistory_proofs.tla`.
