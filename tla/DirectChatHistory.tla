-------------------------- MODULE DirectChatHistory --------------------------
(***************************************************************************)
(* Reading one Direct Chat V2 conversation from a chain that can           *)
(* reorganise, into the message projection the App shows.                  *)
(*                                                                         *)
(* The history runtime serialises its reads (syncTail).  A read is a long  *)
(* chain of awaits: the conversation, the head, the checkpoint block, the  *)
(* safe head, the page boundary, the logs, the event blocks, and the       *)
(* boundary blocks once more.  Between any two of them the chain may grow  *)
(* or reorganise, a receipt of the wallet's own message may reach the      *)
(* projection, another caller may ask for a read or apply its batch, or    *)
(* the read may fail or be abandoned.                                      *)
(*                                                                         *)
(* A block hash commits to the whole ancestry of its block, so the hash of *)
(* block n is modelled as the chain up to n: equal hashes are equal chains *)
(* and the empty sequence is the null answer for a block that is missing.  *)
(***************************************************************************)
EXTENDS Integers, Sequences, FiniteSets, SequencesExt, FiniteSetsExt

CONSTANTS
  Callers,           \* the App loops that ask for reads (active chat, background)
  Nobody,            \* "no caller"
  MaxBlocks,         \* bound on the length of the chain
  MaxMessages,       \* bound on the messages of the conversation
  MaxPerBlock,       \* bound on the messages of one block
  ConfirmationDepth, \* blocks between the head and the safe head
  Span,              \* blocks of one page of logs (maxBlockSpan)
  ReorgDepth,        \* blocks the deepest reorganisation replaces
  MaxReorgs,         \* bound on the reorganisations
  MaxDisruptions,    \* bound on failed and abandoned reads
  MaxLosses,         \* bound on log answers that miss records
  EmptyAnswers,      \* whether such an answer may miss every record the page is after
  MaxReceipts,       \* bound on receipts of own messages
  Lag,               \* how far the answering node may be behind the head
  PromptApply        \* TRUE: a batch is applied before the next read's answers,
                     \* as the App's continuations are; FALSE: at any later time

ASSUME HistoryAssumption ==
  /\ Nobody \notin Callers
  /\ MaxBlocks \in Nat \ {0} /\ MaxMessages \in Nat /\ MaxPerBlock \in Nat
  /\ ConfirmationDepth \in Nat \ {0}
  /\ Span \in Nat \ {0}
  /\ ReorgDepth \in Nat /\ MaxReorgs \in Nat /\ MaxDisruptions \in Nat
  /\ MaxLosses \in Nat /\ MaxReceipts \in Nat /\ Lag \in Nat
  /\ EmptyAnswers \in BOOLEAN /\ PromptApply \in BOOLEAN

VARIABLES
  chain,        \* the canonical chain; block 1 created the conversation
  reorgs,       \* reorganisations so far, the salt of the blocks they mint
  messages,     \* messagesByContactRef.current: what is shown under each message id
  checkpoint,   \* memoryState.checkpointsByScope of the conversation
  revision,     \* memoryState.revisionsByScope, see NextRevision
  pendingReset, \* pendingProjectionResets: the caller whose batch owes a reset
  batchVersion, \* batchVersions: the caller who received the latest batch
  queue,        \* calls waiting behind syncTail
  run,          \* the read in progress
  batch,        \* the batch each caller received and has not applied
  hasOlder,     \* the App's hasOlder, per caller: older messages may be asked for
  receipt,      \* a receipt of an own message on its way to the projection
  budget        \* disruptions, losses and receipts so far

chainVars == <<chain, reorgs>>
memoryVars == <<checkpoint, revision, pendingReset, batchVersion>>
vars == <<chain, reorgs, messages, checkpoint, revision, pendingReset,
          batchVersion, queue, run, batch, hasOlder, receipt, budget>>

-----------------------------------------------------------------------------
(* The chain.                                                              *)

Ids == 1..MaxMessages

\* A block: how many messages the conversation has after it, and a salt that
\* tells it from the blocks an earlier fork had at its height.
Block == [count: 0..MaxMessages, fork: 0..MaxReorgs]
Hash == {h \in Seq(Block) : Len(h) <= MaxBlocks}

CountAt(h, n) == IF n = 0 THEN 0 ELSE h[n].count
Sent(h) == CountAt(h, Len(h))

\* The block of chain h that holds message i, and its hash.
Holds(h, n, i) == n \in 1..Len(h) /\ CountAt(h, n - 1) < i /\ i <= CountAt(h, n)
BlockOf(h, i) == CHOOSE n \in 1..Len(h) : Holds(h, n, i)
MessageAt(h, i) == SubSeq(h, 1, BlockOf(h, i))

Canonical(h) == IsPrefix(h, chain)

\* readCanonicalBlock: null when the block does not exist.
BlockHash(n) == IF n <= Len(chain) THEN SubSeq(chain, 1, n) ELSE <<>>

-----------------------------------------------------------------------------
(* Projections and checkpoints.                                            *)

Finality == {"none", "confirmed", "finalized"}
Absent == [at |-> <<>>, finality |-> "none"]
Projection == [Ids -> [at: Hash, finality: Finality]]
EmptyProjection == [i \in Ids |-> Absent]

NoCheckpoint == [at |-> <<>>, first |-> 1, last |-> 0, olderTo |-> 0]
CheckpointType ==
  [at: Hash, first: 1..(MaxMessages + 1), last: 0..MaxMessages, olderTo: 0..MaxBlocks]
Exists(c) == c.at # <<>>

\* clearFinalizedProjectionForReplay.
ClearFinalized(msgs) ==
  [i \in Ids |-> IF msgs[i].finality = "finalized" THEN Absent ELSE msgs[i]]

\* A page of entries: the hash of the block each id was read in.
Page == [Ids -> Hash]
EmptyPage == [i \in Ids |-> <<>>]
IdsOf(page) == {i \in Ids : page[i] # <<>>}

\* mergeDirectHistoryEntries without pruning: an entry replaces its id.
Merge(msgs, page) ==
  [i \in Ids |-> IF i \in IdsOf(page)
                   THEN [at |-> page[i], finality |-> "finalized"] ELSE msgs[i]]

\* applyDirectChatV2SyncMutation under applyMutations.
Applied(msgs, replay, reset, page) ==
  Merge(CASE reset -> EmptyProjection
          [] ~reset /\ replay -> ClearFinalized(msgs)
          [] OTHER -> msgs, page)

\* selectDirectChatV2MemoryBackedCheckpoint: the ids the checkpoint claims are
\* all shown, finalized, in blocks it covers.  Only ids and heights are compared.
Backed(c, msgs) ==
  /\ Exists(c)
  /\ c.first <= c.last + 1 /\ c.olderTo <= Len(c.at)
  /\ \A i \in c.first..c.last :
       msgs[i].finality = "finalized" /\ Len(msgs[i].at) <= Len(c.at)

\* A plausible mistake: the receipt of a message that history already holds is
\* recorded as if it were news.
ReceiptOverwrites(msgs, r) ==
  [msgs EXCEPT ![r.id] = [at |-> r.at, finality |-> "confirmed"]]

\* applyDirectChatV2ReceiptUpdate for a message that is not optimistic any more:
\* a stable id already shown keeps its finality, and refuses another identity.
ApplyReceipt(msgs, r) ==
  IF msgs[r.id].finality = "none"
    THEN [msgs EXCEPT ![r.id] = [at |-> r.at, finality |-> "confirmed"]]
    ELSE msgs

\* Revisions are only compared for equality, with one read by a call that is
\* still outstanding; at most one batch is applied meanwhile, so three suffice.
Revisions == 0..2
NextRevision(r) == (r + 1) % 3

-----------------------------------------------------------------------------
(* Calls, reads and batches.                                               *)

Phases == {"idle", "latest", "checkpointBlock", "safeHead", "boundary", "logs",
           "eventBlocks", "recheckCheckpoint", "recheckBoundary",
           "recheckSafeHead", "resetCursor"}

Call == [caller: Callers, older: BOOLEAN, snapshot: Projection]

\* A read: what it has seen of the conversation (count, firstBlock, lastBlock),
\* the checkpoint it resumes from (base), the window it reads (from..to, 0 when
\* there is none), what its readBlock has asked and cached, and the page it collects.
NoRun ==
  [pc |-> "idle", caller |-> Nobody, older |-> FALSE, snapshot |-> EmptyProjection,
   count |-> 0, firstBlock |-> 0, lastBlock |-> 0, base |-> NoCheckpoint,
   replay |-> FALSE, revision |-> 0, safe |-> 0, reset |-> FALSE, from |-> 0,
   to |-> 0, asked |-> {},
   cache |-> [n \in 1..MaxBlocks |-> <<>>], page |-> EmptyPage, unchecked |-> {},
   next |-> NoCheckpoint, hasOlder |-> FALSE]
Run ==
  [pc: Phases, caller: Callers \cup {Nobody}, older: BOOLEAN, snapshot: Projection,
   count: 0..MaxMessages, firstBlock: 0..MaxBlocks, lastBlock: 0..MaxBlocks,
   base: CheckpointType, replay: BOOLEAN, revision: Revisions, safe: 0..MaxBlocks,
   reset: BOOLEAN, from: 0..MaxBlocks, to: 0..MaxBlocks, asked: SUBSET (1..MaxBlocks),
   cache: [1..MaxBlocks -> Hash], page: Page, unchecked: SUBSET Ids, next: CheckpointType,
   hasOlder: BOOLEAN]

NoBatch ==
  [active |-> FALSE, page |-> EmptyPage, reset |-> FALSE, replay |-> FALSE,
   next |-> NoCheckpoint, hasOlder |-> FALSE, revision |-> 0]
Batch ==
  [active: BOOLEAN, page: Page, reset: BOOLEAN, replay: BOOLEAN,
   next: CheckpointType, hasOlder: BOOLEAN, revision: Revisions]

NoReceipt == [id |-> 0, at |-> <<>>]

TypeOK ==
  /\ chain \in Hash /\ Len(chain) \in 1..MaxBlocks
  /\ reorgs \in 0..MaxReorgs
  /\ messages \in Projection
  /\ checkpoint \in CheckpointType
  /\ revision \in Revisions
  /\ pendingReset \in Callers \cup {Nobody}
  /\ batchVersion \in Callers \cup {Nobody}
  /\ queue \in Seq(Call)
  /\ run \in Run
  /\ batch \in [Callers -> Batch]
  /\ hasOlder \in [Callers -> BOOLEAN]
  /\ receipt \in {NoReceipt} \cup [id: Ids, at: Hash]
  /\ budget \in [disruptions: 0..MaxDisruptions, losses: 0..MaxLosses,
                 receipts: 0..MaxReceipts]

Init ==
  /\ chain = <<[count |-> 0, fork |-> 0]>>
  /\ reorgs = 0
  /\ messages = EmptyProjection
  /\ checkpoint = NoCheckpoint /\ revision = 0
  /\ pendingReset = Nobody /\ batchVersion = Nobody
  /\ queue = <<>> /\ run = NoRun
  /\ batch = [c \in Callers |-> NoBatch]
  /\ hasOlder = [c \in Callers |-> FALSE]
  /\ receipt = NoReceipt
  /\ budget = [disruptions |-> 0, losses |-> 0, receipts |-> 0]

-----------------------------------------------------------------------------
(* The chain and the wallet.                                               *)

Growing(h) ==
  /\ \A n \in 1..Len(h) : h[n].count <= CountAt(h, n - 1) + MaxPerBlock
  /\ \A m, n \in 1..Len(h) : m < n => h[m].count <= h[n].count

Mine ==
  /\ Len(chain) < MaxBlocks
  /\ \E n \in 0..MaxPerBlock :
       /\ Sent(chain) + n <= MaxMessages
       /\ chain' = Append(chain, [count |-> Sent(chain) + n, fork |-> reorgs])
  /\ UNCHANGED <<reorgs, messages, memoryVars, queue, run, batch, hasOlder, receipt, budget>>

\* The last d blocks are replaced by d blocks of another fork.
Reorg ==
  /\ reorgs < MaxReorgs
  /\ \E d \in 1..ReorgDepth :
       /\ d < Len(chain)
       /\ \E counts \in [Len(chain) - d + 1..Len(chain) -> 0..MaxMessages] :
            /\ chain' = [n \in 1..Len(chain) |->
                           IF n \in DOMAIN counts
                             THEN [count |-> counts[n], fork |-> reorgs + 1]
                             ELSE chain[n]]
            /\ Growing(chain')
  /\ reorgs' = reorgs + 1
  /\ UNCHANGED <<messages, memoryVars, queue, run, batch, hasOlder, receipt, budget>>

\* session.send has seen an own message in a block of the canonical chain.
ObserveReceipt ==
  /\ receipt = NoReceipt /\ budget.receipts < MaxReceipts
  /\ \E i \in 1..Sent(chain) : receipt' = [id |-> i, at |-> MessageAt(chain, i)]
  /\ budget' = [budget EXCEPT !.receipts = @ + 1]
  /\ UNCHANGED <<chainVars, messages, memoryVars, queue, run, batch, hasOlder>>

\* onReceipt, any number of history steps later.
DeliverReceipt ==
  /\ receipt # NoReceipt
  /\ messages' = ApplyReceipt(messages, receipt)
  /\ receipt' = NoReceipt
  /\ UNCHANGED <<chainVars, memoryVars, queue, run, batch, hasOlder, budget>>

-----------------------------------------------------------------------------
(* A call and its read.                                                    *)

Waiting(c) == \E k \in 1..Len(queue) : queue[k].caller = c
Free(c) == ~Waiting(c) /\ run.caller # c /\ ~batch[c].active

\* sync, or loadOlder when the App knows of older messages: the projection is
\* captured when the call is made.
Ask(c, older) ==
  /\ Free(c) /\ (older => hasOlder[c])
  /\ queue' = Append(queue, [caller |-> c, older |-> older, snapshot |-> messages])
  /\ UNCHANGED <<chainVars, messages, memoryVars, run, batch, hasOlder, receipt, budget>>

onlyRun == <<chainVars, messages, memoryVars, queue, batch, hasOlder, receipt, budget>>

\* session.history answers the call at the head of the tail; the checkpoint is
\* resumed only if the call's projection backs it and no reset is pending.
ReadConversation ==
  /\ run.pc = "idle" /\ queue # <<>>
  /\ PromptApply => \A c \in Callers : ~batch[c].active
  /\ LET call == Head(queue)
         base == IF pendingReset = Nobody /\ Backed(checkpoint, call.snapshot)
                   THEN checkpoint ELSE NoCheckpoint
         replay == /\ ~Exists(base)
                   /\ \/ pendingReset # Nobody
                      \/ \E i \in Ids : call.snapshot[i].finality = "finalized"
     IN run' = [NoRun EXCEPT
                  !.pc = "latest", !.caller = call.caller, !.older = call.older,
                  !.snapshot = call.snapshot, !.base = base, !.replay = replay,
                  !.revision = revision, !.count = Sent(chain),
                  !.firstBlock = IF Sent(chain) = 0 THEN 0 ELSE BlockOf(chain, 1),
                  !.lastBlock = IF Sent(chain) = 0 THEN 0 ELSE BlockOf(chain, Sent(chain))]
  /\ queue' = Tail(queue)
  /\ UNCHANGED <<chainVars, messages, memoryVars, batch, hasOlder, receipt, budget>>

Retained(r) == IF r.reset THEN NoCheckpoint ELSE r.base
FirstBlock(r) == IF r.firstBlock = 0 THEN 1 ELSE r.firstBlock
Older(r) == r.older /\ Exists(Retained(r))

\* The window a read asks for: it ends at the older cursor or at the last message,
\* and resumes after the checkpoint when the checkpoint falls inside it.
Window(r) ==
  LET c == Retained(r)
      end == IF Older(r) THEN c.olderTo ELSE r.lastBlock
      start == Max({end - Span + 1, FirstBlock(r)})
      resume == Len(c.at) + 1
      from == IF ~Older(r) /\ Exists(c) /\ start < resume /\ resume <= end
                THEN resume ELSE start
      readable == from <= end /\ r.count > 0
  IN [r EXCEPT !.pc = "safeHead", !.from = IF readable THEN from ELSE 0,
                !.to = IF readable THEN end ELSE 0]

\* Plausible mistakes: the plan does not wait for the last message to be final,
\* or waits one block too long.
PlannedUnsettled(r) == Window(r)
PlannedTooLate(r) == IF r.lastBlock >= r.safe THEN NoRun ELSE Window(r)

\* The plan: the last message must be under the safe head.
Planned(r) == IF r.lastBlock > r.safe THEN NoRun ELSE Window(r)

\* A plausible mistake: the depth is counted towards the head.
SafeHeadAhead(latest) == latest + ConfirmationDepth

SafeHead(latest) == IF latest >= ConfirmationDepth THEN latest - ConfirmationDepth ELSE 0

\* getLatestBlockNumber, from a node that may be behind.
ReadLatest ==
  /\ run.pc = "latest"
  /\ \E latest \in Max({1, Len(chain) - Lag})..Len(chain) :
       LET r == [run EXCEPT !.safe = SafeHead(latest)]
       IN run' = IF Exists(run.base) THEN [r EXCEPT !.pc = "checkpointBlock"]
                                     ELSE Planned(r)
  /\ UNCHANGED onlyRun

\* readCanonicalBlock: a node that is behind answers null for the newest blocks.
Answers(n) == {BlockHash(n)} \cup (IF n > Len(chain) - Lag THEN {<<>>} ELSE {})

\* readBlock: asked once per read and cached.
Reads(r, n) == IF n \in r.asked THEN {r.cache[n]} ELSE Answers(n)
Remember(r, n, h) == [r EXCEPT !.asked = @ \cup {n}, !.cache[n] = h]

\* A plausible mistake: a checkpoint at the safe head itself counts as reorganised.
CheckpointBelowSafeHead ==
  /\ run.pc = "checkpointBlock"
  /\ LET n == Len(run.base.at) IN
       \E h \in Answers(n) :
         run' = Planned([Remember(run, n, h) EXCEPT
                           !.reset = ~(h = run.base.at /\ n < run.safe)])
  /\ UNCHANGED onlyRun

\* The checkpoint is resumed, or refused as reorganised.
ReadCheckpointBlock ==
  /\ run.pc = "checkpointBlock"
  /\ LET n == Len(run.base.at) IN
       \E h \in Answers(n) :
         run' = Planned([Remember(run, n, h) EXCEPT
                           !.reset = ~(h = run.base.at /\ n <= run.safe)])
  /\ UNCHANGED onlyRun

\* The boundary checks that close a read; readBlock's cache is not consulted.
AfterCheckpoint(r) ==
  [r EXCEPT !.pc = IF r.to = 0 THEN "recheckSafeHead" ELSE "recheckBoundary"]
AfterPage(r) ==
  IF Exists(Retained(r)) THEN [r EXCEPT !.pc = "recheckCheckpoint"] ELSE AfterCheckpoint(r)

UpToDate(r) ==
  r.count = Retained(r).last /\ ~(r.older /\ Retained(r).first > 1)

ReadSafeHead ==
  /\ run.pc = "safeHead" /\ run.safe > 0
  /\ \E h \in Reads(run, run.safe) :
       LET r == Remember(run, run.safe, h)
           fails == \/ h = <<>> \/ run.count < Retained(run).last
                    \/ ~UpToDate(run) /\ run.to = 0
       IN \/ fails /\ run' = NoRun
          \/ ~fails /\ UpToDate(run) /\ run' = AfterPage([r EXCEPT !.from = 0, !.to = 0])
          \/ ~fails /\ ~UpToDate(run) /\ run' = [r EXCEPT !.pc = "boundary"]
  /\ UNCHANGED onlyRun

ReadBoundary ==
  /\ run.pc = "boundary"
  /\ \E h \in Reads(run, run.to) :
       run' = IF h = <<>> THEN NoRun
              ELSE [Remember(run, run.to, h) EXCEPT !.pc = "logs"]
  /\ UNCHANGED onlyRun

\* The last id the page must reach, independently of what the answer holds.
ExpectedEnd(r) == IF Older(r) THEN Retained(r).first - 1 ELSE r.count
ExpectedPrevious(r, ids) == IF ids = {} THEN ExpectedEnd(r) ELSE Min(ids) - 1

\* readMessagePage: the logs of the window on the chain of this instant, perhaps
\* with records missing.  Events are deduplicated, counted and continuous.
ReadLogs ==
  /\ run.pc = "logs"
  /\ LET window == {i \in Ids : \E n \in run.from..run.to : Holds(chain, n, i)} IN
     \E answer \in SUBSET window :
       LET ids == IF Older(run) THEN answer \cap 1..ExpectedEnd(run) ELSE answer
           missingTerminal == /\ ids = {} /\ ExpectedEnd(run) > 0
                              /\ ~Older(run) \/ run.from = FirstBlock(run)
           continuous == \E first \in 1..ExpectedEnd(run) + 1 : ids = first..ExpectedEnd(run)
           r == [run EXCEPT !.unchecked = ids,
                             !.page = [i \in Ids |-> IF i \in ids THEN MessageAt(chain, i)
                                                     ELSE <<>>]]
       IN /\ answer # window => budget.losses < MaxLosses /\ (ids = {} => EmptyAnswers)
          /\ budget' = [budget EXCEPT !.losses = IF answer = window THEN @ ELSE @ + 1]
          /\ \/ (missingTerminal \/ ~continuous) /\ run' = NoRun
             \/ ~missingTerminal /\ ids = {} /\ run' = AfterPage(r)
             \/ continuous /\ ids # {} /\ run' = [r EXCEPT !.pc = "eventBlocks"]
  /\ UNCHANGED <<chainVars, messages, memoryVars, queue, batch, hasOlder, receipt>>

\* The block of each event in turn, in the order of the answer, through readBlock.
CheckEventBlock ==
  /\ run.pc = "eventBlocks"
  /\ \E i \in run.unchecked :
       LET n == Len(run.page[i])
           left == run.unchecked \ {i}
       IN \E h \in Reads(run, n) :
            LET r == [Remember(run, n, h) EXCEPT !.unchecked = left] IN
            \/ h # run.page[i] /\ run' = NoRun
            \/ h = run.page[i] /\ run' = IF left = {} THEN AfterPage(r) ELSE r
  /\ UNCHANGED onlyRun

\* A plausible mistake: the checkpoint's block is not read again after the page.
CheckpointNotRechecked ==
  /\ run.pc = "recheckCheckpoint"
  /\ run' = AfterCheckpoint(run)
  /\ UNCHANGED onlyRun

\* verifyRetainedBoundary.
RecheckCheckpoint ==
  /\ run.pc = "recheckCheckpoint"
  /\ \E h \in Answers(Len(run.base.at)) :
       run' = IF h = run.base.at THEN AfterCheckpoint(run) ELSE NoRun
  /\ UNCHANGED onlyRun

\* A recent page joins the checkpoint when their ids touch, and starts no earlier.
Joins(r) ==
  LET c == Retained(r)
      ids == IdsOf(r.page)
  IN /\ ~Older(r) /\ Exists(c) /\ ExpectedPrevious(r, ids) <= c.last
     /\ ~(ids # {} /\ Min(ids) < c.first)

\* The first id of the loaded suffix.
FirstLoaded(r) ==
  LET ids == IdsOf(r.page)
  IN IF Joins(r) \/ ids = {} THEN Retained(r).first ELSE Min(ids)

\* Plausible mistakes: the cursor passes over the rest of its block, or an empty
\* page leaves it where it was.
OlderCursorSkips(r) ==
  LET ids == IdsOf(r.page)
  IN CASE Joins(r) -> Retained(r).olderTo
       [] ~Joins(r) /\ ids # {} -> Len(r.page[Min(ids)]) - 1
       [] OTHER -> r.from - 1
OlderCursorStays(r) ==
  LET ids == IdsOf(r.page)
  IN CASE Joins(r) -> Retained(r).olderTo
       [] ~Joins(r) /\ ids # {} -> Len(r.page[Min(ids)])
       [] OTHER -> r.to

\* The last block an older page must reach: the block of the first loaded id, or
\* what is below an empty window.
OlderCursor(r) ==
  LET ids == IdsOf(r.page)
  IN CASE Joins(r) -> Retained(r).olderTo
       [] ~Joins(r) /\ ids # {} -> Len(r.page[Min(ids)])
       [] OTHER -> r.from - 1

\* The checkpoint the read earns: an older page keeps what the retained one covers.
NextCheckpoint(r) ==
  LET c == Retained(r)
  IN IF r.to = 0
       THEN [at |-> r.cache[r.safe], first |-> c.first, last |-> r.count,
             olderTo |-> IF Exists(c) THEN c.olderTo ELSE FirstBlock(r)]
       ELSE [at |-> IF Older(r) THEN c.at ELSE r.cache[r.safe],
             last |-> IF Older(r) THEN c.last ELSE r.count,
             first |-> FirstLoaded(r), olderTo |-> OlderCursor(r)]

\* The batch is returned: it is the latest, and owes the App a reset if it
\* carries one.
Return(r, next) ==
  /\ batch' = [batch EXCEPT ![r.caller] =
                 [active |-> TRUE, page |-> r.page, reset |-> r.reset,
                  replay |-> r.replay, next |-> next, hasOlder |-> r.hasOlder,
                  revision |-> r.revision]]
  /\ batchVersion' = r.caller
  /\ pendingReset' = IF r.replay \/ r.reset THEN r.caller ELSE pendingReset
  /\ run' = NoRun

\* reduceDirectChatV2HistoryMemorySync: the checkpoint survives if the call's own
\* projection backs it; a reorganisation then awaits the read cursor's reset.
Finish(r, next) ==
  LET stored == IF Backed(next, Applied(r.snapshot, r.replay, r.reset, r.page))
                  THEN next ELSE NoCheckpoint
      older == next.first > 1
  IN IF r.reset
       THEN /\ run' = [r EXCEPT !.pc = "resetCursor", !.next = stored, !.hasOlder = older]
            /\ UNCHANGED <<batch, batchVersion, pendingReset>>
       ELSE Return([r EXCEPT !.hasOlder = older], stored)

Complete(r) ==
  IF r.to # 0 /\ r.from = FirstBlock(r) /\ NextCheckpoint(r).first > 1
    THEN run' = NoRun /\ UNCHANGED <<batch, batchVersion, pendingReset>>
    ELSE Finish(r, NextCheckpoint(r))

onlyReturn ==
  <<chainVars, messages, checkpoint, revision, queue, hasOlder, receipt, budget>>

\* No block is final yet: nothing to read and nothing to resume from.
NothingFinal ==
  /\ run.pc = "safeHead" /\ run.safe = 0
  /\ Finish(run, Retained(run))
  /\ UNCHANGED onlyReturn

RecheckBoundary ==
  /\ run.pc = "recheckBoundary"
  /\ \E h \in Answers(run.to) :
       IF h = run.cache[run.to] /\ run.to = run.safe
         THEN Complete(run)
         ELSE /\ run' = IF h = run.cache[run.to]
                          THEN [run EXCEPT !.pc = "recheckSafeHead"] ELSE NoRun
              /\ UNCHANGED <<batch, batchVersion, pendingReset>>
  /\ UNCHANGED onlyReturn

\* A plausible mistake: the boundary of the page stands for the safe head.
SafeHeadNotRechecked ==
  /\ run.pc = "recheckSafeHead"
  /\ Complete(run)
  /\ UNCHANGED onlyReturn

\* verifySafeHead.
RecheckSafeHead ==
  /\ run.pc = "recheckSafeHead"
  /\ \E h \in Answers(run.safe) :
       IF h = run.cache[run.safe]
         THEN Complete(run)
         ELSE run' = NoRun /\ UNCHANGED <<batch, batchVersion, pendingReset>>
  /\ UNCHANGED onlyReturn

ResetCursor ==
  /\ run.pc = "resetCursor"
  /\ Return(run, run.next)
  /\ UNCHANGED onlyReturn

\* The App applies its batch to the projection of this instant.  A batch that
\* is no longer the latest, or that read an older memory, throws.
Current(c) == batchVersion = c /\ revision = batch[c].revision

Apply(c) ==
  /\ batch[c].active
  /\ LET b == batch[c]
         applied == Applied(messages, b.replay, b.reset, b.page)
     IN IF Current(c)
          THEN /\ messages' = applied
               /\ checkpoint' = IF Backed(b.next, applied) THEN b.next ELSE NoCheckpoint
               /\ revision' = NextRevision(revision)
               /\ pendingReset' = IF (b.replay \/ b.reset) /\ pendingReset = c
                                    THEN Nobody ELSE pendingReset
               /\ hasOlder' = [hasOlder EXCEPT ![c] = b.hasOlder]
          ELSE UNCHANGED <<messages, checkpoint, revision, pendingReset, hasOlder>>
  /\ batch' = [batch EXCEPT ![c] = NoBatch]
  /\ UNCHANGED <<chainVars, batchVersion, queue, run, receipt, budget>>

\* The call fails, or its caller moved on: it ends wherever it is.
Drop(c) ==
  /\ budget.disruptions < MaxDisruptions
  /\ \/ /\ \E k \in 1..Len(queue) : queue[k].caller = c /\ queue' = RemoveAt(queue, k)
        /\ UNCHANGED <<run, batch>>
     \/ /\ run.caller = c /\ run' = NoRun
        /\ UNCHANGED <<queue, batch>>
     \/ /\ batch[c].active /\ batch' = [batch EXCEPT ![c] = NoBatch]
        /\ UNCHANGED <<queue, run>>
  /\ hasOlder' \in {hasOlder, [hasOlder EXCEPT ![c] = FALSE]}
  /\ budget' = [budget EXCEPT !.disruptions = @ + 1]
  /\ UNCHANGED <<chainVars, messages, memoryVars, receipt>>

-----------------------------------------------------------------------------

Environment == Mine \/ Reorg \/ ObserveReceipt \/ DeliverReceipt
Read ==
  \/ ReadConversation \/ ReadLatest \/ ReadCheckpointBlock \/ ReadSafeHead
  \/ NothingFinal \/ ReadBoundary \/ ReadLogs \/ CheckEventBlock
  \/ RecheckCheckpoint \/ RecheckBoundary \/ RecheckSafeHead \/ ResetCursor

Next ==
  \/ Environment
  \/ Read
  \/ \E c \in Callers :
       \/ \E older \in BOOLEAN : Ask(c, older)
       \/ Apply(c)
       \/ Drop(c)

Spec == Init /\ [][Next]_vars

\* Fairness the App's timers justify: it asks again after every read, every
\* await is answered (or counted as a disruption), every batch is applied.
FairSpec ==
  /\ Spec
  /\ WF_vars(Read)
  /\ \A c \in Callers : WF_vars(Ask(c, FALSE)) /\ WF_vars(Apply(c))

\* The user, too, keeps asking for older messages while there are some.
PatientSpec == FairSpec /\ \A c \in Callers : SF_vars(Ask(c, TRUE))

-----------------------------------------------------------------------------
(* Properties.                                                             *)

\* What the checkpoint claims is what is shown: under every id from first to
\* last the projection holds, as finalized, that very message of the one chain
\* whose hash the checkpoint stores.  Messages of two forks never share a
\* checkpoint, whatever reorganised while their pages were read, joined to older
\* ones and applied.
Vouched(c, msgs) ==
  \A i \in c.first..c.last :
    /\ msgs[i].finality = "finalized"
    /\ IsPrefix(msgs[i].at, c.at)
    /\ Holds(c.at, Len(msgs[i].at), i)

CheckpointVouches == Exists(checkpoint) => Vouched(checkpoint, messages)

\* With reorganisations no deeper than the confirmation depth, a message shown
\* as finalized is on the canonical chain, now and always.
FinalizedCanonical ==
  \A i \in Ids : messages[i].finality = "finalized" => Canonical(messages[i].at)

\* A message below the loaded suffix is never above the older cursor: the next
\* older window, which includes the cursor's block, still reaches it, even when
\* log answers miss some of their leading records.
OlderCursorReaches ==
  Exists(checkpoint) /\ checkpoint.first > 1 =>
    BlockOf(checkpoint.at, checkpoint.first - 1) <= checkpoint.olderTo

\* A batch that would wipe the conversation and has reset the read cursor, and
\* can still be applied, was earned by a real reorganisation under the checkpoint
\* (for nodes that are not behind).
ResetIsEarned ==
  \A c \in Callers : batch[c].active /\ batch[c].reset /\ Current(c) =>
    ~Canonical(checkpoint.at)

\* A finalized message that is still canonical never disappears from the
\* projection of a single caller, nor falls back to confirmed.
LoadedStays ==
  [][\A i \in Ids : messages[i].finality = "finalized" /\ Canonical(messages[i].at)
        => messages'[i] = messages[i]]_vars

\* The last message is under the safe head of every node that may answer.
Settled ==
  Sent(chain) > 0 /\ BlockOf(chain, Sent(chain)) + ConfirmationDepth + Lag <= Len(chain)
Shown(i) == messages[i] = [at |-> MessageAt(chain, i), finality |-> "finalized"]

\* Once the last message is final, and as long as it stays the last one, the
\* App's timers alone bring it on screen under a canonical checkpoint.
RecentIsShown ==
  Settled ~> ~Settled \/ (Shown(Sent(chain)) /\ Canonical(checkpoint.at)
                            /\ checkpoint.last = Sent(chain))

\* And a user who keeps scrolling back is shown the whole conversation.
HistoryIsShown ==
  Settled ~> ~Settled \/ \A i \in 1..Sent(chain) : Shown(i)
=============================================================================
