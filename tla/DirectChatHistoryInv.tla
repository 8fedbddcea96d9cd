------------------------- MODULE DirectChatHistoryInv -------------------------
(***************************************************************************)
(* The inductive invariant behind CheckpointVouches: what the history      *)
(* runtime knows at each await of a read, and what a batch still knows     *)
(* when the App applies it.                                                *)
(*                                                                         *)
(* The argument.  A hash that was ever on the chain and has left it never  *)
(* comes back (Past).  So if the safe head the read started from is still  *)
(* canonical at the end, it was canonical all along, and everything the    *)
(* read saw meanwhile, the logs, the event blocks and the checkpoint       *)
(* block, lies on the one chain that the safe head's hash commits to.  The *)
(* revision and the batch version make sure that the checkpoint the read   *)
(* resumed from is still the stored one when its batch is applied.         *)
(***************************************************************************)
EXTENDS DirectChatHistory

\* The read knows the safe head's hash; it also has its page; it has also
\* checked the checkpoint block again.
Rechecked == {"recheckBoundary", "recheckSafeHead"}
Paged == {"eventBlocks", "recheckCheckpoint"} \cup Rechecked
Reading == {"boundary", "logs"} \cup Paged
SafeHash(r) == r.cache[r.safe]

\* A hash that was on the chain at some time: its blocks bear no later fork.
Past(h) == Len(h) <= Len(chain) /\ \A n \in 1..Len(h) : h[n].fork <= reorgs

ChainShape ==
  /\ \A m, n \in 1..Len(chain) : m <= n => chain[m].count <= chain[n].count
  /\ \A n \in 1..Len(chain) : chain[n].fork <= reorgs

\* What readBlock has cached was on the chain when it was read.
CacheShape(r) ==
  \A n \in 1..MaxBlocks : r.cache[n] = <<>> \/ (Len(r.cache[n]) = n /\ Past(r.cache[n]))

\* The checkpoint a read resumes from.
BaseShape(r) ==
  IF Exists(r.base)
    THEN r.base.first <= r.base.last + 1 /\ r.base.olderTo <= Len(r.base.at) /\ ~r.replay
    ELSE r.base = NoCheckpoint

\* What a read has when it reaches a phase.
PhaseShape(r) ==
  /\ r.pc = "checkpointBlock" => Exists(r.base)
  /\ r.pc = "recheckCheckpoint" => Exists(Retained(r))
  /\ r.pc \in {"boundary", "logs", "eventBlocks", "recheckBoundary"} => r.to # 0

\* The window of a read, and how far under the safe head it lies.
WindowShape(r) ==
  /\ r.pc \in {"latest", "checkpointBlock"} => r.to = 0
  /\ r.to # 0 => /\ r.from >= 1 /\ r.to <= r.safe /\ r.count >= 1
                 /\ Older(r) => r.to = r.base.olderTo
  /\ r.pc \in {"safeHead"} \cup Reading /\ Exists(Retained(r)) => Len(r.base.at) <= r.safe
  /\ r.pc \in Reading =>
       /\ r.safe >= 1 /\ r.safe \in r.asked /\ SafeHash(r) # <<>>
       /\ Retained(r).last <= r.count
       /\ r.to = 0 => r.count = Retained(r).last

\* The page of a read: empty before the logs and when the read is up to date,
\* else an interval of ids that ends where it must.
PageShape(r) ==
  /\ r.pc \notin Paged \cup {"resetCursor"} \/ (r.pc \in Reading /\ r.to = 0) =>
       r.page = EmptyPage
  /\ r.unchecked \subseteq IdsOf(r.page)
  /\ r.pc \in Paged /\ r.to # 0 =>
       /\ \E first \in 1..ExpectedEnd(r) + 1 : IdsOf(r.page) = first..ExpectedEnd(r)
       /\ Older(r) \/ IdsOf(r.page) # {}

\* As long as the safe head is canonical, the page and the checkpoint lie on it.
PageOnSafeHead(r) ==
  /\ r.pc \in Paged /\ Canonical(SafeHash(r)) =>
       \A i \in IdsOf(r.page) :
         /\ IsPrefix(r.page[i], SafeHash(r)) /\ Holds(SafeHash(r), Len(r.page[i]), i)
         /\ Len(r.page[i]) <= r.to
  /\ r.pc \in Rechecked /\ Canonical(SafeHash(r)) /\ Exists(Retained(r)) =>
       IsPrefix(r.base.at, SafeHash(r))

\* Every id a checkpoint claims is in the page, in a block under the checkpoint,
\* or was claimed by the checkpoint it extends.
Earned(next, page, base) ==
  \A i \in next.first..next.last :
    \/ /\ i \in IdsOf(page)
       /\ IsPrefix(page[i], next.at) /\ Holds(next.at, Len(page[i]), i)
    \/ /\ i \notin IdsOf(page) /\ Exists(base)
       /\ i \in base.first..base.last /\ IsPrefix(base.at, next.at)

ResetShape(r) ==
  r.pc = "resetCursor" =>
    r.reset /\ (Exists(r.next) => Earned(r.next, r.page, NoCheckpoint))

RunShape(r) ==
  /\ BaseShape(r) /\ PhaseShape(r) /\ WindowShape(r) /\ PageShape(r) /\ ResetShape(r)

\* The stored checkpoint is the one the read resumed from, unless a batch was
\* applied since; then no other batch can be applied before the read ends.
RevisionShape ==
  run.pc # "idle" =>
    IF run.revision = revision
      THEN Exists(run.base) => run.base = checkpoint
      ELSE \A c \in Callers : ~(batch[c].active /\ batchVersion = c)

Extended(b) == IF b.reset \/ b.replay THEN NoCheckpoint ELSE checkpoint
BatchShape ==
  \A c \in Callers : batch[c].active /\ Current(c) /\ Exists(batch[c].next) =>
    Earned(batch[c].next, batch[c].page, Extended(batch[c]))

\* CheckpointVouches with all it rests on: the projection holds what the stored
\* checkpoint claims, whatever batch is applied next.
Inv ==
  /\ TypeOK
  /\ ChainShape
  /\ CacheShape(run)
  /\ RunShape(run)
  /\ PageOnSafeHead(run)
  /\ RevisionShape
  /\ BatchShape
  /\ CheckpointVouches
=============================================================================
