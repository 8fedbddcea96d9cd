----------------------- MODULE DirectChatHistory_proofs -----------------------
EXTENDS DirectChatHistoryInv, TLAPS, FiniteSetTheorems, WellFoundedInduction

(***************************************************************************)
(* Chains and their prefixes.                                              *)
(***************************************************************************)

\* A hash is a short sequence of blocks, each with a number of messages.
LEMMA HashFacts ==
  ASSUME NEW h \in Hash
  PROVE  /\ h \in Seq(Block) /\ Len(h) \in 0..MaxBlocks
         /\ \A n \in 1..Len(h) : /\ h[n] \in Block /\ h[n].count \in 0..MaxMessages
                                  /\ h[n].fork \in 0..MaxReorgs
         /\ \A n \in 0..Len(h) : CountAt(h, n) \in 0..MaxMessages
         /\ Sent(h) \in 0..MaxMessages
<1>1. h \in Seq(Block) /\ Len(h) \in 0..MaxBlocks
  BY HistoryAssumption DEF Hash
<1>2. \A n \in 1..Len(h) : h[n] \in Block
  BY <1>1
<1>3. \A n \in 1..Len(h) : h[n].count \in 0..MaxMessages /\ h[n].fork \in 0..MaxReorgs
  BY <1>2 DEF Block
<1>4. \A n \in 0..Len(h) : CountAt(h, n) \in 0..MaxMessages
  BY <1>1, <1>3, HistoryAssumption DEF CountAt
<1> QED
  BY <1>1, <1>2, <1>3, <1>4 DEF Sent

\* A block hash is a prefix of a chain exactly when they agree on every block
\* up to it (a hash commits to the ancestry of its block).
LEMMA PrefixBlocks ==
  ASSUME NEW h \in Hash, NEW g \in Hash
  PROVE  IsPrefix(h, g) <=> Len(h) <= Len(g) /\ \A n \in 1..Len(h) : h[n] = g[n]
BY DEF IsPrefix, Hash

\* What readCanonicalBlock answers is null or a prefix of the chain.
LEMMA BlockHashPrefix ==
  ASSUME NEW g \in Hash, NEW n \in 1..Len(g)
  PROVE  /\ SubSeq(g, 1, n) \in Hash
         /\ Len(SubSeq(g, 1, n)) = n
         /\ \A k \in 1..n : SubSeq(g, 1, n)[k] = g[k]
         /\ IsPrefix(SubSeq(g, 1, n), g)
BY HistoryAssumption DEF IsPrefix, Hash

\* Prefixes of prefixes are prefixes.
LEMMA PrefixTransitive ==
  ASSUME NEW f \in Hash, NEW g \in Hash, NEW h \in Hash, IsPrefix(f, g), IsPrefix(g, h)
  PROVE  IsPrefix(f, h)
BY PrefixBlocks DEF Hash

\* Two prefixes of one chain nest: the shorter is a prefix of the longer.
LEMMA PrefixesNest ==
  ASSUME NEW f \in Hash, NEW g \in Hash, NEW h \in Hash,
         IsPrefix(f, h), IsPrefix(g, h), Len(f) <= Len(g)
  PROVE  IsPrefix(f, g)
BY PrefixBlocks DEF Hash

\* A message of a chain is the same message, in the same block, of every longer
\* chain that chain is a prefix of.
LEMMA HoldsInPrefix ==
  ASSUME NEW f \in Hash, NEW g \in Hash, NEW n \in Nat, NEW i \in Nat,
         IsPrefix(f, g), n <= Len(f)
  PROVE  Holds(f, n, i) <=> Holds(g, n, i)
BY PrefixBlocks DEF Hash, Holds, CountAt
(***************************************************************************)
(* Numbers.                                                                *)
(***************************************************************************)

\* Every set of natural numbers that is not empty has a least element.
LEMMA LeastExists ==
  ASSUME NEW S \in SUBSET Nat, S # {}
  PROVE  \E m \in S : \A k \in S : m <= k
<1>1. PICK n \in S : TRUE
  OBVIOUS
<1> DEFINE Below(m) == 0..m
           Lower == {Below(m) : m \in {k \in S : k <= n}}
<1>2. PICK I \in Lower : \A J \in Lower : <<J, I>> \notin StrictSubsetOrdering(0..n)
  <2>1. IsWellFoundedOn(StrictSubsetOrdering(0..n), SUBSET (0..n))
    <3>1. IsFiniteSet(0..n)
      BY <1>1, FS_Interval
    <3>2. FiniteSubsetsOf(0..n) = SUBSET (0..n)
      BY <3>1, FS_FiniteSubsetsOfFinite
    <3> QED
      BY <3>2, FS_StrictSubsetOrderingWellFounded
  <2>2. Lower \subseteq SUBSET (0..n) /\ Lower # {}
    BY <1>1
  <2> HIDE DEF Lower
  <2> QED
    BY <2>1, <2>2, WFMin
<1>3. PICK m \in S : m <= n /\ I = 0..m
  BY <1>2
<1>4. \A k \in S : k < m => <<0..k, I>> \in StrictSubsetOrdering(0..n)
  BY <1>1, <1>3 DEF StrictSubsetOrdering
<1>5. \A k \in S : m <= k
  <2> SUFFICES ASSUME NEW k \in S, k < m PROVE FALSE
    BY <1>3
  <2>1. 0..k \in Lower
    BY <1>1, <1>3
  <2> QED
    BY <1>2, <1>4, <2>1
<1> QED
  BY <1>3, <1>5

\* Min of a set of ids or heights is its least element.
LEMMA MinIsLeast ==
  ASSUME NEW S \in SUBSET Nat, S # {}
  PROVE  Min(S) \in S /\ \A k \in S : Min(S) <= k
BY LeastExists DEF Min

\* Max of two integers is one of them and no less than either.
LEMMA MaxOfTwo ==
  ASSUME NEW a \in Int, NEW b \in Int
  PROVE  Max({a, b}) = IF a <= b THEN b ELSE a
BY DEF Max

\* A message that was sent has a block, and BlockOf finds it.
LEMMA BlockOfHolds ==
  ASSUME NEW h \in Hash, NEW i \in 1..Sent(h)
  PROVE  BlockOf(h, i) \in 1..Len(h) /\ Holds(h, BlockOf(h, i), i)
<1> DEFINE Reached == {n \in 1..Len(h) : i <= CountAt(h, n)}
<1>1. PICK n \in Reached : \A k \in Reached : n <= k
  <2>1. Len(h) \in Reached
    BY HashFacts DEF Sent, CountAt
  <2>2. Reached \in SUBSET Nat
    BY HashFacts
  <2> HIDE DEF Reached
  <2> QED
    BY <2>1, <2>2, LeastExists
<1>2. Holds(h, n, i)
  <2>1. CASE n = 1
    BY <2>1 DEF Holds, CountAt
  <2>2. CASE n # 1
    <3>1. n - 1 \in 1..Len(h) /\ n - 1 \notin Reached
      BY <1>1, <2>2, HashFacts
    <3>2. CountAt(h, n - 1) \in 0..MaxMessages
      BY <3>1, HashFacts
    <3> QED
      BY <1>1, <3>1, <3>2, HashFacts DEF Holds
  <2> QED
    BY <2>1, <2>2
<1> QED
  BY <1>1, <1>2 DEF BlockOf
(***************************************************************************)
(* Hashes that left the chain.                                             *)
(***************************************************************************)

(* What the type of the chain says of it. *)
LEMMA ChainFacts ==
  ASSUME TypeOK
  PROVE  /\ chain \in Hash /\ chain \in Seq(Block) /\ Len(chain) \in 1..MaxBlocks
         /\ Len(chain) \in Nat /\ reorgs \in 0..MaxReorgs /\ reorgs \in Nat
         /\ Sent(chain) \in 0..MaxMessages /\ Sent(chain) \in Nat
         /\ \A n \in 1..Len(chain) : chain[n].count \in Nat /\ chain[n].fork \in Nat
<1>1. chain \in Hash /\ Len(chain) \in 1..MaxBlocks /\ reorgs \in 0..MaxReorgs
  BY DEF TypeOK
<1> QED
  BY <1>1, HashFacts, HistoryAssumption

\* A mined block keeps the chain well shaped, and every old prefix canonical.
LEMMA MineShape ==
  ASSUME TypeOK, ChainShape, Mine
  PROVE  /\ chain' \in Hash /\ Len(chain') \in 1..MaxBlocks
         /\ Len(chain') = Len(chain) + 1 /\ \A n \in 1..Len(chain) : chain'[n] = chain[n]
         /\ ChainShape'
<1> USE HistoryAssumption
<1>1. PICK n \in 0..MaxPerBlock :
        /\ Sent(chain) + n <= MaxMessages
        /\ chain' = Append(chain, [count |-> Sent(chain) + n, fork |-> reorgs])
  BY DEF Mine
<1>2. chain \in Seq(Block) /\ Len(chain) \in 1..MaxBlocks /\ Len(chain) < MaxBlocks
      /\ reorgs \in 0..MaxReorgs /\ reorgs' = reorgs /\ Sent(chain) \in 0..MaxMessages
  BY ChainFacts DEF Mine
<1>3. [count |-> Sent(chain) + n, fork |-> reorgs] \in Block
  BY <1>1, <1>2 DEF Block
<1>4. /\ chain' \in Seq(Block) /\ Len(chain') = Len(chain) + 1
      /\ \A k \in 1..Len(chain) : chain'[k] = chain[k]
      /\ chain'[Len(chain) + 1] = [count |-> Sent(chain) + n, fork |-> reorgs]
  BY <1>1, <1>2, <1>3
<1>5. chain' \in Hash /\ Len(chain') \in 1..MaxBlocks
  BY <1>2, <1>4 DEF Hash
<1>6. ChainShape'
  <2>1. \A k \in 1..Len(chain) : chain[k].count <= Sent(chain)
    BY <1>2 DEF ChainShape, Sent, CountAt
  <2>2. chain'[Len(chain) + 1].count = Sent(chain) + n /\ chain'[Len(chain) + 1].fork = reorgs
    BY <1>4
  <2>3. \A k \in 1..Len(chain) : chain[k].count \in Nat
    BY ChainFacts
  <2> QED
    BY SMTT(40), <1>1, <1>2, <1>4, <2>1, <2>2, <2>3 DEF ChainShape
<1> QED
  BY <1>4, <1>5, <1>6

\* A reorganisation keeps the height, replaces only a suffix, and mints its blocks with
\* the new salt.
LEMMA ReorgShape ==
  ASSUME TypeOK, ChainShape, Reorg
  PROVE  /\ chain' \in Hash /\ Len(chain') \in 1..MaxBlocks
         /\ Len(chain') = Len(chain)
         /\ reorgs' \in 0..MaxReorgs /\ reorgs' = reorgs + 1
         /\ \A n \in 1..Len(chain) : chain'[n] = chain[n] \/ chain'[n].fork = reorgs + 1
         /\ \A m, n \in 1..Len(chain) : m <= n /\ chain'[n].fork <= reorgs => chain'[m] = chain[m]
         /\ ChainShape'
<1> USE HistoryAssumption
<1>d. PICK d \in 1..ReorgDepth :
        /\ d < Len(chain)
        /\ \E counts \in [Len(chain) - d + 1..Len(chain) -> 0..MaxMessages] :
             /\ chain' = [n \in 1..Len(chain) |->
                            IF n \in DOMAIN counts
                              THEN [count |-> counts[n], fork |-> reorgs + 1]
                              ELSE chain[n]]
             /\ Growing(chain')
  BY DEF Reorg
<1>1. PICK counts \in [Len(chain) - d + 1..Len(chain) -> 0..MaxMessages] :
        /\ chain' = [n \in 1..Len(chain) |->
                       IF n \in DOMAIN counts
                         THEN [count |-> counts[n], fork |-> reorgs + 1]
                         ELSE chain[n]]
        /\ Growing(chain')
  BY <1>d
<1>2. chain \in Seq(Block) /\ Len(chain) \in 1..MaxBlocks
      /\ reorgs \in 0..MaxReorgs /\ reorgs' = reorgs + 1 /\ reorgs' \in 0..MaxReorgs
  BY ChainFacts DEF Reorg
<1>n. \A n \in 1..Len(chain) :
        /\ n \in DOMAIN counts => chain'[n] = [count |-> counts[n], fork |-> reorgs + 1]
        /\ n \notin DOMAIN counts => chain'[n] = chain[n]
        /\ n \in DOMAIN counts => counts[n] \in 0..MaxMessages
  BY <1>1
<1>3. \A n \in 1..Len(chain) :
        /\ chain'[n] \in Block
        /\ chain'[n] = chain[n] \/ (n \in DOMAIN counts /\ chain'[n].fork = reorgs + 1)
        /\ n \notin DOMAIN counts => chain'[n] = chain[n]
  <2> SUFFICES ASSUME NEW n \in 1..Len(chain)
               PROVE  /\ chain'[n] \in Block
                      /\ chain'[n] = chain[n] \/ (n \in DOMAIN counts /\ chain'[n].fork = reorgs + 1)
                      /\ n \notin DOMAIN counts => chain'[n] = chain[n]
    OBVIOUS
  <2>0. chain[n] \in Block
    BY <1>2
  <2>1. CASE n \in DOMAIN counts
    <3>1. counts[n] \in 0..MaxMessages /\ reorgs + 1 \in 0..MaxReorgs
      BY <1>2, <1>n, <2>1
    <3>2. chain'[n] = [count |-> counts[n], fork |-> reorgs + 1]
      BY <1>n, <2>1
    <3>3. chain'[n] \in Block /\ chain'[n].fork = reorgs + 1
      BY <3>1, <3>2 DEF Block
    <3> QED
      BY <2>1, <3>3
  <2>2. CASE n \notin DOMAIN counts
    BY <1>n, <2>0, <2>2
  <2> QED
    BY <2>1, <2>2
<1>4. chain' \in Seq(Block) /\ Len(chain') = Len(chain)
  BY <1>1, <1>2, <1>3
<1>h. chain' \in Hash
  BY <1>2, <1>4 DEF Hash
<1>5. \A n \in 1..Len(chain) : chain'[n].fork <= reorgs + 1
  <2>1. \A n \in 1..Len(chain) : chain[n].fork <= reorgs /\ chain[n].fork \in Nat
    BY ChainFacts DEF ChainShape
  <2>2. \A n \in 1..Len(chain) : chain'[n] = chain[n] \/ chain'[n].fork = reorgs + 1
    BY <1>3
  <2>3. reorgs \in Nat
    BY <1>2
  <2> QED
    BY ONLY <2>1, <2>2, <2>3
<1>6. \A m, n \in 1..Len(chain) : m <= n /\ chain'[n].fork <= reorgs => chain'[m] = chain[m]
  BY <1>1, <1>2, <1>3
<1>7. ChainShape'
  <2>1. \A n \in 1..Len(chain) : chain'[n].count \in Nat
    BY <1>4, <1>h, HashFacts
  <2> QED
    <3>1. \A m, n \in 1..Len(chain') : m <= n => chain'[m].count <= chain'[n].count
      <4>1. \A m, n \in 1..Len(chain') : m < n => chain'[m].count <= chain'[n].count
        BY <1>1 DEF Growing
      <4>2. \A n \in 1..Len(chain') : chain'[n].count <= chain'[n].count
        BY <1>4, <2>1
      <4>3. \A m, n \in 1..Len(chain') : m <= n => m < n \/ m = n
        BY <1>2, <1>4
      <4> QED
        BY <4>1, <4>2, <4>3
    <3> QED
      BY <1>2, <1>4, <1>5, <3>1 DEF ChainShape
<1> QED
  BY <1>2, <1>3, <1>4, <1>6, <1>7, <1>h

\* Whatever the chain does, a hash that is past stays past, and one that is
\* not canonical never becomes canonical.
LEMMA NeverComesBack ==
  ASSUME TypeOK, ChainShape, Mine \/ Reorg, NEW h \in Hash, Past(h)
  PROVE  Past(h)' /\ (Canonical(h)' => Canonical(h))
<1> USE HistoryAssumption
<1>0. /\ chain \in Hash /\ Len(chain) \in 1..MaxBlocks /\ reorgs \in 0..MaxReorgs
      /\ Len(h) \in 0..MaxBlocks /\ \A n \in 1..Len(h) : h[n].fork \in Nat
  BY ChainFacts, HashFacts
<1>1. CASE Mine
  <2>1. chain' \in Hash /\ Len(chain') = Len(chain) + 1
        /\ \A n \in 1..Len(chain) : chain'[n] = chain[n]
    BY <1>1, MineShape
  <2>2. reorgs' = reorgs
    BY <1>1 DEF Mine
  <2> QED
    BY <1>0, <2>1, <2>2, PrefixBlocks DEF Past, Canonical
<1>2. CASE Reorg
  <2>1. /\ chain' \in Hash /\ Len(chain') = Len(chain) /\ reorgs' = reorgs + 1
        /\ \A m, n \in 1..Len(chain) : m <= n /\ chain'[n].fork <= reorgs => chain'[m] = chain[m]
    BY <1>2, ReorgShape
  <2> QED
    BY SMTT(40), <1>0, <2>1, PrefixBlocks DEF Past, Canonical
<1> QED
  BY <1>1, <1>2

\* What a node answers is a hash of the block asked for, on the chain, or null.
LEMMA AnswersShape ==
  ASSUME TypeOK, ChainShape, NEW n \in 1..MaxBlocks, NEW h \in Answers(n)
  PROVE  /\ h \in Hash
         /\ h = <<>> \/ (Len(h) = n /\ Past(h) /\ Canonical(h))
<1> USE HistoryAssumption
<1>1. chain \in Hash /\ Len(chain) \in 1..MaxBlocks /\ reorgs \in 0..MaxReorgs
  BY ChainFacts
<1>2. <<>> \in Hash
  BY DEF Hash
<1>3. CASE h = <<>>
  BY <1>2, <1>3
<1>4. CASE h = BlockHash(n) /\ n <= Len(chain)
  <2>1. h = SubSeq(chain, 1, n)
    BY <1>4 DEF BlockHash
  <2> QED
    BY <1>1, <1>4, <2>1, BlockHashPrefix DEF Past, Canonical, ChainShape
<1> QED
  BY <1>3, <1>4 DEF Answers, BlockHash
(***************************************************************************)
(* Reads.                                                                  *)
(***************************************************************************)

\* All the invariant says of one read.
Healthy(r) == r \in Run /\ CacheShape(r) /\ RunShape(r) /\ PageOnSafeHead(r)

\* A read has the fields of its type.
LEMMA RunFields ==
  ASSUME NEW r \in Run
  PROVE  /\ r.pc \in Phases /\ r.older \in BOOLEAN /\ r.reset \in BOOLEAN /\ r.replay \in BOOLEAN
         /\ r.count \in 0..MaxMessages
         /\ r.firstBlock \in 0..MaxBlocks /\ r.lastBlock \in 0..MaxBlocks
         /\ r.base \in CheckpointType /\ r.next \in CheckpointType
         /\ r.base.at \in Hash /\ r.base.first \in 1..(MaxMessages + 1)
         /\ r.base.last \in 0..MaxMessages /\ r.base.olderTo \in 0..MaxBlocks
         /\ Len(r.base.at) \in 0..MaxBlocks
         /\ r.revision \in Revisions /\ r.safe \in 0..MaxBlocks
         /\ r.from \in 0..MaxBlocks /\ r.to \in 0..MaxBlocks
         /\ r.asked \in SUBSET (1..MaxBlocks) /\ r.cache \in [1..MaxBlocks -> Hash]
         /\ r.page \in Page /\ r.unchecked \in SUBSET Ids
<1>1. /\ r.pc \in Phases /\ r.older \in BOOLEAN /\ r.reset \in BOOLEAN /\ r.replay \in BOOLEAN
      /\ r.count \in 0..MaxMessages
      /\ r.firstBlock \in 0..MaxBlocks /\ r.lastBlock \in 0..MaxBlocks
      /\ r.base \in CheckpointType /\ r.next \in CheckpointType
      /\ r.revision \in Revisions /\ r.safe \in 0..MaxBlocks
      /\ r.from \in 0..MaxBlocks /\ r.to \in 0..MaxBlocks
      /\ r.asked \in SUBSET (1..MaxBlocks) /\ r.cache \in [1..MaxBlocks -> Hash]
      /\ r.page \in Page /\ r.unchecked \in SUBSET Ids
  BY DEF Run
<1>2. /\ r.base.at \in Hash /\ r.base.first \in 1..(MaxMessages + 1)
      /\ r.base.last \in 0..MaxMessages /\ r.base.olderTo \in 0..MaxBlocks
  BY <1>1 DEF CheckpointType
<1> QED
  BY <1>1, <1>2, HashFacts

\* The empty projection, page, checkpoint and read have their types.
LEMMA EmptyValues ==
  /\ <<>> \in Hash /\ EmptyPage \in Page /\ IdsOf(EmptyPage) = {}
  /\ NoCheckpoint \in CheckpointType /\ ~Exists(NoCheckpoint)
  /\ EmptyProjection \in Projection
<1>1. <<>> \in Hash
  BY HistoryAssumption DEF Hash
<1>2. EmptyPage \in Page /\ IdsOf(EmptyPage) = {}
  BY <1>1 DEF EmptyPage, Page, IdsOf
<1>3. NoCheckpoint \in CheckpointType /\ ~Exists(NoCheckpoint)
  BY <1>1, HistoryAssumption DEF NoCheckpoint, CheckpointType, Exists
<1>4. EmptyProjection \in Projection
  BY <1>1 DEF EmptyProjection, Absent, Projection, Finality
<1> QED
  BY <1>1, <1>2, <1>3, <1>4

\* The idle read satisfies every clause of the invariant about reads.
LEMMA NoRunHealthy == Healthy(NoRun) /\ NoRun.pc = "idle"
<1>1. NoRun \in Run
  BY EmptyValues, HistoryAssumption DEF NoRun, Run, Phases, Revisions
<1>2. CacheShape(NoRun)
  BY DEF NoRun, CacheShape
<1>3. RunShape(NoRun)
  BY EmptyValues DEF NoRun, RunShape, BaseShape, PhaseShape, WindowShape, PageShape, ResetShape,
     Reading, Paged, Rechecked
<1>4. PageOnSafeHead(NoRun)
  BY DEF NoRun, PageOnSafeHead, Paged, Rechecked
<1> QED
  BY <1>1, <1>2, <1>3, <1>4 DEF Healthy, NoRun

\* The plan of a read whose checkpoint, if it is retained, is under the safe head.
LEMMA PlannedHealthy ==
  ASSUME NEW r \in Run, CacheShape(r), BaseShape(r), r.page = EmptyPage, r.unchecked = {},
         Exists(Retained(r)) => Len(r.base.at) <= r.safe
  PROVE  /\ Healthy(Planned(r))
         /\ \/ Planned(r).pc = "idle"
            \/ Planned(r).base = r.base /\ Planned(r).revision = r.revision
<1> DEFINE c == Retained(r)
           end == IF Older(r) THEN c.olderTo ELSE r.lastBlock
           start == Max({end - Span + 1, FirstBlock(r)})
           resume == Len(c.at) + 1
           from == IF ~Older(r) /\ Exists(c) /\ start < resume /\ resume <= end
                     THEN resume ELSE start
           readable == from <= end /\ r.count > 0
           p == [r EXCEPT !.pc = "safeHead", !.from = IF readable THEN from ELSE 0,
                          !.to = IF readable THEN end ELSE 0]
<1>1. CASE r.lastBlock > r.safe
  BY <1>1, NoRunHealthy DEF Planned
<1>2. CASE ~(r.lastBlock > r.safe)
  <2>1. Planned(r) = p
    BY <1>2 DEF Planned, Window
  <2>2. /\ end \in 0..MaxBlocks /\ end <= r.safe
        /\ Older(r) => end = r.base.olderTo
    BY <1>2, RunFields, EmptyValues DEF Older, Retained, BaseShape
  <2>3. FirstBlock(r) \in 1..MaxBlocks
    BY RunFields, HistoryAssumption DEF FirstBlock
  <2>4. start \in Int /\ start >= 1
    BY <2>2, <2>3, MaxOfTwo, HistoryAssumption
  <2>5. resume \in Nat /\ resume >= 1
    <3>1. r.base.at \in Hash /\ NoCheckpoint.at \in Hash
      BY RunFields, EmptyValues DEF CheckpointType
    <3>2. c = r.base \/ c = NoCheckpoint
      BY DEF Retained
    <3>3. Len(c.at) \in 0..MaxBlocks
      BY ONLY <3>1, <3>2, HashFacts
    <3> QED
      BY ONLY <3>3, HistoryAssumption
  <2>6. from \in Int /\ from >= 1
    BY <2>4, <2>5
  <2> HIDE DEF from, end
  <2>7. p \in Run
    <3>1. /\ (IF readable THEN from ELSE 0) \in 0..MaxBlocks
          /\ (IF readable THEN end ELSE 0) \in 0..MaxBlocks
      BY <2>2, <2>6, HistoryAssumption
    <3> HIDE DEF readable
    <3> QED
      BY <3>1 DEF Run, Phases
  <2>8. /\ p.pc = "safeHead" /\ p.base = r.base /\ p.replay = r.replay /\ p.reset = r.reset
        /\ p.cache = r.cache /\ p.older = r.older /\ p.count = r.count /\ p.safe = r.safe
        /\ p.page = r.page /\ p.unchecked = r.unchecked /\ p.revision = r.revision
        /\ p.to # 0 => p.from >= 1 /\ p.to = end /\ r.count > 0
    BY <2>6, RunFields DEF Run
  <2>9. Retained(p) = Retained(r) /\ Older(p) = Older(r)
    BY <2>8 DEF Retained, Older
  <2>10. CacheShape(p)
    BY <2>8 DEF CacheShape
  <2>11. BaseShape(p)
    BY <2>8 DEF BaseShape
  <2>12. WindowShape(p)
    <3>1. p.to # 0 => /\ p.from >= 1 /\ p.to <= p.safe /\ p.count >= 1
                      /\ Older(p) => p.to = p.base.olderTo
      BY <2>2, <2>8, <2>9, RunFields
    <3> QED
      BY <2>8, <2>9, <3>1 DEF WindowShape, Reading, Paged, Rechecked
  <2>13. PhaseShape(p) /\ PageShape(p) /\ ResetShape(p) /\ PageOnSafeHead(p)
    BY <2>8 DEF PhaseShape, PageShape, ResetShape, PageOnSafeHead, Reading, Paged, Rechecked
  <2> QED
    BY <2>1, <2>7, <2>8, <2>10, <2>11, <2>12, <2>13 DEF Healthy, RunShape
<1> QED
  BY <1>1, <1>2
\* A read that only moves to its next phase.
LEMMA NewPhase ==
  ASSUME NEW r \in Run, NEW phase \in Phases, NEW q, q = [r EXCEPT !.pc = phase]
  PROVE  /\ q \in Run /\ q.pc = phase /\ q.base = r.base /\ q.revision = r.revision
         /\ q.older = r.older /\ q.reset = r.reset /\ q.replay = r.replay
         /\ q.safe = r.safe /\ q.count = r.count /\ q.from = r.from /\ q.to = r.to
         /\ q.asked = r.asked /\ q.cache = r.cache /\ q.page = r.page
         /\ q.unchecked = r.unchecked /\ q.next = r.next
         /\ Retained(q) = Retained(r) /\ Older(q) = Older(r)
         /\ ExpectedEnd(q) = ExpectedEnd(r) /\ SafeHash(q) = SafeHash(r)
<1>1. /\ q \in Run /\ q.pc = phase /\ q.base = r.base /\ q.revision = r.revision
      /\ q.older = r.older /\ q.reset = r.reset /\ q.replay = r.replay
      /\ q.safe = r.safe /\ q.count = r.count /\ q.from = r.from /\ q.to = r.to
      /\ q.asked = r.asked /\ q.cache = r.cache /\ q.page = r.page
      /\ q.unchecked = r.unchecked /\ q.next = r.next
  BY DEF Run
<1> QED
  BY <1>1 DEF Retained, Older, ExpectedEnd, SafeHash

\* What readBlock returns is nothing, or the block on some past chain.
LEMMA ReadsShape ==
  ASSUME TypeOK, ChainShape, NEW r \in Run, CacheShape(r),
         NEW n \in 1..MaxBlocks, NEW h \in Reads(r, n)
  PROVE  /\ h \in Hash
         /\ h = <<>> \/ (Len(h) = n /\ Past(h))
         /\ n \in r.asked => h = r.cache[n]
<1>1. CASE n \in r.asked
  BY <1>1, RunFields DEF Reads, CacheShape
<1>2. CASE n \notin r.asked
  BY <1>2, AnswersShape DEF Reads
<1> QED
  BY <1>1, <1>2

\* What readBlock changes of a read.
RememberOnly(q, r, n, h) ==
  /\ q.cache = [r.cache EXCEPT ![n] = h] /\ q.asked = r.asked \cup {n}
  /\ q.pc = r.pc /\ q.base = r.base /\ q.revision = r.revision
  /\ q.older = r.older /\ q.reset = r.reset /\ q.replay = r.replay
  /\ q.safe = r.safe /\ q.count = r.count /\ q.from = r.from /\ q.to = r.to
  /\ q.page = r.page /\ q.unchecked = r.unchecked /\ q.next = r.next
  /\ Retained(q) = Retained(r) /\ Older(q) = Older(r) /\ ExpectedEnd(q) = ExpectedEnd(r)

\* Remembering such an answer keeps the read typed and its cache well shaped.
LEMMA RememberShape ==
  ASSUME NEW r \in Run, CacheShape(r), NEW n \in 1..MaxBlocks,
         NEW h \in Hash, h = <<>> \/ (Len(h) = n /\ Past(h))
  PROVE  /\ Remember(r, n, h) \in Run /\ CacheShape(Remember(r, n, h))
         /\ RememberOnly(Remember(r, n, h), r, n, h)
<1> DEFINE q == Remember(r, n, h)
<1>1. q \in Run
  BY DEF Remember, Run
<1>2. RememberOnly(q, r, n, h)
  BY DEF Remember, Run, RememberOnly, Retained, Older, ExpectedEnd
<1>3. CacheShape(q)
  BY <1>2, RunFields DEF CacheShape, RememberOnly
<1> QED
  BY <1>1, <1>2, <1>3

\* After the page, a read goes to the boundary checks it needs.
LEMMA AfterPageHealthy ==
  ASSUME NEW r \in Run, CacheShape(r), BaseShape(r),
         NEW q, q = [r EXCEPT !.pc = "recheckCheckpoint"],
         WindowShape(q), PageShape(q), PageOnSafeHead(q)
  PROVE  /\ Healthy(AfterPage(r))
         /\ AfterPage(r).base = r.base /\ AfterPage(r).revision = r.revision
<1>0. "recheckCheckpoint" \in Phases /\ "recheckBoundary" \in Phases /\ "recheckSafeHead" \in Phases
  BY DEF Phases
<1>1. CASE Exists(Retained(r))
  <2>1. AfterPage(r) = q
    BY <1>1 DEF AfterPage
  <2>2. CacheShape(q) /\ BaseShape(q) /\ PhaseShape(q) /\ ResetShape(q)
    BY <1>0, <1>1, NewPhase DEF CacheShape, BaseShape, PhaseShape, ResetShape
  <2> QED
    BY <1>0, <2>1, <2>2, NewPhase DEF Healthy, RunShape
<1>2. CASE ~Exists(Retained(r))
  <2>1. PICK phase \in Rechecked : /\ AfterPage(r) = [r EXCEPT !.pc = phase]
                                   /\ phase = "recheckBoundary" => r.to # 0
    BY <1>2 DEF AfterPage, AfterCheckpoint, Rechecked
  <2> DEFINE p == [r EXCEPT !.pc = phase]
  <2>2. phase \in Phases /\ phase \in Rechecked
    BY <2>1 DEF Rechecked, Phases
  <2>3. p \in Run /\ CacheShape(p) /\ BaseShape(p) /\ PhaseShape(p) /\ ResetShape(p)
    BY <2>1, <2>2, NewPhase DEF CacheShape, BaseShape, PhaseShape, ResetShape, Rechecked
  <2>4. WindowShape(p)
    BY <1>0, <2>2, NewPhase DEF WindowShape, Reading, Paged, Rechecked
  <2>5. PageShape(p)
    BY <1>0, <2>2, NewPhase DEF PageShape, Reading, Paged, Rechecked
  <2>6. PageOnSafeHead(p)
    BY <1>0, <1>2, <2>2, NewPhase DEF PageOnSafeHead, Paged, Rechecked
  <2>7. p.base = r.base /\ p.revision = r.revision
    BY <2>2, NewPhase
  <2> QED
    BY <2>1, <2>3, <2>4, <2>5, <2>6, <2>7 DEF Healthy, RunShape
<1> QED
  BY <1>1, <1>2
(***************************************************************************)
(* The steps of a read, up to the return of its batch.                     *)
(***************************************************************************)

(* The invariant, part by part. *)
LEMMA InvParts ==
  ASSUME Inv
  PROVE  /\ TypeOK /\ ChainShape /\ Healthy(run)
         /\ run \in Run /\ CacheShape(run) /\ RunShape(run) /\ PageOnSafeHead(run)
         /\ BaseShape(run) /\ PhaseShape(run) /\ WindowShape(run) /\ PageShape(run)
         /\ ResetShape(run)
BY DEF Inv, TypeOK, Healthy, RunShape

\* A step that moves the read on, or ends it, keeps the invariant.
LEMMA RunStep ==
  ASSUME Inv, TypeOK', UNCHANGED <<chainVars, messages, memoryVars, batch>>,
         Healthy(run'),
         \/ run'.pc = "idle"
         \/ run.pc # "idle" /\ run'.base = run.base /\ run'.revision = run.revision
  PROVE  Inv'
<1>1. /\ chain' = chain /\ reorgs' = reorgs /\ messages' = messages /\ checkpoint' = checkpoint
      /\ revision' = revision /\ batchVersion' = batchVersion /\ batch' = batch
  BY DEF chainVars, memoryVars
<1>2. ChainShape'
  BY <1>1 DEF Inv, ChainShape
<1>3. CacheShape(run)'
  BY <1>1 DEF Healthy, CacheShape, Past
<1>4. RunShape(run)'
  BY DEF Healthy, RunShape, BaseShape, PhaseShape, WindowShape, PageShape, ResetShape,
         Retained, Older, ExpectedEnd, SafeHash, Earned
<1>5. PageOnSafeHead(run)'
  BY <1>1 DEF Healthy, PageOnSafeHead, Canonical, SafeHash, Retained, Holds, CountAt
<1>6. RevisionShape'
  BY <1>1 DEF Inv, RevisionShape
<1>7. BatchShape'
  <2>1. BatchShape
    BY DEF Inv
  <2> QED
    BY <1>1, <2>1 DEF BatchShape, Current, Extended
<1>8. CheckpointVouches'
  BY <1>1 DEF Inv, CheckpointVouches, Vouched, Holds, CountAt
<1> QED
  BY <1>2, <1>3, <1>4, <1>5, <1>6, <1>7, <1>8 DEF Inv

\* A step of the read alone keeps the invariant if the new read is healthy.
LEMMA ReadStep ==
  ASSUME Inv, UNCHANGED <<chainVars, messages, memoryVars, queue, batch, hasOlder, receipt>>,
         budget' \in [disruptions: 0..MaxDisruptions, losses: 0..MaxLosses,
                      receipts: 0..MaxReceipts],
         Healthy(run'),
         \/ run'.pc = "idle"
         \/ run.pc # "idle" /\ run'.base = run.base /\ run'.revision = run.revision
  PROVE  Inv'
<1>1. TypeOK'
  BY DEF Inv, TypeOK, Healthy, chainVars, memoryVars
<1> QED
  BY <1>1, RunStep

\* getLatestBlockNumber keeps the invariant.
LEMMA ReadLatestStep == Inv /\ ReadLatest => Inv'
<1> SUFFICES ASSUME Inv, ReadLatest PROVE Inv'
  OBVIOUS
<1> USE InvParts
<1>1. PICK latest \in Max({1, Len(chain) - Lag})..Len(chain) :
        LET r == [run EXCEPT !.safe = SafeHead(latest)]
        IN run' = IF Exists(run.base) THEN [r EXCEPT !.pc = "checkpointBlock"] ELSE Planned(r)
  BY DEF ReadLatest
<1> DEFINE safe == SafeHead(latest)
           r == [run EXCEPT !.safe = safe]
           q == [r EXCEPT !.pc = "checkpointBlock"]
<1>2. safe \in 0..MaxBlocks
  <2>1. Max({1, Len(chain) - Lag}) \in Int /\ Max({1, Len(chain) - Lag}) >= 1
    BY MaxOfTwo, ChainFacts, HistoryAssumption
  <2>2. latest \in 1..Len(chain)
    BY <2>1
  <2> QED
    BY SMTT(40), <2>2, ChainFacts, HistoryAssumption DEF SafeHead
<1>3. run' = IF Exists(run.base) THEN q ELSE Planned(r)
  BY <1>1
<1> HIDE DEF safe
<1>4. run.pc = "latest" /\ run.page = EmptyPage /\ run.unchecked = {} /\ run.to = 0
  BY EmptyValues DEF ReadLatest, PageShape, WindowShape, Paged, Rechecked
<1>5. /\ r \in Run /\ r.base = run.base /\ r.revision = run.revision /\ r.replay = run.replay
      /\ r.reset = run.reset /\ r.cache = run.cache /\ r.page = EmptyPage /\ r.unchecked = {}
      /\ r.to = 0 /\ r.safe = safe
  BY <1>2, <1>4 DEF Run
<1> HIDE DEF r
<1>6. CacheShape(r) /\ BaseShape(r)
  BY <1>5 DEF CacheShape, BaseShape
<1>7. Healthy(run') /\ (run'.pc = "idle" \/ (run'.base = run.base /\ run'.revision = run.revision))
  <2>1. CASE Exists(run.base)
    <3>1. run' = q /\ "checkpointBlock" \in Phases
      BY <1>3, <2>1 DEF Phases
    <3>2. /\ q \in Run /\ q.pc = "checkpointBlock" /\ q.base = run.base
          /\ q.revision = run.revision /\ q.replay = run.replay /\ q.cache = run.cache
          /\ q.page = EmptyPage /\ q.unchecked = {} /\ q.to = 0
      BY <1>5, <3>1, NewPhase
    <3> HIDE DEF q
    <3>3. CacheShape(q) /\ BaseShape(q) /\ PhaseShape(q) /\ WindowShape(q) /\ PageShape(q)
          /\ ResetShape(q) /\ PageOnSafeHead(q)
      BY <2>1, <3>2, EmptyValues DEF CacheShape, BaseShape, PhaseShape, WindowShape, PageShape,
         ResetShape, PageOnSafeHead, Reading, Paged, Rechecked
    <3> QED
      BY <3>1, <3>2, <3>3 DEF Healthy, RunShape
  <2>2. CASE ~Exists(run.base)
    <3>1. ~Exists(Retained(r))
      BY <1>5, <2>2, EmptyValues DEF Retained
    <3> QED
      BY <1>3, <1>5, <1>6, <2>2, <3>1, PlannedHealthy
  <2> QED
    BY <2>1, <2>2
<1> QED
  BY <1>4, <1>7, ReadStep DEF ReadLatest, onlyRun, TypeOK

\* Reading the checkpoint block keeps the invariant.
LEMMA ReadCheckpointBlockStep == Inv /\ ReadCheckpointBlock => Inv'
<1> SUFFICES ASSUME Inv, ReadCheckpointBlock PROVE Inv'
  OBVIOUS
<1> USE InvParts
<1> DEFINE n == Len(run.base.at)
<1>1. PICK h \in Answers(n) :
        run' = Planned([Remember(run, n, h) EXCEPT !.reset = ~(h = run.base.at /\ n <= run.safe)])
  BY DEF ReadCheckpointBlock
<1>2. run.pc = "checkpointBlock" /\ run.page = EmptyPage /\ run.unchecked = {} /\ Exists(run.base)
  BY EmptyValues DEF ReadCheckpointBlock, PageShape, PhaseShape, Paged, Rechecked
<1>3. n \in 1..MaxBlocks
  BY <1>2, RunFields, HashFacts DEF Exists
<1>4. h \in Hash /\ (h = <<>> \/ (Len(h) = n /\ Past(h)))
  BY <1>3, AnswersShape
<1> DEFINE m == Remember(run, n, h)
           r == [m EXCEPT !.reset = ~(h = run.base.at /\ n <= run.safe)]
<1>m. m = Remember(run, n, h)
  OBVIOUS
<1> HIDE DEF m, n
<1>5. /\ m \in Run /\ CacheShape(m) /\ m.base = run.base /\ m.revision = run.revision
      /\ m.replay = run.replay /\ m.safe = run.safe /\ m.page = EmptyPage /\ m.unchecked = {}
  <2>1. run \in Run /\ CacheShape(run)
    OBVIOUS
  <2>2. h \in Hash /\ (h = <<>> \/ (Len(h) = n /\ Past(h)))
    BY <1>4
  <2>3. m \in Run /\ CacheShape(m) /\ RememberOnly(m, run, n, h)
    BY <1>3, <1>m, <2>1, <2>2, RememberShape
  <2> QED
    BY <1>2, <2>3 DEF RememberOnly
<1>6. /\ r \in Run /\ r.base = run.base /\ r.revision = run.revision /\ r.replay = run.replay
      /\ r.safe = run.safe /\ r.cache = m.cache /\ r.page = EmptyPage /\ r.unchecked = {}
      /\ r.reset = ~(h = run.base.at /\ n <= run.safe)
  BY <1>5 DEF Run
<1>7. CacheShape(r) /\ BaseShape(r)
  BY <1>5, <1>6 DEF CacheShape, BaseShape
<1>8. Exists(Retained(r)) => Len(r.base.at) <= r.safe
  BY <1>6, EmptyValues DEF Retained, n
<1>9. run' = Planned(r)
  BY <1>1 DEF m
<1> HIDE DEF r
<1>10. Healthy(run') /\ (run'.pc = "idle" \/ (run'.base = run.base /\ run'.revision = run.revision))
  BY <1>6, <1>7, <1>8, <1>9, PlannedHealthy
<1> QED
  BY <1>2, <1>10, ReadStep DEF ReadCheckpointBlock, onlyRun, TypeOK
\* Reading the safe head keeps the invariant.
LEMMA ReadSafeHeadStep == Inv /\ ReadSafeHead => Inv'
<1> SUFFICES ASSUME Inv, ReadSafeHead PROVE Inv'
  OBVIOUS
<1> USE InvParts
<1> DEFINE Fails(h) == \/ h = <<>> \/ run.count < Retained(run).last
                       \/ ~UpToDate(run) /\ run.to = 0
<1>1. PICK h \in Reads(run, run.safe) :
        \/ Fails(h) /\ run' = NoRun
        \/ /\ ~Fails(h) /\ UpToDate(run)
           /\ run' = AfterPage([Remember(run, run.safe, h) EXCEPT !.from = 0, !.to = 0])
        \/ /\ ~Fails(h) /\ ~UpToDate(run)
           /\ run' = [Remember(run, run.safe, h) EXCEPT !.pc = "boundary"]
  BY DEF ReadSafeHead
<1>2. /\ run.pc = "safeHead" /\ run.safe \in 1..MaxBlocks /\ run.page = EmptyPage
      /\ run.unchecked = {} /\ run.cache \in [1..MaxBlocks -> Hash]
  BY EmptyValues, RunFields DEF ReadSafeHead, PageShape, Paged, Rechecked
<1>3. h \in Hash /\ (h = <<>> \/ (Len(h) = run.safe /\ Past(h)))
  BY <1>2, ReadsShape
<1> DEFINE m == Remember(run, run.safe, h)
<1>4. m \in Run /\ CacheShape(m) /\ RememberOnly(m, run, run.safe, h)
  BY <1>2, <1>3, RememberShape
<1>m. m = Remember(run, run.safe, h)
  OBVIOUS
<1> HIDE DEF m
<1>5. /\ SafeHash(m) = h /\ m.safe = run.safe /\ m.safe \in m.asked /\ m.pc = "safeHead"
      /\ m.page = EmptyPage /\ m.unchecked = {} /\ m.base = run.base /\ m.replay = run.replay
      /\ m.revision = run.revision /\ m.count = run.count /\ m.to = run.to /\ m.from = run.from
      /\ Retained(m) = Retained(run) /\ Older(m) = Older(run)
  BY <1>2, <1>4 DEF RememberOnly, SafeHash
<1>6. BaseShape(m) /\ WindowShape(m)
  BY <1>2, <1>4, <1>5 DEF BaseShape, WindowShape, RememberOnly, Reading, Paged, Rechecked
<1>7. CASE Fails(h) /\ run' = NoRun
  BY <1>7, NoRunHealthy, ReadStep DEF ReadSafeHead, onlyRun, TypeOK
<1>8. CASE ~Fails(h) /\ UpToDate(run) /\ run' = AfterPage([m EXCEPT !.from = 0, !.to = 0])
  <2> DEFINE r == [m EXCEPT !.from = 0, !.to = 0]
             q == [r EXCEPT !.pc = "recheckCheckpoint"]
  <2>1. /\ r \in Run /\ r.to = 0 /\ r.cache = m.cache /\ r.safe = m.safe /\ r.asked = m.asked
        /\ r.page = EmptyPage /\ r.unchecked = {} /\ r.base = run.base /\ r.replay = run.replay
        /\ r.revision = run.revision /\ r.count = run.count
        /\ Retained(r) = Retained(run)
    <3>1. 0 \in 0..MaxBlocks
      BY HistoryAssumption
    <3>2. r \in Run
      BY <1>4, <3>1 DEF Run
    <3>3. /\ r.to = 0 /\ r.cache = m.cache /\ r.safe = m.safe /\ r.asked = m.asked
          /\ r.page = m.page /\ r.unchecked = m.unchecked /\ r.base = m.base
          /\ r.replay = m.replay /\ r.revision = m.revision /\ r.count = m.count
          /\ r.reset = m.reset
      BY <1>4 DEF Run
    <3> HIDE DEF r
    <3> QED
      BY <1>5, <3>2, <3>3 DEF Retained
  <2> HIDE DEF r
  <2>2. /\ q \in Run /\ q.pc = "recheckCheckpoint" /\ q.to = 0 /\ q.cache = m.cache
        /\ q.safe = m.safe /\ q.asked = m.asked /\ q.page = EmptyPage /\ q.unchecked = {}
        /\ q.base = run.base /\ q.count = run.count /\ Retained(q) = Retained(run)
        /\ SafeHash(q) = h
    BY <1>5, <2>1, NewPhase DEF Phases, SafeHash
  <2>q. q = [r EXCEPT !.pc = "recheckCheckpoint"]
    OBVIOUS
  <2> HIDE DEF q
  <2>3. CacheShape(r) /\ BaseShape(r)
    BY <1>4, <1>6, <2>1, <1>5 DEF CacheShape, BaseShape
  <2>4. WindowShape(q)
    <3>1. Exists(Retained(run)) => Len(run.base.at) <= run.safe
      BY <1>2 DEF WindowShape
    <3>2. run.count = Retained(run).last
      BY <1>8 DEF UpToDate
    <3> QED
      BY <1>2, <1>5, <1>8, <2>2, <3>1, <3>2, RunFields DEF WindowShape, Reading, Paged, Rechecked
  <2>5. PageShape(q) /\ PageOnSafeHead(q)
    BY <2>2, EmptyValues DEF PageShape, PageOnSafeHead, Reading, Paged, Rechecked
  <2>6. Healthy(run') /\ run'.base = run.base /\ run'.revision = run.revision
    BY <1>8, <2>1, <2>3, <2>4, <2>5, <2>q, AfterPageHealthy DEF r
  <2> QED
    BY <1>2, <2>6, ReadStep DEF ReadSafeHead, onlyRun, TypeOK
<1>9. CASE ~Fails(h) /\ ~UpToDate(run) /\ run' = [m EXCEPT !.pc = "boundary"]
  <2> DEFINE q == [m EXCEPT !.pc = "boundary"]
  <2>1. /\ q \in Run /\ q.pc = "boundary" /\ q.to = run.to /\ q.from = run.from
        /\ q.cache = m.cache /\ q.safe = run.safe /\ q.asked = m.asked /\ q.page = EmptyPage
        /\ q.unchecked = {} /\ q.base = run.base /\ q.replay = run.replay
        /\ q.revision = run.revision /\ q.count = run.count
        /\ Retained(q) = Retained(run) /\ Older(q) = Older(run) /\ SafeHash(q) = h
    BY <1>4, <1>5, NewPhase DEF Phases
  <2>q. run' = q
    BY <1>9
  <2> HIDE DEF q
  <2>2. CacheShape(q) /\ BaseShape(q) /\ ResetShape(q) /\ PageOnSafeHead(q) /\ PageShape(q)
    BY <1>4, <1>5, <1>6, <2>1, EmptyValues
       DEF CacheShape, BaseShape, ResetShape, PageOnSafeHead, PageShape, Reading, Paged, Rechecked
  <2>3. PhaseShape(q)
    BY <1>9, <2>1 DEF PhaseShape
  <2>4. WindowShape(q)
    <3>1. h # <<>> /\ ~(run.count < Retained(run).last) /\ run.to # 0
      BY <1>9
    <3>2. Retained(run).last <= run.count
      BY <3>1, RunFields, EmptyValues DEF Retained, CheckpointType
    <3>3. /\ run.from >= 1 /\ run.to <= run.safe /\ run.count >= 1
          /\ Older(run) => run.to = run.base.olderTo
          /\ Exists(Retained(run)) => Len(run.base.at) <= run.safe
      BY <1>2, <3>1 DEF WindowShape
    <3> QED
      BY <1>2, <1>5, <2>1, <3>1, <3>2, <3>3 DEF WindowShape
  <2>5. Healthy(run') /\ run'.base = run.base /\ run'.revision = run.revision
    BY <2>1, <2>q, <2>2, <2>3, <2>4 DEF Healthy, RunShape
  <2> QED
    BY <1>2, <2>5, ReadStep DEF ReadSafeHead, onlyRun, TypeOK
<1> QED
  BY <1>1, <1>7, <1>8, <1>9, <1>m

\* Reading the page boundary keeps the invariant.
LEMMA ReadBoundaryStep == Inv /\ ReadBoundary => Inv'
<1> SUFFICES ASSUME Inv, ReadBoundary PROVE Inv'
  OBVIOUS
<1> USE InvParts
<1>1. PICK h \in Reads(run, run.to) :
        run' = IF h = <<>> THEN NoRun ELSE [Remember(run, run.to, h) EXCEPT !.pc = "logs"]
  BY DEF ReadBoundary
<1>2. /\ run.pc = "boundary" /\ run.to \in 1..MaxBlocks /\ run.page = EmptyPage
      /\ run.unchecked = {} /\ run.cache \in [1..MaxBlocks -> Hash]
      /\ run.safe \in 1..MaxBlocks /\ run.safe \in run.asked
  BY EmptyValues, RunFields DEF ReadBoundary, PageShape, PhaseShape, WindowShape, Reading, Paged,
     Rechecked
<1>3. h \in Hash /\ (h = <<>> \/ (Len(h) = run.to /\ Past(h))) /\ (run.to \in run.asked => h = run.cache[run.to])
  BY <1>2, ReadsShape
<1> DEFINE m == Remember(run, run.to, h)
           q == [m EXCEPT !.pc = "logs"]
<1>4. m \in Run /\ CacheShape(m) /\ RememberOnly(m, run, run.to, h)
  BY <1>2, <1>3, RememberShape
<1> HIDE DEF m
<1>5. SafeHash(m) = SafeHash(run)
  BY <1>2, <1>3, <1>4 DEF RememberOnly, SafeHash
<1>6. /\ q \in Run /\ q.pc = "logs" /\ q.to = run.to /\ q.from = run.from
      /\ q.cache = m.cache /\ q.safe = run.safe /\ run.safe \in q.asked /\ q.page = EmptyPage
      /\ q.unchecked = {} /\ q.base = run.base /\ q.replay = run.replay
      /\ q.revision = run.revision /\ q.count = run.count
      /\ Retained(q) = Retained(run) /\ Older(q) = Older(run) /\ SafeHash(q) = SafeHash(run)
  BY <1>2, <1>4, <1>5, NewPhase DEF Phases, RememberOnly
<1>7. run' = NoRun \/ run' = q
  BY <1>1 DEF m
<1> HIDE DEF q
<1>8. CacheShape(q) /\ BaseShape(q) /\ ResetShape(q) /\ PageOnSafeHead(q) /\ PageShape(q)
      /\ PhaseShape(q)
  BY <1>2, <1>4, <1>6, EmptyValues
     DEF CacheShape, BaseShape, ResetShape, PageOnSafeHead, PageShape, PhaseShape, Reading, Paged,
         Rechecked
<1>9. WindowShape(q)
  BY <1>2, <1>6 DEF WindowShape, Reading, Paged, Rechecked
<1>10. Healthy(q)
  BY <1>6, <1>8, <1>9 DEF Healthy, RunShape
<1> QED
  BY <1>2, <1>6, <1>7, <1>10, NoRunHealthy, ReadStep DEF ReadBoundary, onlyRun, TypeOK
\* The hash recorded for a message of the chain.
LEMMA MessageAtShape ==
  ASSUME TypeOK, ChainShape, NEW i \in Ids, NEW n \in Int, Holds(chain, n, i)
  PROVE  /\ MessageAt(chain, i) \in Hash /\ Len(MessageAt(chain, i)) = n
         /\ n \in 1..Len(chain) /\ n \in Nat
         /\ MessageAt(chain, i) # <<>> /\ IsPrefix(MessageAt(chain, i), chain)
<1> USE ChainFacts
<1>1. n \in 1..Len(chain) /\ n \in Nat
  BY DEF Holds
<1>2. \A m \in 1..Len(chain) : Holds(chain, m, i) => m = n
  <2> SUFFICES ASSUME NEW m \in 1..Len(chain), Holds(chain, m, i), m # n PROVE FALSE
    OBVIOUS
  <2>1. ASSUME NEW a \in 1..Len(chain), NEW b \in 1..Len(chain), a < b,
               Holds(chain, a, i), Holds(chain, b, i)
        PROVE  FALSE
    <3>1. b - 1 \in 1..Len(chain) /\ a <= b - 1 /\ b - 1 # 0 /\ a # 0
      BY <2>1
    <3>2. i <= chain[a].count /\ chain[b - 1].count < i
      BY <2>1, <3>1 DEF Holds, CountAt
    <3>3. chain[a].count <= chain[b - 1].count
      BY <3>1 DEF ChainShape
    <3> QED
      BY SMTT(40), <3>1, <3>2, <3>3 DEF Ids
  <2> QED
    BY <1>1, <2>1
<1>3. BlockOf(chain, i) = n
  BY <1>1, <1>2 DEF BlockOf
<1>4. MessageAt(chain, i) = SubSeq(chain, 1, n)
  BY <1>3 DEF MessageAt
<1>5. /\ MessageAt(chain, i) \in Hash /\ Len(MessageAt(chain, i)) = n
      /\ IsPrefix(MessageAt(chain, i), chain)
  BY <1>1, <1>4, BlockHashPrefix
<1>6. MessageAt(chain, i) # <<>>
  BY <1>1, <1>5
<1> QED
  BY <1>1, <1>5, <1>6

\* The last id a page must reach is a natural number up to MaxMessages.
LEMMA ExpectedEndNat ==
  ASSUME NEW r \in Run
  PROVE  ExpectedEnd(r) \in 0..MaxMessages
<1>1. Retained(r).first - 1 \in 0..MaxMessages
  <2>1. Retained(r) \in CheckpointType
    BY RunFields, EmptyValues DEF Retained
  <2> QED
    BY <2>1, HistoryAssumption DEF CheckpointType
<1> QED
  BY <1>1, RunFields DEF ExpectedEnd

\* Reading the logs keeps the invariant: the page lies on the chain of that instant.
LEMMA ReadLogsStep == Inv /\ ReadLogs => Inv'
<1> SUFFICES ASSUME Inv, ReadLogs PROVE Inv'
  OBVIOUS
<1> USE InvParts
<1> DEFINE window == {i \in Ids : \E n \in run.from..run.to : Holds(chain, n, i)}
           Kept(answer) == IF Older(run) THEN answer \cap 1..ExpectedEnd(run) ELSE answer
           MissingTerminal(ids) == /\ ids = {} /\ ExpectedEnd(run) > 0
                                   /\ ~Older(run) \/ run.from = FirstBlock(run)
           Continuous(ids) == \E first \in 1..ExpectedEnd(run) + 1 : ids = first..ExpectedEnd(run)
           Got(ids) == [run EXCEPT !.unchecked = ids,
                                   !.page = [i \in Ids |-> IF i \in ids THEN MessageAt(chain, i)
                                                           ELSE <<>>]]
<1>1. PICK answer \in SUBSET window :
        /\ budget' = [budget EXCEPT !.losses = IF answer = window THEN @ ELSE @ + 1]
        /\ answer # window => budget.losses < MaxLosses
        /\ \/ run' = NoRun
           \/ /\ ~MissingTerminal(Kept(answer)) /\ Kept(answer) = {}
              /\ run' = AfterPage(Got(Kept(answer)))
           \/ /\ Continuous(Kept(answer)) /\ Kept(answer) # {}
              /\ run' = [Got(Kept(answer)) EXCEPT !.pc = "eventBlocks"]
  BY DEF ReadLogs
<1> DEFINE ids == Kept(answer)
           r == Got(ids)
<1>b. budget' \in [disruptions: 0..MaxDisruptions, losses: 0..MaxLosses, receipts: 0..MaxReceipts]
  <2>1. budget \in [disruptions: 0..MaxDisruptions, losses: 0..MaxLosses, receipts: 0..MaxReceipts]
    BY DEF TypeOK
  <2> HIDE DEF window
  <2> QED
    BY SMTT(40), <1>1, <2>1, HistoryAssumption
<1>2. /\ run.pc = "logs" /\ run.to \in 1..MaxBlocks /\ run.from \in 1..MaxBlocks
      /\ run.safe \in 1..MaxBlocks /\ run.to <= run.safe /\ run.count >= 1
      /\ SafeHash(run) # <<>> /\ SafeHash(run) \in Hash
  <2>1. run.pc = "logs" /\ run.pc \in Reading
    BY DEF ReadLogs, Reading
  <2>2. run.to # 0 /\ run.safe >= 1 /\ SafeHash(run) # <<>>
    BY <2>1 DEF PhaseShape, WindowShape
  <2>3. run.from >= 1 /\ run.to <= run.safe /\ run.count >= 1
    BY <2>2 DEF WindowShape
  <2>4. run.safe \in 1..MaxBlocks /\ run.to \in 1..MaxBlocks /\ run.from \in 1..MaxBlocks
    BY <2>2, <2>3, RunFields
  <2>5. SafeHash(run) \in Hash
    BY <2>4, RunFields DEF SafeHash
  <2> QED
    BY <2>1, <2>2, <2>3, <2>4, <2>5
<1>3. ids \subseteq Ids /\ \A i \in ids : \E n \in run.from..run.to : Holds(chain, n, i)
  OBVIOUS
<1>w. ~MissingTerminal(ids) /\ ids = {} => Older(run)
  BY <1>2, RunFields DEF ExpectedEnd
<1>c. ids = {} => Continuous(ids)
  <2>1. ExpectedEnd(run) \in Nat
    BY ExpectedEndNat, HistoryAssumption
  <2>2. {} = ExpectedEnd(run) + 1..ExpectedEnd(run)
    BY <2>1
  <2>3. ExpectedEnd(run) + 1 \in 1..ExpectedEnd(run) + 1
    BY <2>1
  <2> HIDE DEF ids
  <2> QED
    BY <2>2, <2>3
<1> HIDE DEF ids
<1>4. \A i \in ids : /\ MessageAt(chain, i) \in Hash /\ MessageAt(chain, i) # <<>>
                     /\ Len(MessageAt(chain, i)) \in 1..run.to
                     /\ IsPrefix(MessageAt(chain, i), chain)
                     /\ Holds(chain, Len(MessageAt(chain, i)), i)
  BY <1>2, <1>3, MessageAtShape
<1> DEFINE page == [i \in Ids |-> IF i \in ids THEN MessageAt(chain, i) ELSE <<>>]
<1>5. page \in Page /\ IdsOf(page) = ids /\ \A i \in ids : page[i] = MessageAt(chain, i)
  BY <1>3, <1>4, EmptyValues DEF Page, IdsOf
<1>r. r = [run EXCEPT !.unchecked = ids, !.page = page]
  OBVIOUS
<1> HIDE DEF page, r
<1>6. /\ r \in Run /\ r.pc = run.pc /\ r.to = run.to /\ r.from = run.from
      /\ r.cache = run.cache /\ r.safe = run.safe /\ r.asked = run.asked /\ r.page = page
      /\ r.unchecked = ids /\ r.base = run.base /\ r.replay = run.replay
      /\ r.revision = run.revision /\ r.count = run.count
      /\ Retained(r) = Retained(run) /\ Older(r) = Older(run) /\ SafeHash(r) = SafeHash(run)
      /\ ExpectedEnd(r) = ExpectedEnd(run)
  <2>1. /\ r.pc = run.pc /\ r.to = run.to /\ r.from = run.from
        /\ r.cache = run.cache /\ r.safe = run.safe /\ r.asked = run.asked /\ r.page = page
        /\ r.unchecked = ids /\ r.base = run.base /\ r.replay = run.replay
        /\ r.revision = run.revision /\ r.count = run.count
        /\ r.reset = run.reset /\ r.older = run.older
    BY <1>r DEF Run
  <2>2. r \in Run
    BY <1>r, <1>3, <1>5 DEF Run
  <2> QED
    BY <2>1, <2>2 DEF Retained, Older, SafeHash, ExpectedEnd
<1>7. CacheShape(r) /\ BaseShape(r)
  BY <1>6 DEF CacheShape, BaseShape
<1>8. Canonical(SafeHash(run)) =>
        \A i \in ids : /\ IsPrefix(page[i], SafeHash(run))
                       /\ Holds(SafeHash(run), Len(page[i]), i) /\ Len(page[i]) <= run.to
  <2> SUFFICES ASSUME Canonical(SafeHash(run)), NEW i \in ids
               PROVE  /\ IsPrefix(page[i], SafeHash(run))
                      /\ Holds(SafeHash(run), Len(page[i]), i) /\ Len(page[i]) <= run.to
    OBVIOUS
  <2>1. Len(SafeHash(run)) = run.safe
    BY <1>2 DEF CacheShape, SafeHash
  <2>2. /\ page[i] \in Hash /\ Len(page[i]) \in 1..run.to /\ IsPrefix(page[i], chain)
        /\ Holds(chain, Len(page[i]), i) /\ i \in Nat
    BY <1>3, <1>4, <1>5 DEF Ids
  <2>3. chain \in Hash /\ IsPrefix(SafeHash(run), chain)
    BY ChainFacts DEF Canonical
  <2>4. Len(page[i]) <= Len(SafeHash(run)) /\ Len(page[i]) \in Nat
    BY <1>2, <2>1, <2>2
  <2>5. IsPrefix(page[i], SafeHash(run))
    BY <1>2, <2>2, <2>3, <2>4, PrefixesNest
  <2>6. Holds(SafeHash(run), Len(page[i]), i)
    BY <1>2, <2>2, <2>3, <2>4, HoldsInPrefix
  <2> QED
    BY <1>2, <2>2, <2>5, <2>6
<1>9. ASSUME NEW phase \in {"recheckCheckpoint", "eventBlocks"}, Continuous(ids),
             Older(run) \/ ids # {}, NEW q, q = [r EXCEPT !.pc = phase]
      PROVE  /\ q \in Run /\ q.base = run.base /\ q.revision = run.revision /\ q.pc = phase
             /\ q.to = run.to /\ q.page = page
             /\ WindowShape(q) /\ PageShape(q) /\ PageOnSafeHead(q) /\ CacheShape(q) /\ BaseShape(q)
  <2>1. /\ q \in Run /\ q.pc = phase /\ q.to = run.to /\ q.from = run.from
        /\ q.cache = run.cache /\ q.safe = run.safe /\ q.asked = run.asked /\ q.page = page
        /\ q.unchecked = ids /\ q.base = run.base /\ q.replay = run.replay
        /\ q.revision = run.revision /\ q.count = run.count
        /\ Retained(q) = Retained(run) /\ Older(q) = Older(run) /\ SafeHash(q) = SafeHash(run)
        /\ ExpectedEnd(q) = ExpectedEnd(run)
    BY <1>6, <1>9, NewPhase DEF Phases
  <2>2. WindowShape(q)
    BY <1>2, <2>1 DEF WindowShape, Reading, Paged, Rechecked
  <2>3. PageShape(q)
    <3>1. \E first \in 1..ExpectedEnd(q) + 1 : IdsOf(q.page) = first..ExpectedEnd(q)
      BY <1>5, <1>9, <2>1
    <3>2. Older(q) \/ IdsOf(q.page) # {}
      BY <1>5, <1>9, <2>1
    <3>3. q.pc \in Paged /\ q.to # 0 /\ q.unchecked = IdsOf(q.page)
      BY <1>2, <1>5, <2>1 DEF Paged
    <3> QED
      BY <3>1, <3>2, <3>3 DEF PageShape
  <2>4. PageOnSafeHead(q)
    BY <1>5, <1>8, <2>1 DEF PageOnSafeHead, Paged, Rechecked
  <2>5. CacheShape(q) /\ BaseShape(q)
    BY <1>7, <2>1 DEF CacheShape, BaseShape
  <2> QED
    BY <2>1, <2>2, <2>3, <2>4, <2>5
<1>10. CASE run' = NoRun
  BY <1>b, <1>10, NoRunHealthy, ReadStep DEF ReadLogs, onlyRun
<1>11. CASE ~MissingTerminal(ids) /\ ids = {} /\ run' = AfterPage(r)
  <2> DEFINE q == [r EXCEPT !.pc = "recheckCheckpoint"]
  <2>q. q = [r EXCEPT !.pc = "recheckCheckpoint"]
    OBVIOUS
  <2> HIDE DEF q
  <2>1. WindowShape(q) /\ PageShape(q) /\ PageOnSafeHead(q)
    BY <1>9, <1>11, <1>w, <1>c, <2>q
  <2>2. Healthy(run') /\ run'.base = run.base /\ run'.revision = run.revision
    BY <1>6, <1>7, <1>11, <2>1, <2>q, AfterPageHealthy
  <2> QED
    BY <1>2, <1>b, <2>2, ReadStep DEF ReadLogs, onlyRun
<1>12. CASE Continuous(ids) /\ ids # {} /\ run' = [r EXCEPT !.pc = "eventBlocks"]
  <2> DEFINE q == [r EXCEPT !.pc = "eventBlocks"]
  <2>q. q = [r EXCEPT !.pc = "eventBlocks"] /\ run' = q
    BY <1>12
  <2> HIDE DEF q
  <2>1. /\ q \in Run /\ q.base = run.base /\ q.revision = run.revision /\ q.pc = "eventBlocks"
        /\ q.to = run.to /\ CacheShape(q) /\ BaseShape(q)
        /\ WindowShape(q) /\ PageShape(q) /\ PageOnSafeHead(q)
    BY <1>9, <1>12, <2>q
  <2>2. PhaseShape(q) /\ ResetShape(q)
    BY <1>2, <2>1 DEF PhaseShape, ResetShape
  <2>3. Healthy(run') /\ run'.base = run.base /\ run'.revision = run.revision
    BY <2>1, <2>2, <2>q DEF Healthy, RunShape
  <2> QED
    BY <1>2, <1>b, <2>3, ReadStep DEF ReadLogs, onlyRun
<1> QED
  BY <1>1, <1>10, <1>11, <1>12 DEF r, ids
\* Checking the block of one event keeps the invariant.
LEMMA CheckEventBlockStep == Inv /\ CheckEventBlock => Inv'
<1> SUFFICES ASSUME Inv, CheckEventBlock PROVE Inv'
  OBVIOUS
<1> USE InvParts
<1>i. PICK i \in run.unchecked : \E h \in Reads(run, Len(run.page[i])) :
        LET r == [Remember(run, Len(run.page[i]), h) EXCEPT !.unchecked = run.unchecked \ {i}]
        IN run' = NoRun \/ run' = IF run.unchecked \ {i} = {} THEN AfterPage(r) ELSE r
  BY DEF CheckEventBlock
<1>1. PICK h \in Reads(run, Len(run.page[i])) :
        LET r == [Remember(run, Len(run.page[i]), h) EXCEPT !.unchecked = run.unchecked \ {i}]
        IN run' = NoRun \/ run' = IF run.unchecked \ {i} = {} THEN AfterPage(r) ELSE r
  BY <1>i
<1> DEFINE n == Len(run.page[i])
           left == run.unchecked \ {i}
           m == Remember(run, n, h)
           r == [m EXCEPT !.unchecked = left]
<1>2. /\ run.pc = "eventBlocks" /\ run.to # 0 /\ run.safe \in 1..MaxBlocks
      /\ run.safe \in run.asked /\ run.cache \in [1..MaxBlocks -> Hash]
      /\ run.unchecked \subseteq IdsOf(run.page) /\ left \in SUBSET Ids
  <2>1. run.pc = "eventBlocks" /\ run.pc \in Reading
    BY DEF CheckEventBlock, Reading, Paged
  <2> QED
    BY <2>1, RunFields DEF PhaseShape, WindowShape, PageShape
<1>3. n \in 1..MaxBlocks
  <2>1. run.page[i] \in Hash /\ run.page[i] # <<>>
    BY <1>2, RunFields DEF IdsOf, Page
  <2> QED
    BY <2>1, HashFacts
<1>r. run' = NoRun \/ run' = IF left = {} THEN AfterPage(r) ELSE r
  BY <1>1
<1>m. m = Remember(run, n, h) /\ h \in Reads(run, n)
  OBVIOUS
<1> HIDE DEF n, m
<1>4. /\ h \in Hash /\ (h = <<>> \/ (Len(h) = n /\ Past(h)))
      /\ n \in run.asked => h = run.cache[n]
  BY <1>3, <1>m, ReadsShape
<1>5. m \in Run /\ CacheShape(m) /\ RememberOnly(m, run, n, h)
  BY <1>3, <1>4, <1>m, RememberShape
<1>6. SafeHash(m) = SafeHash(run)
  BY <1>2, <1>3, <1>4, <1>5 DEF RememberOnly, SafeHash
<1>7. /\ r \in Run /\ r.pc = "eventBlocks" /\ r.to = run.to /\ r.from = run.from
      /\ r.cache = m.cache /\ r.safe = run.safe /\ run.safe \in r.asked /\ r.page = run.page
      /\ r.unchecked = left /\ r.base = run.base /\ r.replay = run.replay
      /\ r.revision = run.revision /\ r.count = run.count
      /\ Retained(r) = Retained(run) /\ Older(r) = Older(run) /\ SafeHash(r) = SafeHash(run)
      /\ ExpectedEnd(r) = ExpectedEnd(run)
  <2>1. /\ r.pc = m.pc /\ r.to = m.to /\ r.from = m.from /\ r.cache = m.cache
        /\ r.safe = m.safe /\ r.asked = m.asked /\ r.page = m.page /\ r.unchecked = left
        /\ r.base = m.base /\ r.replay = m.replay /\ r.revision = m.revision
        /\ r.count = m.count /\ r.reset = m.reset /\ r.older = m.older
    BY <1>5 DEF Run
  <2>2. r \in Run
    BY <1>2, <1>5 DEF Run
  <2>3. /\ Retained(r) = Retained(m) /\ Older(r) = Older(m) /\ SafeHash(r) = SafeHash(m)
        /\ ExpectedEnd(r) = ExpectedEnd(m)
    BY <2>1 DEF Retained, Older, SafeHash, ExpectedEnd
  <2> QED
    BY <1>2, <1>5, <1>6, <2>1, <2>2, <2>3 DEF RememberOnly
<1> HIDE DEF r, left
<1>l. left \subseteq IdsOf(run.page)
  BY <1>2 DEF left
<1>8. CacheShape(r) /\ BaseShape(r)
  BY <1>5, <1>7 DEF CacheShape, BaseShape
<1>9. ASSUME NEW phase \in {"recheckCheckpoint", "eventBlocks"}, NEW q, q = [r EXCEPT !.pc = phase]
      PROVE  q.pc = phase /\ q.page = run.page /\ WindowShape(q) /\ PageShape(q) /\ PageOnSafeHead(q)
  <2>1. /\ q \in Run /\ q.pc = phase /\ q.to = run.to /\ q.from = run.from
        /\ q.cache = r.cache /\ q.safe = run.safe /\ run.safe \in q.asked /\ q.page = run.page
        /\ q.unchecked = left /\ q.base = run.base /\ q.replay = run.replay
        /\ q.revision = run.revision /\ q.count = run.count
        /\ Retained(q) = Retained(run) /\ Older(q) = Older(run) /\ SafeHash(q) = SafeHash(run)
        /\ ExpectedEnd(q) = ExpectedEnd(run)
    BY <1>7, <1>9, NewPhase DEF Phases
  <2>2. WindowShape(q)
    BY <1>2, <2>1 DEF WindowShape, Reading, Paged, Rechecked
  <2>3. PageShape(q)
    BY <1>2, <1>l, <2>1 DEF PageShape, Reading, Paged, Rechecked
  <2>4. PageOnSafeHead(q)
    BY <1>2, <2>1 DEF PageOnSafeHead, Paged, Rechecked
  <2> QED
    BY <2>1, <2>2, <2>3, <2>4
<1>10. CASE run' = NoRun
  BY <1>10, NoRunHealthy, ReadStep DEF CheckEventBlock, onlyRun, TypeOK
<1>11. CASE run' = AfterPage(r)
  <2> DEFINE q == [r EXCEPT !.pc = "recheckCheckpoint"]
  <2>q. q = [r EXCEPT !.pc = "recheckCheckpoint"]
    OBVIOUS
  <2> HIDE DEF q
  <2>1. WindowShape(q) /\ PageShape(q) /\ PageOnSafeHead(q)
    BY <1>9, <2>q
  <2>2. Healthy(run') /\ run'.base = run.base /\ run'.revision = run.revision
    BY <1>7, <1>8, <1>11, <2>1, <2>q, AfterPageHealthy
  <2> QED
    BY <1>2, <2>2, ReadStep DEF CheckEventBlock, onlyRun, TypeOK
<1>12. CASE run' = r
  <2>1. r = [r EXCEPT !.pc = "eventBlocks"]
    BY <1>7 DEF Run
  <2>2. WindowShape(r) /\ PageShape(r) /\ PageOnSafeHead(r)
    BY <1>9, <2>1
  <2>3. PhaseShape(r) /\ ResetShape(r)
    BY <1>2, <1>7 DEF PhaseShape, ResetShape
  <2>4. Healthy(run') /\ run'.base = run.base /\ run'.revision = run.revision
    BY <1>7, <1>8, <1>12, <2>2, <2>3 DEF Healthy, RunShape
  <2> QED
    BY <1>2, <2>4, ReadStep DEF CheckEventBlock, onlyRun, TypeOK
<1> QED
  BY <1>r, <1>10, <1>11, <1>12

\* Reading the checkpoint block again puts the checkpoint on the same chain as the page.
LEMMA RecheckCheckpointStep == Inv /\ RecheckCheckpoint => Inv'
<1> SUFFICES ASSUME Inv, RecheckCheckpoint PROVE Inv'
  OBVIOUS
<1> USE InvParts
<1>1. PICK h \in Answers(Len(run.base.at)) :
        run' = IF h = run.base.at THEN AfterCheckpoint(run) ELSE NoRun
  BY DEF RecheckCheckpoint
<1>2. /\ run.pc = "recheckCheckpoint" /\ Exists(Retained(run)) /\ Retained(run) = run.base
      /\ run.base.at # <<>> /\ Len(run.base.at) <= run.safe /\ run.safe \in 1..MaxBlocks
      /\ SafeHash(run) \in Hash /\ SafeHash(run) # <<>> /\ Len(SafeHash(run)) = run.safe
  <2>1. run.pc = "recheckCheckpoint" /\ Exists(Retained(run))
    BY DEF RecheckCheckpoint, PhaseShape
  <2>2. Retained(run) = run.base /\ run.base.at # <<>>
    BY <2>1, EmptyValues DEF Retained, Exists
  <2>3. run.pc \in Reading
    BY <2>1 DEF Reading, Paged
  <2>4. Len(run.base.at) <= run.safe /\ run.safe >= 1 /\ SafeHash(run) # <<>>
    BY <2>1, <2>3 DEF WindowShape
  <2>5. run.safe \in 1..MaxBlocks
    BY <2>4, RunFields
  <2>6. SafeHash(run) \in Hash /\ Len(SafeHash(run)) = run.safe
    BY <2>4, <2>5, RunFields DEF SafeHash, CacheShape
  <2> QED
    BY <2>1, <2>2, <2>4, <2>5, <2>6
<1>3. CASE h # run.base.at
  BY <1>1, <1>3, NoRunHealthy, ReadStep DEF RecheckCheckpoint, onlyRun, TypeOK
<1>4. CASE h = run.base.at
  <2>1. PICK phase \in Rechecked : /\ run' = [run EXCEPT !.pc = phase]
                                   /\ phase = "recheckBoundary" => run.to # 0
    BY <1>1, <1>4 DEF AfterCheckpoint, Rechecked
  <2>2. phase \in Phases /\ phase \in Rechecked
    BY DEF Rechecked, Phases
  <2> DEFINE q == [run EXCEPT !.pc = phase]
  <2>3. /\ q \in Run /\ q.pc = phase /\ q.base = run.base /\ q.revision = run.revision
        /\ q.safe = run.safe /\ q.count = run.count /\ q.from = run.from /\ q.to = run.to
        /\ q.asked = run.asked /\ q.cache = run.cache /\ q.page = run.page
        /\ q.unchecked = run.unchecked /\ q.next = run.next /\ q.replay = run.replay
        /\ Retained(q) = Retained(run) /\ Older(q) = Older(run)
        /\ ExpectedEnd(q) = ExpectedEnd(run) /\ SafeHash(q) = SafeHash(run)
    BY <2>2, NewPhase
  <2>q. run' = q
    BY <2>1
  <2> HIDE DEF q
  <2>4. CacheShape(q) /\ BaseShape(q) /\ PhaseShape(q) /\ ResetShape(q)
    BY <2>1, <2>3 DEF CacheShape, BaseShape, PhaseShape, ResetShape, Rechecked
  <2>5. WindowShape(q) /\ PageShape(q)
    BY <1>2, <2>3 DEF WindowShape, PageShape, Reading, Paged, Rechecked
  <2>6. PageOnSafeHead(q)
    <3>1. Canonical(run.base.at)
      <4>1. Len(run.base.at) \in 1..MaxBlocks
        BY <1>2, RunFields, HashFacts
      <4> QED
        BY <1>2, <1>4, <4>1, AnswersShape
    <3>2. Canonical(SafeHash(run)) => IsPrefix(run.base.at, SafeHash(run))
      BY <1>2, <3>1, RunFields, ChainFacts, PrefixesNest DEF Canonical
    <3> QED
      BY <1>2, <2>3, <3>2 DEF PageOnSafeHead, Paged, Rechecked
  <2>7. Healthy(run') /\ run'.base = run.base /\ run'.revision = run.revision
    BY <2>3, <2>4, <2>5, <2>6, <2>q DEF Healthy, RunShape
  <2> QED
    BY <1>2, <2>7, ReadStep DEF RecheckCheckpoint, onlyRun, TypeOK
<1> QED
  BY <1>3, <1>4
(***************************************************************************)
(* The checkpoint a read earns, and the return of its batch.               *)
(***************************************************************************)

(* The ids of a page are ids. *)
LEMMA PageIds ==
  ASSUME NEW r \in Run
  PROVE  /\ IdsOf(r.page) \subseteq Ids /\ IdsOf(r.page) \in SUBSET Nat
         /\ \A i \in IdsOf(r.page) : r.page[i] \in Hash /\ Len(r.page[i]) \in 0..MaxBlocks
         /\ IdsOf(r.page) # {} => /\ Min(IdsOf(r.page)) \in IdsOf(r.page)
                                  /\ Min(IdsOf(r.page)) \in 1..MaxMessages
                                  /\ \A i \in IdsOf(r.page) : Min(IdsOf(r.page)) <= i
<1>1. IdsOf(r.page) \subseteq Ids /\ IdsOf(r.page) \in SUBSET Nat
  BY DEF IdsOf, Ids
<1>2. \A i \in IdsOf(r.page) : r.page[i] \in Hash
  BY <1>1, RunFields DEF Page
<1>3. \A i \in IdsOf(r.page) : Len(r.page[i]) \in 0..MaxBlocks
  BY <1>2, HashFacts
<1>4. IdsOf(r.page) # {} => /\ Min(IdsOf(r.page)) \in IdsOf(r.page)
                            /\ \A i \in IdsOf(r.page) : Min(IdsOf(r.page)) <= i
  BY <1>1, MinIsLeast
<1> QED
  BY <1>1, <1>2, <1>3, <1>4 DEF Ids

\* The retained checkpoint has the fields of its type.
LEMMA RetainedFields ==
  ASSUME NEW r \in Run
  PROVE  /\ Retained(r) \in CheckpointType
         /\ Retained(r).at \in Hash /\ Retained(r).first \in 1..(MaxMessages + 1)
         /\ Retained(r).last \in 0..MaxMessages /\ Retained(r).olderTo \in 0..MaxBlocks
         /\ Exists(Retained(r)) => Retained(r) = r.base
         /\ ~Exists(Retained(r)) => r.reset \/ ~Exists(r.base)
<1>1. Retained(r) \in CheckpointType
  BY RunFields, EmptyValues DEF Retained
<1>2. /\ Retained(r).at \in Hash /\ Retained(r).first \in 1..(MaxMessages + 1)
      /\ Retained(r).last \in 0..MaxMessages /\ Retained(r).olderTo \in 0..MaxBlocks
  BY <1>1 DEF CheckpointType
<1> QED
  BY <1>1, <1>2, EmptyValues DEF Retained

\* What the safe head of a read that reaches its last checks looks like.
LEMMA SafeHashShape ==
  ASSUME NEW r \in Run, CacheShape(r), RunShape(r), r.pc \in Rechecked
  PROVE  /\ r.safe \in 1..MaxBlocks /\ SafeHash(r) \in Hash /\ SafeHash(r) # <<>>
         /\ SafeHash(r) = r.cache[r.safe] /\ Len(SafeHash(r)) = r.safe
<1>1. r.pc \in Reading
  BY DEF Reading, Paged
<1>2. r.safe \in 1..MaxBlocks /\ SafeHash(r) # <<>>
  BY <1>1, RunFields DEF RunShape, WindowShape
<1> QED
  BY <1>2, RunFields DEF SafeHash, CacheShape

\* The next checkpoint has the type of a checkpoint.
LEMMA NextCheckpointType ==
  ASSUME NEW r \in Run, CacheShape(r), RunShape(r), r.pc \in Rechecked
  PROVE  NextCheckpoint(r) \in CheckpointType
<1> DEFINE ids == IdsOf(r.page)
           c == Retained(r)
<1>1. /\ r.cache[r.safe] \in Hash /\ r.count \in 0..MaxMessages
      /\ c.first \in 1..(MaxMessages + 1) /\ c.last \in 0..MaxMessages
      /\ c.olderTo \in 0..MaxBlocks /\ c.at \in Hash
      /\ FirstBlock(r) \in 0..MaxBlocks
  BY SafeHashShape, RetainedFields, RunFields, HistoryAssumption DEF FirstBlock
<1>2. ids # {} => Min(ids) \in 1..(MaxMessages + 1) /\ Len(r.page[Min(ids)]) \in 0..MaxBlocks
  <2> SUFFICES ASSUME ids # {}
               PROVE  Min(ids) \in 1..(MaxMessages + 1) /\ Len(r.page[Min(ids)]) \in 0..MaxBlocks
    OBVIOUS
  <2>1. Min(ids) \in 1..MaxMessages /\ Min(ids) \in ids
    BY PageIds
  <2>2. Len(r.page[Min(ids)]) \in 0..MaxBlocks
    BY <2>1, PageIds
  <2> QED
    BY <2>1, <2>2, HistoryAssumption
<1>3. r.to # 0 => r.from - 1 \in 0..MaxBlocks
  <2>1. r.to # 0 => r.from >= 1
    BY DEF RunShape, WindowShape
  <2>2. r.from \in 0..MaxBlocks
    BY RunFields
  <2> QED
    BY <2>1, <2>2, HistoryAssumption
<1> HIDE DEF ids, c
<1>4. CASE r.to = 0
  BY <1>1, <1>4 DEF NextCheckpoint, FirstLoaded, OlderCursor, Joins, CheckpointType, c
<1>5. CASE r.to # 0
  <2> DEFINE joins == ~Older(r) /\ Exists(c) /\ ExpectedPrevious(r, ids) <= c.last
             extendsEarlier == Exists(c) /\ ids # {} /\ Min(ids) < c.first
             keeps == joins /\ ~extendsEarlier
             next == [at |-> IF Older(r) THEN c.at ELSE r.cache[r.safe],
                      last |-> IF Older(r) THEN c.last ELSE r.count,
                      first |-> IF keeps \/ ids = {} THEN c.first ELSE Min(ids),
                      olderTo |-> CASE keeps -> c.olderTo
                                    [] ~keeps /\ ids # {} -> Len(r.page[Min(ids)])
                                    [] OTHER -> r.from - 1]
  <2>1. NextCheckpoint(r) = next
    BY <1>5 DEF NextCheckpoint, FirstLoaded, OlderCursor, Joins, c, ids
  <2> HIDE DEF keeps
  <2>2. /\ next.at \in Hash /\ next.last \in 0..MaxMessages
        /\ next.first \in 1..(MaxMessages + 1)
    BY <1>1, <1>2
  <2>3. next.olderTo \in 0..MaxBlocks
    <3>1. CASE keeps
      BY <1>1, <3>1
    <3>2. CASE ~keeps /\ ids # {}
      BY <1>2, <3>2
    <3>3. CASE ~keeps /\ ids = {}
      BY <1>3, <1>5, <3>3
    <3> QED
      BY <3>1, <3>2, <3>3
  <2> QED
    BY <2>1, <2>2, <2>3 DEF CheckpointType
<1> QED
  BY <1>4, <1>5

\* Every id the next checkpoint claims was earned, if the safe head is still canonical.
LEMMA NextCheckpointEarned ==
  ASSUME NEW r \in Run, CacheShape(r), RunShape(r), PageOnSafeHead(r), r.pc \in Rechecked,
         Canonical(SafeHash(r))
  PROVE  Earned(NextCheckpoint(r), r.page, Retained(r))
<1> DEFINE ids == IdsOf(r.page)
           c == Retained(r)
           S == SafeHash(r)
<1>1. /\ S \in Hash /\ S = r.cache[r.safe] /\ r.pc \in Paged /\ r.pc \in Reading
      /\ r.count \in Nat /\ c.first \in Nat /\ c.last \in Nat /\ c.at \in Hash
      /\ ids \in SUBSET Nat
  BY SafeHashShape, RetainedFields, RunFields, PageIds, HistoryAssumption DEF Paged, Reading
<1>2. \A i \in ids : /\ r.page[i] \in Hash /\ IsPrefix(r.page[i], S)
                     /\ Holds(S, Len(r.page[i]), i) /\ Len(r.page[i]) <= r.to
  BY <1>1, PageIds DEF PageOnSafeHead
<1>3. Exists(c) => IsPrefix(c.at, S) /\ c = r.base
  BY RetainedFields DEF PageOnSafeHead
<1>4. c.last <= r.count /\ (r.to = 0 => r.count = c.last /\ ids = {})
  BY <1>1, EmptyValues DEF RunShape, WindowShape, PageShape
<1>5. r.to # 0 => /\ \E first \in 1..ExpectedEnd(r) + 1 : ids = first..ExpectedEnd(r)
                  /\ Older(r) \/ ids # {}
  BY <1>1 DEF RunShape, PageShape
<1>6. ids # {} => Min(ids) \in ids /\ \A i \in ids : Min(ids) <= i
  BY PageIds
<1>7. \A i \in Nat : i \in ids \/ i \notin ids
  OBVIOUS
<1>9. ~Exists(c) => c = NoCheckpoint
  BY DEF Retained, RunShape, BaseShape
<1>8. CASE r.to = 0
  <2>1. /\ NextCheckpoint(r).at = S /\ NextCheckpoint(r).first = c.first
        /\ NextCheckpoint(r).last = r.count
    BY <1>1, <1>8 DEF NextCheckpoint, FirstLoaded, OlderCursor, Joins
  <2> HIDE DEF ids, c, S
  <2>2. CASE Exists(c)
    <3> SUFFICES ASSUME NEW i \in c.first..r.count
                 PROVE  i \notin ids /\ i \in c.first..c.last /\ IsPrefix(c.at, S)
      BY <2>1, <2>2 DEF Earned, ids, c
    <3> QED
      BY <1>3, <1>4, <1>8, <2>2
  <2>3. CASE ~Exists(c)
    <3>1. NextCheckpoint(r).first..NextCheckpoint(r).last = {}
      BY <1>4, <1>8, <1>9, <2>1, <2>3 DEF NoCheckpoint
    <3> QED
      BY <3>1 DEF Earned
  <2> QED
    BY <2>2, <2>3
<1>10. \A i \in Nat : i \notin ids /\ r.to # 0 /\ i <= ExpectedEnd(r) => ids = {} \/ i < Min(ids)
  BY <1>1, <1>5, <1>6, ExpectedEndNat
<1>11. CASE r.to # 0 /\ Older(r)
  <2>1. Exists(c) /\ c = r.base /\ IsPrefix(c.at, S) /\ ExpectedEnd(r) = c.first - 1
        /\ r.to <= Len(c.at)
    BY <1>3, <1>11 DEF Older, ExpectedEnd, RunShape, WindowShape, BaseShape
  <2>2. /\ NextCheckpoint(r).at = c.at /\ NextCheckpoint(r).last = c.last
        /\ NextCheckpoint(r).first = IF ids = {} THEN c.first ELSE Min(ids)
    BY <1>11 DEF NextCheckpoint, FirstLoaded, OlderCursor, Joins
  <2>3. \A i \in ids : IsPrefix(r.page[i], c.at) /\ Holds(c.at, Len(r.page[i]), i)
    <3> SUFFICES ASSUME NEW i \in ids
                 PROVE  IsPrefix(r.page[i], c.at) /\ Holds(c.at, Len(r.page[i]), i)
      OBVIOUS
    <3>1. /\ r.page[i] \in Hash /\ Len(r.page[i]) <= Len(c.at) /\ Len(r.page[i]) \in Nat
          /\ i \in Nat
      <4>1. r.page[i] \in Hash /\ Len(r.page[i]) \in Nat /\ Len(r.page[i]) <= r.to /\ i \in Nat
        BY <1>1, <1>2, PageIds
      <4>2. r.to \in Nat /\ Len(c.at) \in Nat
        BY <1>1, HashFacts, RunFields
      <4> QED
        BY <2>1, <4>1, <4>2
    <3>2. IsPrefix(r.page[i], c.at)
      BY <1>1, <1>2, <2>1, <3>1, PrefixesNest
    <3>3. Holds(c.at, Len(r.page[i]), i)
      BY <1>1, <1>2, <2>1, <3>1, HoldsInPrefix
    <3> QED
      BY <3>2, <3>3
  <2>4. IsPrefix(c.at, c.at)
    BY <1>1, PrefixBlocks, HashFacts
  <2>5. ids # {} => Min(ids) \in Nat
    BY <1>1, <1>6
  <2> HIDE DEF ids, c, S
  <2>6. ASSUME NEW i \in NextCheckpoint(r).first..c.last, i \notin ids
        PROVE  i \in c.first..c.last
    BY <1>1, <1>10, <1>11, <2>1, <2>2, <2>5, <2>6
  <2> QED
    BY <2>1, <2>2, <2>3, <2>4, <2>6 DEF Earned, ids, c
<1>12. CASE r.to # 0 /\ ~Older(r)
  <2> DEFINE keeps == /\ ~Older(r) /\ Exists(c) /\ ExpectedPrevious(r, ids) <= c.last
                      /\ ~(Exists(c) /\ ids # {} /\ Min(ids) < c.first)
  <2>1. ids # {} /\ ExpectedEnd(r) = r.count /\ Min(ids) \in Nat
    BY <1>1, <1>5, <1>6, <1>12 DEF ExpectedEnd
  <2>2. /\ NextCheckpoint(r).at = S /\ NextCheckpoint(r).last = r.count
        /\ NextCheckpoint(r).first = IF keeps THEN c.first ELSE Min(ids)
    BY <1>1, <1>12, <2>1 DEF NextCheckpoint, FirstLoaded, OlderCursor, Joins
  <2>3. keeps => Exists(c) /\ Min(ids) - 1 <= c.last
    BY <2>1 DEF ExpectedPrevious
  <2> HIDE DEF ids, c, S, keeps
  <2>4. ASSUME NEW i \in NextCheckpoint(r).first..r.count, i \notin ids
        PROVE  Exists(c) /\ i \in c.first..c.last /\ IsPrefix(c.at, S)
    <3>1. i \in Nat /\ i < Min(ids)
      <4>1. NextCheckpoint(r).first \in Nat
        BY <1>1, <2>1, <2>2
      <4>2. i \in Nat /\ i <= ExpectedEnd(r)
        BY <1>1, <2>1, <2>4, <4>1
      <4> QED
        BY <1>10, <1>12, <2>1, <2>4, <4>2
    <3>2. keeps /\ i >= c.first
      BY <1>1, <2>1, <2>2, <2>4, <3>1
    <3> QED
      BY <1>1, <1>3, <2>1, <2>3, <3>1, <3>2
  <2> QED
    BY <1>2, <2>2, <2>4 DEF Earned, ids, c
<1> QED
  BY <1>8, <1>11, <1>12

\* What was earned without a checkpoint, or from this one, is earned from any
\* checkpoint it equals.
LEMMA EarnedFrom ==
  ASSUME NEW next, NEW page, NEW base, NEW other, Earned(next, page, base),
         Exists(base) => base = other
  PROVE  Earned(next, page, other)
BY DEF Earned

\* Returning a batch keeps the invariant if its checkpoint was earned.
LEMMA ReturnStep ==
  ASSUME Inv, run.pc # "idle",
         NEW r \in Run, r.caller = run.caller, r.page = run.page, r.reset = run.reset,
         r.replay = run.replay, r.revision = run.revision,
         NEW next \in CheckpointType,
         Exists(next) => Earned(next, r.page, Retained(run)),
         Return(r, next), UNCHANGED onlyReturn
  PROVE  Inv'
<1> USE InvParts
<1>1. /\ chain' = chain /\ reorgs' = reorgs /\ messages' = messages /\ checkpoint' = checkpoint
      /\ revision' = revision /\ queue' = queue /\ hasOlder' = hasOlder /\ receipt' = receipt
      /\ budget' = budget
  BY DEF onlyReturn, chainVars
<1> DEFINE b == [active |-> TRUE, page |-> r.page, reset |-> r.reset, replay |-> r.replay,
                 next |-> next, hasOlder |-> r.hasOlder, revision |-> r.revision]
<1>2. /\ batch' = [batch EXCEPT ![r.caller] = b]
      /\ batchVersion' = r.caller /\ run' = NoRun
      /\ pendingReset' = IF r.replay \/ r.reset THEN r.caller ELSE pendingReset
  BY DEF Return
<1>3. b \in Batch
  <2>1. r.hasOlder \in BOOLEAN
    BY DEF Run
  <2> QED
    BY <2>1, RunFields DEF Batch
<1>4. TypeOK'
  <2>1. r.caller \in Callers \cup {Nobody}
    BY DEF Run
  <2>2. batch' \in [Callers -> Batch]
    <3>1. batch \in [Callers -> Batch]
      BY DEF TypeOK
    <3> HIDE DEF b
    <3> QED
      BY <1>2, <1>3, <3>1
  <2>3. pendingReset' \in Callers \cup {Nobody} /\ batchVersion' \in Callers \cup {Nobody}
    BY <1>2, <2>1 DEF TypeOK
  <2>4. run' \in Run
    BY <1>2, NoRunHealthy DEF Healthy
  <2> QED
    BY <1>1, <2>2, <2>3, <2>4 DEF TypeOK
<1>5. ChainShape'
  BY <1>1 DEF ChainShape
<1>6. /\ CacheShape(run)' /\ RunShape(run)' /\ PageOnSafeHead(run)' /\ RevisionShape'
  <2>1. Healthy(run)'
    <3>1. run' \in Run
      BY <1>2, NoRunHealthy DEF Healthy
    <3>2. CacheShape(run)'
      BY <1>2 DEF NoRun, CacheShape
    <3>3. RunShape(run)'
      BY <1>2, EmptyValues DEF NoRun, RunShape, BaseShape, PhaseShape, WindowShape, PageShape,
         ResetShape, Reading, Paged, Rechecked
    <3>4. PageOnSafeHead(run)'
      BY <1>2 DEF NoRun, PageOnSafeHead, Paged, Rechecked
    <3> QED
      BY <3>1, <3>2, <3>3, <3>4 DEF Healthy
  <2>2. RevisionShape'
    BY <1>2, NoRunHealthy DEF RevisionShape
  <2> QED
    BY <2>1, <2>2 DEF Healthy
<1>7. BatchShape'
  <2> SUFFICES ASSUME NEW c \in Callers, batch'[c].active, Current(c)', Exists(batch'[c].next)
               PROVE  Earned(batch'[c].next, batch'[c].page, Extended(batch[c])')
    BY DEF BatchShape
  <2>1. c = r.caller
    BY <1>2 DEF Current
  <2>2. batch'[c] = b
    BY <1>2, <2>1 DEF TypeOK
  <2>3. run.revision = revision
    <3>1. revision' = batch'[c].revision
      BY DEF Current
    <3>2. b.revision = run.revision
      OBVIOUS
    <3> HIDE DEF b
    <3> QED
      BY <1>1, <2>2, <3>1, <3>2
  <2>4. Earned(next, run.page, Retained(run)) /\ (Exists(run.base) => run.base = checkpoint)
    BY <2>2, <2>3 DEF Inv, RevisionShape
  <2>5. Exists(Retained(run)) => ~run.reset /\ ~run.replay /\ Retained(run) = checkpoint
    BY <2>4, RetainedFields, EmptyValues DEF Retained, BaseShape
  <2>6. Exists(Retained(run)) => Retained(run) = Extended(batch[c])'
    BY <1>1, <2>2, <2>5 DEF Extended
  <2> QED
    BY <2>2, <2>4, <2>6, EarnedFrom
<1>8. CheckpointVouches'
  BY <1>1 DEF Inv, CheckpointVouches, Vouched, Holds, CountAt
<1> QED
  BY <1>4, <1>5, <1>6, <1>7, <1>8 DEF Inv

\* So does the end of a read, whether or not it resets the read cursor.
LEMMA FinishStep ==
  ASSUME Inv, run.pc \notin {"idle", "resetCursor"}, NEW next \in CheckpointType,
         Exists(next) => Earned(next, run.page, Retained(run)),
         Finish(run, next), UNCHANGED onlyReturn
  PROVE  Inv'
<1> USE InvParts
<1> DEFINE stored == IF Backed(next, Applied(run.snapshot, run.replay, run.reset, run.page))
                       THEN next ELSE NoCheckpoint
           older == next.first > 1
<1>1. /\ stored \in CheckpointType
      /\ Exists(stored) => Earned(stored, run.page, Retained(run))
  BY EmptyValues
<1>2. older \in BOOLEAN
  OBVIOUS
<1>3. CASE run.reset
  <2>1. /\ run' = [run EXCEPT !.pc = "resetCursor", !.next = stored, !.hasOlder = older]
        /\ UNCHANGED <<batch, batchVersion, pendingReset>>
    BY <1>3 DEF Finish
  <2> HIDE DEF stored, older
  <2>2. /\ run' \in Run /\ run'.pc = "resetCursor" /\ run'.next = stored /\ run'.page = run.page
        /\ run'.reset = run.reset /\ run'.base = run.base /\ run'.revision = run.revision
        /\ run'.cache = run.cache /\ run'.replay = run.replay /\ run'.to = run.to
        /\ run'.from = run.from /\ run'.safe = run.safe /\ run'.count = run.count
        /\ run'.older = run.older /\ run'.unchecked = run.unchecked
    BY <1>1, <1>2, <2>1 DEF Run, Phases
  <2>3. Retained(run) = NoCheckpoint /\ Retained(run') = NoCheckpoint
    BY <1>3, <2>2 DEF Retained
  <2>4. CacheShape(run') /\ BaseShape(run') /\ PhaseShape(run') /\ PageOnSafeHead(run')
    BY <2>2 DEF CacheShape, BaseShape, PhaseShape, PageOnSafeHead, Paged, Rechecked
  <2>5. WindowShape(run')
    BY <2>2, <2>3 DEF WindowShape, Reading, Paged, Rechecked, Older
  <2>6. PageShape(run') /\ ResetShape(run')
    BY <1>1, <1>3, <2>2, <2>3 DEF PageShape, ResetShape, Reading, Paged, Rechecked
  <2>7. Healthy(run')
    BY <2>2, <2>4, <2>5, <2>6 DEF Healthy, RunShape
  <2>8. UNCHANGED <<chainVars, messages, memoryVars, queue, batch, hasOlder, receipt>>
    BY <2>1 DEF onlyReturn, memoryVars
  <2> QED
    BY <2>2, <2>7, <2>8, ReadStep DEF onlyReturn, TypeOK
<1>4. CASE ~run.reset
  <2> DEFINE r == [run EXCEPT !.hasOlder = older]
  <2>1. Return(r, stored)
    BY <1>4 DEF Finish
  <2>2. /\ r \in Run /\ r.caller = run.caller /\ r.page = run.page /\ r.reset = run.reset
        /\ r.replay = run.replay /\ r.revision = run.revision
    BY <1>2 DEF Run
  <2> HIDE DEF r, stored
  <2> QED
    BY <1>1, <2>1, <2>2, ReturnStep
<1> QED
  BY <1>3, <1>4

\* A read that finds no final block keeps the invariant.
LEMMA NothingFinalStep == Inv /\ NothingFinal => Inv'
<1> SUFFICES ASSUME Inv, NothingFinal PROVE Inv'
  OBVIOUS
<1> USE InvParts
<1>1. run.pc = "safeHead" /\ run.safe = 0 /\ Finish(run, Retained(run)) /\ UNCHANGED onlyReturn
  BY DEF NothingFinal
<1>2. Retained(run) \in CheckpointType
  BY RetainedFields
<1>3. ~Exists(Retained(run))
  BY <1>1, RetainedFields, HashFacts DEF WindowShape, Exists
<1> QED
  BY <1>1, <1>2, <1>3, FinishStep

\* A read whose safe head is still canonical completes within the invariant.
LEMMA CompleteStep ==
  ASSUME Inv, run.pc \in Rechecked, Canonical(SafeHash(run)),
         Complete(run), UNCHANGED onlyReturn
  PROVE  Inv'
<1> USE InvParts
<1>1. CASE run' = NoRun /\ UNCHANGED <<batch, batchVersion, pendingReset>>
  <2>1. UNCHANGED <<chainVars, messages, memoryVars, queue, batch, hasOlder, receipt>>
    BY <1>1 DEF onlyReturn, memoryVars
  <2> QED
    BY <1>1, <2>1, NoRunHealthy, ReadStep DEF onlyReturn, TypeOK
<1>2. CASE Finish(run, NextCheckpoint(run))
  <2>1. NextCheckpoint(run) \in CheckpointType
    BY NextCheckpointType
  <2>2. Earned(NextCheckpoint(run), run.page, Retained(run))
    BY NextCheckpointEarned
  <2>3. run.pc \notin {"idle", "resetCursor"}
    BY DEF Rechecked
  <2> QED
    BY <1>2, <2>1, <2>2, <2>3, FinishStep
<1> QED
  BY <1>1, <1>2 DEF Complete

\* Reading the boundary block again keeps the invariant.
LEMMA RecheckBoundaryStep == Inv /\ RecheckBoundary => Inv'
<1> SUFFICES ASSUME Inv, RecheckBoundary PROVE Inv'
  OBVIOUS
<1> USE InvParts
<1>1. PICK h \in Answers(run.to) :
        IF h = run.cache[run.to] /\ run.to = run.safe
          THEN Complete(run)
          ELSE /\ run' = IF h = run.cache[run.to]
                           THEN [run EXCEPT !.pc = "recheckSafeHead"] ELSE NoRun
               /\ UNCHANGED <<batch, batchVersion, pendingReset>>
  BY DEF RecheckBoundary
<1>2. run.pc = "recheckBoundary" /\ run.pc \in Rechecked /\ UNCHANGED onlyReturn
  BY DEF RecheckBoundary, Rechecked
<1>3. CASE h = run.cache[run.to] /\ run.to = run.safe
  <2>1. Canonical(SafeHash(run))
    BY <1>2, <1>3, SafeHashShape, AnswersShape
  <2> QED
    BY <1>1, <1>2, <1>3, <2>1, CompleteStep
<1>4. CASE ~(h = run.cache[run.to] /\ run.to = run.safe)
  <2>1. UNCHANGED <<chainVars, messages, memoryVars, queue, batch, hasOlder, receipt>>
    BY <1>1, <1>2, <1>4 DEF onlyReturn, memoryVars
  <2> DEFINE q == [run EXCEPT !.pc = "recheckSafeHead"]
  <2>2. run' = NoRun \/ run' = q
    BY <1>1, <1>4
  <2>3. /\ q \in Run /\ q.pc = "recheckSafeHead" /\ q.base = run.base /\ q.revision = run.revision
        /\ q.safe = run.safe /\ q.count = run.count /\ q.from = run.from /\ q.to = run.to
        /\ q.asked = run.asked /\ q.cache = run.cache /\ q.page = run.page
        /\ q.unchecked = run.unchecked /\ q.next = run.next /\ q.replay = run.replay
        /\ Retained(q) = Retained(run) /\ Older(q) = Older(run)
        /\ ExpectedEnd(q) = ExpectedEnd(run) /\ SafeHash(q) = SafeHash(run)
    BY NewPhase DEF Phases
  <2> HIDE DEF q
  <2>4. CacheShape(q) /\ BaseShape(q) /\ PhaseShape(q) /\ ResetShape(q)
    BY <2>3 DEF CacheShape, BaseShape, PhaseShape, ResetShape
  <2>5. WindowShape(q) /\ PageShape(q) /\ PageOnSafeHead(q)
    BY <1>2, <2>3 DEF WindowShape, PageShape, PageOnSafeHead, Reading, Paged, Rechecked
  <2>6. Healthy(q)
    BY <2>3, <2>4, <2>5 DEF Healthy, RunShape
  <2> QED
    BY <1>2, <2>1, <2>2, <2>3, <2>6, NoRunHealthy, ReadStep DEF onlyReturn, TypeOK
<1> QED
  BY <1>3, <1>4

\* Reading the safe head again keeps the invariant.
LEMMA RecheckSafeHeadStep == Inv /\ RecheckSafeHead => Inv'
<1> SUFFICES ASSUME Inv, RecheckSafeHead PROVE Inv'
  OBVIOUS
<1> USE InvParts
<1>1. PICK h \in Answers(run.safe) :
        IF h = run.cache[run.safe]
          THEN Complete(run)
          ELSE run' = NoRun /\ UNCHANGED <<batch, batchVersion, pendingReset>>
  BY DEF RecheckSafeHead
<1>2. run.pc \in Rechecked /\ UNCHANGED onlyReturn
  BY DEF RecheckSafeHead, Rechecked
<1>3. CASE h = run.cache[run.safe]
  <2>1. Canonical(SafeHash(run))
    BY <1>2, <1>3, SafeHashShape, AnswersShape
  <2> QED
    BY <1>1, <1>2, <1>3, <2>1, CompleteStep
<1>4. CASE h # run.cache[run.safe]
  <2>1. UNCHANGED <<chainVars, messages, memoryVars, queue, batch, hasOlder, receipt>>
    BY <1>1, <1>2, <1>4 DEF onlyReturn, memoryVars
  <2> QED
    BY <1>1, <1>2, <1>4, <2>1, NoRunHealthy, ReadStep DEF onlyReturn, TypeOK
<1> QED
  BY <1>3, <1>4

\* Resetting the read cursor keeps the invariant.
LEMMA ResetCursorStep == Inv /\ ResetCursor => Inv'
<1> SUFFICES ASSUME Inv, ResetCursor PROVE Inv'
  OBVIOUS
<1> USE InvParts
<1>1. run.pc = "resetCursor" /\ Return(run, run.next) /\ UNCHANGED onlyReturn
  BY DEF ResetCursor
<1>2. Exists(run.next) => Earned(run.next, run.page, Retained(run))
  BY <1>1 DEF ResetShape, Retained
<1> QED
  BY <1>1, <1>2, RunFields, ReturnStep
(***************************************************************************)
(* The other steps.                                                        *)
(***************************************************************************)

(* A read of the conversation row keeps the invariant. *)
LEMMA ReadConversationStep == Inv /\ ReadConversation => Inv'
<1> SUFFICES ASSUME Inv, ReadConversation PROVE Inv'
  OBVIOUS
<1> USE InvParts
<1> DEFINE call == Head(queue)
           base == IF pendingReset = Nobody /\ Backed(checkpoint, call.snapshot)
                     THEN checkpoint ELSE NoCheckpoint
           replay == /\ ~Exists(base)
                     /\ \/ pendingReset # Nobody
                        \/ \E i \in Ids : call.snapshot[i].finality = "finalized"
           first == IF Sent(chain) = 0 THEN 0 ELSE BlockOf(chain, 1)
           last == IF Sent(chain) = 0 THEN 0 ELSE BlockOf(chain, Sent(chain))
           r == [NoRun EXCEPT
                   !.pc = "latest", !.caller = call.caller, !.older = call.older,
                   !.snapshot = call.snapshot, !.base = base, !.replay = replay,
                   !.revision = revision, !.count = Sent(chain),
                   !.firstBlock = first, !.lastBlock = last]
<1>1. /\ queue # <<>> /\ run' = r /\ queue' = Tail(queue)
      /\ chain' = chain /\ reorgs' = reorgs /\ messages' = messages /\ checkpoint' = checkpoint
      /\ revision' = revision /\ pendingReset' = pendingReset /\ batchVersion' = batchVersion
      /\ batch' = batch /\ hasOlder' = hasOlder /\ receipt' = receipt /\ budget' = budget
  BY DEF ReadConversation, chainVars, memoryVars
<1>2. queue \in Seq(Call) /\ checkpoint \in CheckpointType /\ revision \in Revisions
  BY DEF TypeOK
<1>3. call \in Call /\ queue' \in Seq(Call)
  BY <1>1, <1>2
<1>4. base \in CheckpointType /\ (Exists(base) => base = checkpoint /\ Backed(base, call.snapshot))
      /\ (~Exists(base) => base = NoCheckpoint)
  BY <1>2, EmptyValues DEF Backed
<1>5. first \in 0..MaxBlocks /\ last \in 0..MaxBlocks
  <2>1. CASE Sent(chain) = 0
    BY <2>1, HistoryAssumption
  <2>2. CASE Sent(chain) # 0
    <3>1. 1 \in 1..Sent(chain) /\ Sent(chain) \in 1..Sent(chain)
      BY <2>2, ChainFacts
    <3>2. BlockOf(chain, 1) \in 1..Len(chain) /\ BlockOf(chain, Sent(chain)) \in 1..Len(chain)
      BY <3>1, ChainFacts, BlockOfHolds
    <3> QED
      BY <2>2, <3>2, ChainFacts, HistoryAssumption
  <2> QED
    BY <2>1, <2>2
<1>6. replay \in BOOLEAN /\ (replay => ~Exists(base))
  OBVIOUS
<1> HIDE DEF base, replay, first, last
<1>7. call.caller \in Callers /\ call.older \in BOOLEAN /\ call.snapshot \in Projection
  BY <1>3 DEF Call
<1> HIDE DEF call
<1>8. r \in Run
  BY <1>2, <1>4, <1>5, <1>6, <1>7, NoRunHealthy, ChainFacts DEF Healthy, Run, Phases
<1>9. /\ r.pc = "latest" /\ r.base = base /\ r.replay = replay /\ r.revision = revision
      /\ r.cache = NoRun.cache /\ r.page = EmptyPage /\ r.unchecked = {} /\ r.to = 0
  BY <1>8 DEF NoRun
<1> HIDE DEF r
<1>10. CacheShape(r)
  BY <1>9, NoRunHealthy DEF Healthy, CacheShape
<1>11. BaseShape(r)
  BY <1>4, <1>6, <1>9 DEF BaseShape, Backed
<1>12. /\ PhaseShape(r) /\ WindowShape(r) /\ PageShape(r) /\ ResetShape(r) /\ PageOnSafeHead(r)
  BY <1>9, EmptyValues DEF PhaseShape, WindowShape, PageShape, ResetShape, PageOnSafeHead,
     Reading, Paged, Rechecked
<1>13. TypeOK'
  BY <1>1, <1>3, <1>8 DEF TypeOK
<1>14. ChainShape' /\ CheckpointVouches'
  BY <1>1 DEF Inv, ChainShape, CheckpointVouches, Vouched, Holds, CountAt
<1>15. CacheShape(run)' /\ RunShape(run)' /\ PageOnSafeHead(run)'
  BY <1>1, <1>10, <1>11, <1>12 DEF CacheShape, Past, RunShape, BaseShape, PhaseShape, WindowShape,
     PageShape, ResetShape, Retained, Older, ExpectedEnd, SafeHash, PageOnSafeHead, Canonical
<1>16. RevisionShape'
  BY <1>1, <1>4, <1>9 DEF RevisionShape
<1>17. BatchShape'
  <2>1. BatchShape
    BY DEF Inv
  <2> QED
    BY <1>1, <2>1 DEF BatchShape, Current, Extended
<1> QED
  BY <1>13, <1>14, <1>15, <1>16, <1>17 DEF Inv

\* Steps that leave alone what the invariant is about.
LEMMA OutsideStep ==
  ASSUME Inv, TypeOK', UNCHANGED <<chainVars, messages, memoryVars, run, batch>>
  PROVE  Inv'
<1>1. /\ chain' = chain /\ reorgs' = reorgs /\ messages' = messages /\ checkpoint' = checkpoint
      /\ revision' = revision /\ batchVersion' = batchVersion /\ run' = run /\ batch' = batch
  BY DEF chainVars, memoryVars
<1>2. ChainShape' /\ CheckpointVouches'
  BY <1>1 DEF Inv, ChainShape, CheckpointVouches, Vouched, Holds, CountAt
<1>3. CacheShape(run)' /\ RunShape(run)' /\ PageOnSafeHead(run)'
  BY <1>1 DEF Inv, CacheShape, Past, RunShape, BaseShape, PhaseShape, WindowShape,
     PageShape, ResetShape, Retained, Older, ExpectedEnd, SafeHash, PageOnSafeHead, Canonical
<1>4. RevisionShape'
  BY <1>1 DEF Inv, RevisionShape
<1>5. BatchShape'
  <2>1. BatchShape
    BY DEF Inv
  <2> QED
    BY <1>1, <2>1 DEF BatchShape, Current, Extended
<1> QED
  BY <1>2, <1>3, <1>4, <1>5 DEF Inv

\* A new call keeps the invariant.
LEMMA AskStep ==
  ASSUME Inv, NEW c \in Callers, NEW older \in BOOLEAN, Ask(c, older)
  PROVE  Inv'
<1> DEFINE call == [caller |-> c, older |-> older, snapshot |-> messages]
<1>1. /\ queue' = Append(queue, call)
      /\ UNCHANGED <<chainVars, messages, memoryVars, run, batch, hasOlder, receipt, budget>>
  BY DEF Ask
<1>2. call \in Call /\ queue \in Seq(Call)
  BY DEF Inv, TypeOK, Call
<1> HIDE DEF call
<1>3. queue' \in Seq(Call)
  BY <1>1, <1>2
<1>4. TypeOK'
  BY <1>1, <1>3 DEF Inv, TypeOK, chainVars, memoryVars
<1> QED
  BY <1>1, <1>4, OutsideStep

\* A receipt on its way keeps the invariant.
LEMMA ObserveReceiptStep == Inv /\ ObserveReceipt => Inv'
<1> SUFFICES ASSUME Inv, ObserveReceipt PROVE Inv'
  OBVIOUS
<1> USE InvParts
<1>1. PICK i \in 1..Sent(chain) : receipt' = [id |-> i, at |-> MessageAt(chain, i)]
  BY DEF ObserveReceipt
<1>2. i \in Ids /\ BlockOf(chain, i) \in 1..Len(chain) /\ Holds(chain, BlockOf(chain, i), i)
  <2>1. i \in Ids
    BY ChainFacts, HistoryAssumption DEF Ids
  <2> QED
    BY <2>1, ChainFacts, BlockOfHolds
<1>3. MessageAt(chain, i) \in Hash
  BY <1>2, MessageAtShape
<1>4. budget' \in [disruptions: 0..MaxDisruptions, losses: 0..MaxLosses, receipts: 0..MaxReceipts]
  <2>1. budget \in [disruptions: 0..MaxDisruptions, losses: 0..MaxLosses, receipts: 0..MaxReceipts]
    BY DEF TypeOK
  <2> QED
    BY <2>1, HistoryAssumption DEF ObserveReceipt
<1>5. UNCHANGED <<chainVars, messages, memoryVars, queue, run, batch, hasOlder>>
  BY DEF ObserveReceipt
<1>6. TypeOK'
  BY <1>1, <1>2, <1>3, <1>4, <1>5 DEF TypeOK, chainVars, memoryVars
<1> QED
  BY <1>5, <1>6, OutsideStep
\* A delivered receipt keeps the invariant: it never touches a finalized message.
LEMMA DeliverReceiptStep == Inv /\ DeliverReceipt => Inv'
<1> SUFFICES ASSUME Inv, DeliverReceipt PROVE Inv'
  OBVIOUS
<1> USE InvParts
<1>1. /\ receipt # NoReceipt /\ messages' = ApplyReceipt(messages, receipt)
      /\ receipt' = NoReceipt /\ chain' = chain /\ reorgs' = reorgs /\ checkpoint' = checkpoint
      /\ revision' = revision /\ pendingReset' = pendingReset /\ batchVersion' = batchVersion
      /\ queue' = queue /\ run' = run /\ batch' = batch /\ hasOlder' = hasOlder
      /\ budget' = budget
  BY DEF DeliverReceipt, chainVars, memoryVars
<1>2. receipt.id \in Ids /\ receipt.at \in Hash /\ messages \in Projection
  BY <1>1 DEF TypeOK
<1>3. messages' \in Projection
  <2>1. [at |-> receipt.at, finality |-> "confirmed"] \in [at: Hash, finality: Finality]
    BY <1>2 DEF Finality
  <2> QED
    BY <1>1, <1>2, <2>1 DEF ApplyReceipt, Projection
<1>4. TypeOK'
  BY <1>1, <1>3 DEF TypeOK
<1>5. CheckpointVouches'
  <2>1. \A i \in Ids : messages[i].finality = "finalized" => messages'[i] = messages[i]
    BY <1>1, <1>2 DEF ApplyReceipt, Projection
  <2>2. checkpoint.first..checkpoint.last \subseteq Ids
    <3>1. checkpoint \in CheckpointType
      BY DEF TypeOK
    <3> QED
      BY <3>1, HistoryAssumption DEF CheckpointType, Ids
  <2> QED
    BY <1>1, <2>1, <2>2 DEF Inv, CheckpointVouches, Vouched, Holds, CountAt
<1>6. ChainShape'
  BY <1>1 DEF ChainShape
<1>7. CacheShape(run)' /\ RunShape(run)' /\ PageOnSafeHead(run)'
  BY <1>1 DEF Inv, CacheShape, Past, RunShape, BaseShape, PhaseShape, WindowShape,
     PageShape, ResetShape, Retained, Older, ExpectedEnd, SafeHash, PageOnSafeHead, Canonical
<1>8. RevisionShape'
  BY <1>1 DEF Inv, RevisionShape
<1>9. BatchShape'
  <2>1. BatchShape
    BY DEF Inv
  <2> QED
    BY <1>1, <2>1 DEF BatchShape, Current, Extended
<1> QED
  BY <1>4, <1>5, <1>6, <1>7, <1>8, <1>9 DEF Inv

\* A batch has the fields of its type.
LEMMA BatchFields ==
  ASSUME TypeOK, NEW c \in Callers
  PROVE  /\ batch[c].page \in Page /\ batch[c].next \in CheckpointType
         /\ batch[c].reset \in BOOLEAN /\ batch[c].replay \in BOOLEAN
         /\ batch[c].hasOlder \in BOOLEAN /\ batch[c].revision \in Revisions
         /\ NoBatch \in Batch /\ ~NoBatch.active
<1>1. batch[c] \in Batch
  BY DEF TypeOK
<1>2. NoBatch \in Batch /\ ~NoBatch.active
  BY EmptyValues DEF NoBatch, Batch, Revisions
<1> QED
  BY <1>1, <1>2 DEF Batch

\* Applying a page to a projection gives a projection.
LEMMA AppliedType ==
  ASSUME NEW msgs \in Projection, NEW replay \in BOOLEAN, NEW reset \in BOOLEAN,
         NEW page \in Page
  PROVE  /\ Applied(msgs, replay, reset, page) \in Projection
         /\ \A i \in IdsOf(page) :
              /\ Applied(msgs, replay, reset, page)[i].at = page[i]
              /\ Applied(msgs, replay, reset, page)[i].finality = "finalized"
         /\ ~reset /\ ~replay => \A i \in Ids \ IdsOf(page) :
                                   Applied(msgs, replay, reset, page)[i] = msgs[i]
<1> DEFINE kept == CASE reset -> EmptyProjection
                     [] ~reset /\ replay -> ClearFinalized(msgs)
                     [] OTHER -> msgs
<1>1. kept \in Projection
  <2>1. EmptyProjection \in Projection
    BY EmptyValues
  <2>2. Absent \in [at: Hash, finality: Finality]
    BY EmptyValues DEF Absent, Finality
  <2>3. ClearFinalized(msgs) \in Projection
    BY <2>2 DEF ClearFinalized, Projection
  <2>4. CASE reset
    BY <2>1, <2>4
  <2>5. CASE ~reset /\ replay
    BY <2>3, <2>5
  <2>6. CASE ~reset /\ ~replay
    BY <2>6
  <2> QED
    BY <2>4, <2>5, <2>6
<1>2. ~reset /\ ~replay => kept = msgs
  OBVIOUS
<1>3. Applied(msgs, replay, reset, page) = Merge(kept, page)
  BY DEF Applied
<1> HIDE DEF kept
<1>4. \A i \in IdsOf(page) : [at |-> page[i], finality |-> "finalized"] \in [at: Hash, finality: Finality]
  BY DEF IdsOf, Page, Finality
<1>5. Merge(kept, page) \in Projection
  BY <1>1, <1>4 DEF Merge, Projection
<1>6. IdsOf(page) \subseteq Ids
  BY DEF IdsOf
<1> QED
  BY <1>2, <1>3, <1>5, <1>6 DEF Merge

\* Applying a batch keeps the invariant: the stored checkpoint vouches for what is shown.
LEMMA ApplyStep ==
  ASSUME Inv, NEW c \in Callers, Apply(c)
  PROVE  Inv'
<1> USE InvParts
<1> DEFINE b == batch[c]
           applied == Applied(messages, b.replay, b.reset, b.page)
<1>1. /\ b.active /\ batch' = [batch EXCEPT ![c] = NoBatch]
      /\ chain' = chain /\ reorgs' = reorgs /\ batchVersion' = batchVersion
      /\ queue' = queue /\ run' = run /\ receipt' = receipt /\ budget' = budget
  BY DEF Apply, chainVars
<1>2. /\ b.page \in Page /\ b.next \in CheckpointType /\ b.reset \in BOOLEAN
      /\ b.replay \in BOOLEAN /\ b.hasOlder \in BOOLEAN
      /\ NoBatch \in Batch /\ ~NoBatch.active
  BY BatchFields
<1>3. batch' \in [Callers -> Batch] /\ \A d \in Callers : d # c => batch'[d] = batch[d]
  BY <1>1, <1>2 DEF TypeOK
<1>4. ~batch'[c].active
  BY <1>1, <1>2 DEF TypeOK
<1>5. ChainShape'
  BY <1>1 DEF ChainShape
<1>6. CacheShape(run)' /\ RunShape(run)' /\ PageOnSafeHead(run)'
  BY <1>1 DEF Inv, CacheShape, Past, RunShape, BaseShape, PhaseShape, WindowShape,
     PageShape, ResetShape, Retained, Older, ExpectedEnd, SafeHash, PageOnSafeHead, Canonical
<1>7. CASE ~Current(c)
  <2>1. /\ messages' = messages /\ checkpoint' = checkpoint /\ revision' = revision
        /\ pendingReset' = pendingReset /\ hasOlder' = hasOlder
    BY <1>7 DEF Apply
  <2>2. TypeOK'
    BY <1>1, <1>3, <2>1 DEF TypeOK
  <2>3. RevisionShape'
    BY <1>1, <1>3, <1>4, <2>1 DEF Inv, RevisionShape
  <2>4. BatchShape'
    <3>1. BatchShape
      BY DEF Inv
    <3> QED
      BY <1>1, <1>3, <1>4, <2>1, <3>1 DEF BatchShape, Current, Extended
  <2>5. CheckpointVouches'
    BY <2>1 DEF Inv, CheckpointVouches, Vouched, Holds, CountAt
  <2> QED
    BY <1>5, <1>6, <2>2, <2>3, <2>4, <2>5 DEF Inv
<1>8. CASE Current(c)
  <2>1. /\ messages' = applied
        /\ checkpoint' = IF Backed(b.next, applied) THEN b.next ELSE NoCheckpoint
        /\ revision' = NextRevision(revision)
        /\ pendingReset' = IF (b.replay \/ b.reset) /\ pendingReset = c
                             THEN Nobody ELSE pendingReset
        /\ hasOlder' = [hasOlder EXCEPT ![c] = b.hasOlder]
    BY <1>8 DEF Apply
  <2> HIDE DEF b
  <2>2. /\ applied \in Projection
        /\ \A i \in IdsOf(b.page) :
             applied[i].at = b.page[i] /\ applied[i].finality = "finalized"
        /\ ~b.reset /\ ~b.replay => \A i \in Ids \ IdsOf(b.page) : applied[i] = messages[i]
    <3>1. messages \in Projection
      BY DEF TypeOK
    <3>2. Applied(messages, b.replay, b.reset, b.page) \in Projection
      BY ONLY <1>2, <3>1, AppliedType
    <3>3. ~b.reset /\ ~b.replay => \A i \in Ids \ IdsOf(b.page) : applied[i] = messages[i]
      BY ONLY <1>2, <3>1, AppliedType
    <3>4. \A i \in IdsOf(b.page) :
            applied[i].at = b.page[i] /\ applied[i].finality = "finalized"
      BY ONLY <1>2, <3>1, AppliedType
    <3> QED
      BY <3>2, <3>3, <3>4
  <2> HIDE DEF applied
  <2>3. revision' \in Revisions /\ revision' # revision
    BY <2>1 DEF NextRevision, Revisions, TypeOK
  <2>4. TypeOK'
    <3>1. checkpoint' \in CheckpointType
      BY <1>2, <2>1, EmptyValues
    <3>2. pendingReset' \in Callers \cup {Nobody} /\ hasOlder' \in [Callers -> BOOLEAN]
      BY <1>2, <2>1 DEF TypeOK
    <3> QED
      BY <1>1, <1>3, <2>1, <2>2, <2>3, <3>1, <3>2 DEF TypeOK
  <2>5. batchVersion = c /\ batch[c].active
    BY <1>1, <1>8 DEF Current, b
  <2>6. RevisionShape'
    <3>1. run.pc # "idle" => run.revision = revision
      BY <2>5 DEF Inv, RevisionShape
    <3>2. \A d \in Callers : ~(batch'[d].active /\ batchVersion' = d)
      BY <1>1, <1>4, <2>5
    <3> QED
      BY <1>1, <2>3, <3>1, <3>2 DEF RevisionShape
  <2>7. BatchShape'
    BY <1>1, <1>4, <2>5 DEF BatchShape, Current
  <2>8. CheckpointVouches'
    <3> SUFFICES ASSUME Exists(b.next), NEW i \in b.next.first..b.next.last
                 PROVE  /\ applied[i].finality = "finalized"
                        /\ IsPrefix(applied[i].at, b.next.at)
                        /\ Holds(b.next.at, Len(applied[i].at), i)
      BY <2>1, EmptyValues DEF CheckpointVouches, Vouched, Holds, CountAt
    <3>1. Earned(b.next, b.page, Extended(b))
      BY <1>1, <1>8 DEF Inv, BatchShape, b
    <3>2. i \in Ids /\ i \in Nat /\ b.next.at \in Hash
      BY <1>2, HistoryAssumption DEF CheckpointType, Ids
    <3>3. CASE /\ i \in IdsOf(b.page) /\ IsPrefix(b.page[i], b.next.at)
               /\ Holds(b.next.at, Len(b.page[i]), i)
      <4>1. applied[i].at = b.page[i] /\ applied[i].finality = "finalized"
        BY <2>2, <3>3
      <4> QED
        BY <3>3, <4>1
    <3>4. CASE /\ i \notin IdsOf(b.page) /\ Exists(Extended(b))
               /\ i \in Extended(b).first..Extended(b).last
               /\ IsPrefix(Extended(b).at, b.next.at)
      <4>1. ~b.reset /\ ~b.replay /\ Extended(b) = checkpoint
        BY <3>4, EmptyValues DEF Extended
      <4>2. applied[i] = messages[i]
        BY <2>2, <3>2, <3>4, <4>1
      <4>3. /\ messages[i].finality = "finalized"
            /\ IsPrefix(messages[i].at, checkpoint.at)
            /\ Holds(checkpoint.at, Len(messages[i].at), i)
        BY <3>4, <4>1 DEF Inv, CheckpointVouches, Vouched
      <4>4. messages[i].at \in Hash /\ checkpoint.at \in Hash
        BY <3>2 DEF TypeOK, Projection, CheckpointType
      <4>5. IsPrefix(messages[i].at, b.next.at)
        BY <3>2, <3>4, <4>1, <4>3, <4>4, PrefixTransitive
      <4>6. Len(messages[i].at) \in Nat /\ Len(messages[i].at) <= Len(checkpoint.at)
        BY <4>3, <4>4, HashFacts DEF Holds
      <4>7. Holds(b.next.at, Len(messages[i].at), i)
        BY <3>2, <3>4, <4>1, <4>3, <4>4, <4>6, HoldsInPrefix
      <4> QED
        BY <4>2, <4>3, <4>5, <4>7
    <3> QED
      BY <3>1, <3>3, <3>4 DEF Earned
  <2> QED
    BY <1>5, <1>6, <2>4, <2>6, <2>7, <2>8 DEF Inv
<1> QED
  BY <1>7, <1>8
\* A failed or abandoned call keeps the invariant.
LEMMA DropStep ==
  ASSUME Inv, NEW c \in Callers, Drop(c)
  PROVE  Inv'
<1> USE InvParts
<1>1. /\ UNCHANGED <<chainVars, messages, memoryVars, receipt>>
      /\ budget' = [budget EXCEPT !.disruptions = @ + 1] /\ budget.disruptions < MaxDisruptions
      /\ hasOlder' \in {hasOlder, [hasOlder EXCEPT ![c] = FALSE]}
  BY DEF Drop
<1>2. /\ chain' = chain /\ reorgs' = reorgs /\ messages' = messages /\ checkpoint' = checkpoint
      /\ revision' = revision /\ pendingReset' = pendingReset /\ batchVersion' = batchVersion
      /\ receipt' = receipt
  BY <1>1 DEF chainVars, memoryVars
<1>3. hasOlder' \in [Callers -> BOOLEAN]
  BY <1>1 DEF TypeOK
<1>4. budget' \in [disruptions: 0..MaxDisruptions, losses: 0..MaxLosses, receipts: 0..MaxReceipts]
  <2>1. budget \in [disruptions: 0..MaxDisruptions, losses: 0..MaxLosses, receipts: 0..MaxReceipts]
    BY DEF TypeOK
  <2> QED
    BY <1>1, <2>1, HistoryAssumption
<1>5. ASSUME NEW k \in 1..Len(queue), queue' = RemoveAt(queue, k), UNCHANGED <<run, batch>>
      PROVE  Inv'
  <2>1. queue' \in Seq(Call)
    <3>1. queue \in Seq(Call)
      BY DEF TypeOK
    <3> QED
      BY <1>5, <3>1 DEF RemoveAt
  <2>2. TypeOK'
    BY <1>2, <1>3, <1>4, <1>5, <2>1 DEF TypeOK
  <2> QED
    BY <1>1, <1>5, <2>2, OutsideStep
<1>6. CASE run' = NoRun /\ UNCHANGED <<queue, batch>>
  <2>1. TypeOK'
    BY <1>2, <1>3, <1>4, <1>6, NoRunHealthy DEF TypeOK, Healthy
  <2> QED
    BY <1>1, <1>6, <2>1, NoRunHealthy, RunStep
<1>7. CASE batch' = [batch EXCEPT ![c] = NoBatch] /\ UNCHANGED <<queue, run>>
  <2>1. /\ batch' \in [Callers -> Batch] /\ ~batch'[c].active
        /\ \A d \in Callers : d # c => batch'[d] = batch[d]
    BY <1>7, BatchFields DEF TypeOK
  <2>2. TypeOK'
    BY <1>2, <1>3, <1>4, <1>7, <2>1 DEF TypeOK
  <2>3. ChainShape' /\ CheckpointVouches'
    BY <1>2 DEF Inv, ChainShape, CheckpointVouches, Vouched, Holds, CountAt
  <2>4. CacheShape(run)' /\ RunShape(run)' /\ PageOnSafeHead(run)'
    BY <1>2, <1>7 DEF Inv, CacheShape, Past, RunShape, BaseShape, PhaseShape, WindowShape,
       PageShape, ResetShape, Retained, Older, ExpectedEnd, SafeHash, PageOnSafeHead, Canonical
  <2>5. RevisionShape'
    BY <1>2, <1>7, <2>1 DEF Inv, RevisionShape
  <2>6. BatchShape'
    <3>1. BatchShape
      BY DEF Inv
    <3> QED
      BY <1>2, <2>1, <3>1 DEF BatchShape, Current, Extended
  <2> QED
    BY <2>2, <2>3, <2>4, <2>5, <2>6 DEF Inv
<1> QED
  BY <1>5, <1>6, <1>7 DEF Drop

\* Growth and reorganisation of the chain keep the invariant.
LEMMA ChainStep == Inv /\ (Mine \/ Reorg) => Inv'
<1> SUFFICES ASSUME Inv, Mine \/ Reorg PROVE Inv'
  OBVIOUS
<1> USE InvParts
<1>1. /\ messages' = messages /\ checkpoint' = checkpoint
      /\ revision' = revision /\ pendingReset' = pendingReset /\ batchVersion' = batchVersion
      /\ queue' = queue /\ run' = run /\ batch' = batch /\ hasOlder' = hasOlder
      /\ receipt' = receipt /\ budget' = budget
  BY DEF Mine, Reorg, memoryVars
<1>2. chain' \in Hash /\ Len(chain') \in 1..MaxBlocks /\ reorgs' \in 0..MaxReorgs /\ ChainShape'
  <2>1. CASE Mine
    BY <2>1, MineShape, ChainFacts DEF Mine
  <2>2. CASE Reorg
    BY <2>2, ReorgShape
  <2> QED
    BY <2>1, <2>2
<1>3. TypeOK'
  BY <1>1, <1>2 DEF TypeOK
<1>4. CacheShape(run)'
  <2> SUFFICES ASSUME NEW n \in 1..MaxBlocks, run.cache[n] # <<>>
               PROVE  Len(run.cache[n]) = n /\ Past(run.cache[n])'
    BY <1>1 DEF CacheShape, Past
  <2>1. run.cache[n] \in Hash /\ Len(run.cache[n]) = n /\ Past(run.cache[n])
    BY RunFields DEF CacheShape
  <2>2. \A h \in Hash : Past(h) => Past(h)'
    BY NeverComesBack
  <2> QED
    BY <1>1, <2>1, <2>2 DEF Past
<1>5. RunShape(run)'
  BY <1>1 DEF RunShape, BaseShape, PhaseShape, WindowShape,
     PageShape, ResetShape, Retained, Older, ExpectedEnd, SafeHash
<1>6. PageOnSafeHead(run)'
  <2>1. CASE run.pc \in Paged
    <3>1. run.pc \in Reading
      BY <2>1 DEF Reading
    <3>2. run.safe \in 1..MaxBlocks /\ SafeHash(run) # <<>>
      BY <3>1, RunFields DEF WindowShape
    <3>3. SafeHash(run) \in Hash /\ Past(SafeHash(run))
      BY <3>2, RunFields DEF SafeHash, CacheShape
    <3>4. \A h \in Hash : Past(h) => (Canonical(h)' => Canonical(h))
      BY NeverComesBack
    <3>5. Canonical(SafeHash(run))' => Canonical(SafeHash(run))
      BY <1>1, <3>3, <3>4 DEF SafeHash, Canonical
    <3> QED
      BY <1>1, <3>5 DEF PageOnSafeHead, SafeHash, Retained, Holds, CountAt
  <2>2. CASE run.pc \notin Paged
    BY <1>1, <2>2 DEF PageOnSafeHead, Paged
  <2> QED
    BY <2>1, <2>2
<1>7. RevisionShape' /\ CheckpointVouches'
  BY <1>1 DEF Inv, RevisionShape, CheckpointVouches, Vouched, Holds, CountAt
<1>8. BatchShape'
  <2>1. BatchShape
    BY DEF Inv
  <2> QED
    BY <1>1, <2>1 DEF BatchShape, Current, Extended
<1> QED
  BY <1>2, <1>3, <1>4, <1>5, <1>6, <1>7, <1>8 DEF Inv

(***************************************************************************)
(* The theorems.                                                           *)
(***************************************************************************)

(* The invariant holds at first. *)
LEMMA InitInv == Init => Inv
<1> SUFFICES ASSUME Init PROVE Inv
  OBVIOUS
<1> USE HistoryAssumption
<1>1. chain = <<[count |-> 0, fork |-> 0]>> /\ reorgs = 0
  BY DEF Init
<1>2. [count |-> 0, fork |-> 0] \in Block
  BY DEF Block
<1>3. chain \in Hash /\ Len(chain) \in 1..MaxBlocks /\ Len(chain) = 1
  BY <1>1, <1>2 DEF Hash
<1>4. NoBatch \in Batch /\ ~NoBatch.active
  BY EmptyValues DEF NoBatch, Batch, Revisions
<1>5. TypeOK
  BY <1>1, <1>3, <1>4, EmptyValues, NoRunHealthy DEF Init, TypeOK, Healthy, Revisions
<1>6. ChainShape
  BY <1>1, <1>3 DEF ChainShape
<1>7. CacheShape(run) /\ RunShape(run) /\ PageOnSafeHead(run)
  BY NoRunHealthy DEF Init, Healthy
<1>8. RevisionShape /\ CheckpointVouches
  BY NoRunHealthy, EmptyValues DEF Init, RevisionShape, CheckpointVouches
<1>9. BatchShape
  BY <1>4 DEF Init, BatchShape
<1> QED
  BY <1>5, <1>6, <1>7, <1>8, <1>9 DEF Inv

\* Stuttering keeps the invariant.
LEMMA StutterInv == Inv /\ UNCHANGED vars => Inv'
<1> SUFFICES ASSUME Inv, UNCHANGED vars PROVE Inv'
  OBVIOUS
<1>1. UNCHANGED <<chainVars, messages, memoryVars, run, batch>>
  BY DEF vars, chainVars, memoryVars
<1>2. TypeOK'
  BY DEF Inv, TypeOK, vars
<1> QED
  BY <1>1, <1>2, OutsideStep

\* The invariant holds in every reachable state, for every chain and every number
\* of callers: the reads, the batches and the revisions cooperate as described.
THEOREM InvHolds == Spec => []Inv
<1>1. Init => Inv
  BY InitInv
<1>2. Inv /\ [Next]_vars => Inv'
  <2> SUFFICES ASSUME Inv, [Next]_vars PROVE Inv'
    OBVIOUS
  <2>1. CASE Environment
    BY <2>1, ChainStep, ObserveReceiptStep, DeliverReceiptStep DEF Environment
  <2>2. CASE Read
    BY <2>2, ReadConversationStep, ReadLatestStep, ReadCheckpointBlockStep, ReadSafeHeadStep,
       NothingFinalStep, ReadBoundaryStep, ReadLogsStep, CheckEventBlockStep,
       RecheckCheckpointStep, RecheckBoundaryStep, RecheckSafeHeadStep, ResetCursorStep DEF Read
  <2>3. ASSUME NEW c \in Callers, NEW older \in BOOLEAN, Ask(c, older) PROVE Inv'
    BY <2>3, AskStep
  <2>4. ASSUME NEW c \in Callers, Apply(c) PROVE Inv'
    BY <2>4, ApplyStep
  <2>5. ASSUME NEW c \in Callers, Drop(c) PROVE Inv'
    BY <2>5, DropStep
  <2>6. CASE UNCHANGED vars
    BY <2>6, StutterInv
  <2> QED
    BY <2>1, <2>2, <2>3, <2>4, <2>5, <2>6 DEF Next
<1> QED
  BY <1>1, <1>2, PTL DEF Spec

\* Every value the history runtime and the App keep has its type.
THEOREM TypeCorrect == Spec => []TypeOK
<1>1. Inv => TypeOK
  BY DEF Inv
<1> QED
  BY <1>1, InvHolds, PTL

\* What the stored checkpoint claims is shown, finalized, on the one chain its
\* hash commits to, whatever the chain, the callers and the nodes do.
THEOREM CheckpointIsVouched == Spec => []CheckpointVouches
<1>1. Inv => CheckpointVouches
  BY DEF Inv
<1> QED
  BY <1>1, InvHolds, PTL

-----------------------------------------------------------------------------
(***************************************************************************)
(* When no reorganisation is deeper than the confirmation depth, what is   *)
(* shown as finalized is canonical.  The argument is about depth alone:    *)
(* every block a read takes messages from is under the safe head it        *)
(* started from, the safe head is ConfirmationDepth under a head the node  *)
(* had, and the chain never loses a block that deep, nor gets shorter.     *)
(* None of the hash checks of a read is needed for it.                     *)
(***************************************************************************)

\* A hash no reorganisation reaches any more.
Deep(h) == h # <<>> /\ Canonical(h) /\ Len(h) + ConfirmationDepth <= Len(chain)
DeepPage(page) == \A i \in IdsOf(page) : Deep(page[i])

\* What is shown, being read or about to be applied as finalized is that deep.
ShownDeep == \A i \in Ids : messages[i].finality = "finalized" => Deep(messages[i].at)
SafeDeep(r) == r.safe = 0 \/ r.safe + ConfirmationDepth <= Len(chain)
BatchesDeep == \A c \in Callers : DeepPage(batch[c].page)
Fin == ShownDeep /\ SafeDeep(run) /\ DeepPage(run.page) /\ BatchesDeep

-----------------------------------------------------------------------------
(* The chain.                                                              *)

\* A deep hash stays deep when the chain grows or reorganises.
LEMMA DeepStays ==
  ASSUME TypeOK, ChainShape, ReorgDepth <= ConfirmationDepth, Mine \/ Reorg
  PROVE  /\ Len(chain') >= Len(chain) /\ Len(chain') \in Nat
         /\ \A h \in Hash : Deep(h) => Deep(h)'
<1> USE HistoryAssumption
<1>1. Len(chain) \in 1..MaxBlocks /\ chain \in Hash
  BY ChainFacts
<1>2. CASE Mine
  <2>1. /\ chain' \in Hash /\ Len(chain') = Len(chain) + 1
        /\ \A n \in 1..Len(chain) : chain'[n] = chain[n]
    BY <1>2, MineShape
  <2> SUFFICES ASSUME NEW h \in Hash, Deep(h) PROVE Deep(h)'
    BY <1>1, <2>1
  <2>2. Len(h) \in 0..MaxBlocks
    BY HashFacts
  <2> QED
    BY <1>1, <2>1, <2>2, PrefixBlocks DEF Deep, Canonical
<1>3. CASE Reorg
  <2>1. chain' \in Hash /\ Len(chain') = Len(chain)
    BY <1>3, ReorgShape
  <2>2. PICK d \in 1..ReorgDepth :
          /\ d < Len(chain)
          /\ \E counts \in [Len(chain) - d + 1..Len(chain) -> 0..MaxMessages] :
               chain' = [n \in 1..Len(chain) |->
                           IF n \in DOMAIN counts
                             THEN [count |-> counts[n], fork |-> reorgs + 1]
                             ELSE chain[n]]
    BY <1>3 DEF Reorg
  <2>3. PICK counts \in [Len(chain) - d + 1..Len(chain) -> 0..MaxMessages] :
          chain' = [n \in 1..Len(chain) |->
                      IF n \in DOMAIN counts
                        THEN [count |-> counts[n], fork |-> reorgs + 1]
                        ELSE chain[n]]
    BY <2>2
  <2>4. \A n \in 1..Len(chain) : n + ConfirmationDepth <= Len(chain) => chain'[n] = chain[n]
    <3> SUFFICES ASSUME NEW n \in 1..Len(chain), n + ConfirmationDepth <= Len(chain)
                 PROVE  chain'[n] = chain[n]
      OBVIOUS
    <3>1. n \notin DOMAIN counts
      BY <1>1, <2>2, <2>3
    <3> QED
      BY <2>3, <3>1
  <2> SUFFICES ASSUME NEW h \in Hash, Deep(h) PROVE Deep(h)'
    BY <1>1, <2>1
  <2>5. Len(h) \in 0..MaxBlocks
    BY HashFacts
  <2> QED
    BY <1>1, <2>1, <2>4, <2>5, PrefixBlocks DEF Deep, Canonical
<1> QED
  BY <1>2, <1>3

\* So the chain disturbs nothing that is deep.
LEMMA ChainKeepsFin ==
  ASSUME Inv, Fin, ReorgDepth <= ConfirmationDepth, Mine \/ Reorg
  PROVE  Fin'
<1>1. TypeOK /\ ChainShape
  BY DEF Inv
<1>2. messages' = messages /\ run' = run /\ batch' = batch
  BY DEF Mine, Reorg
<1>3. /\ Len(chain') >= Len(chain) /\ Len(chain') \in Nat
      /\ \A h \in Hash : Deep(h) => Deep(h)'
  BY <1>1, DeepStays
<1>4. \A i \in Ids : messages[i].at \in Hash
  BY <1>1 DEF TypeOK, Projection
<1>5. \A page \in Page : DeepPage(page) => DeepPage(page)'
  BY <1>3 DEF DeepPage, IdsOf, Page
<1>6. run.page \in Page /\ run.safe \in 0..MaxBlocks /\ Len(chain) \in Nat
  BY <1>1, RunFields, ChainFacts DEF TypeOK
<1>7. \A c \in Callers : batch[c].page \in Page
  BY <1>1, BatchFields
<1>8. ShownDeep'
  BY <1>2, <1>3, <1>4 DEF Fin, ShownDeep, Deep, Canonical
<1>9. SafeDeep(run)'
  BY <1>2, <1>3, <1>6, HistoryAssumption DEF Fin, SafeDeep
<1>10. DeepPage(run.page)'
  BY <1>2, <1>5, <1>6 DEF Fin, DeepPage, Deep, Canonical
<1>11. BatchesDeep'
  BY <1>2, <1>5, <1>7 DEF Fin, BatchesDeep, DeepPage, Deep, Canonical
<1> QED
  BY <1>8, <1>9, <1>10, <1>11 DEF Fin

-----------------------------------------------------------------------------
(* Reads.                                                                  *)

\* A read that ended, or has the safe head and the page it had.
Continues(r, q) == q = NoRun \/ (q.page = r.page /\ q.safe = r.safe)

\* Between the safe head and the logs, and after them, a read only continues.
LEMMA ReadContinues ==
  ASSUME NEW r \in Run
  PROVE  /\ Continues(r, Planned(r)) /\ Continues(r, AfterPage(r))
         /\ Continues(r, AfterCheckpoint(r))
         /\ \A n \in 1..MaxBlocks : \A h \in Hash :
              /\ Remember(r, n, h) \in Run /\ Remember(r, n, h).page = r.page
              /\ Remember(r, n, h).safe = r.safe
<1>1. Continues(r, Window(r))
  BY DEF Window, Continues, Run
<1>2. Continues(r, Planned(r))
  BY <1>1 DEF Planned, Continues
<1>3. Continues(r, AfterCheckpoint(r))
  BY DEF AfterCheckpoint, Continues, Run
<1>4. Continues(r, AfterPage(r))
  BY <1>3 DEF AfterPage, Continues, Run
<1>5. ASSUME NEW n \in 1..MaxBlocks, NEW h \in Hash
      PROVE  /\ Remember(r, n, h) \in Run /\ Remember(r, n, h).page = r.page
             /\ Remember(r, n, h).safe = r.safe
  <2>1. r.asked \cup {n} \in SUBSET (1..MaxBlocks) /\ [r.cache EXCEPT ![n] = h] \in [1..MaxBlocks -> Hash]
    BY DEF Run
  <2> QED
    BY <2>1 DEF Remember, Run
<1> QED
  BY <1>2, <1>3, <1>4, <1>5

\* A step that leaves the chain, the projection and the batches, and continues
\* the read, disturbs nothing.
LEMMA ContinueKeepsFin ==
  ASSUME Fin, UNCHANGED <<chain, messages, batch>>, Continues(run, run')
  PROVE  Fin'
<1>1. CASE run' = NoRun
  BY <1>1, EmptyValues DEF Fin, ShownDeep, SafeDeep, DeepPage, BatchesDeep, Deep, Canonical, NoRun
<1>2. CASE run'.page = run.page /\ run'.safe = run.safe
  BY <1>2 DEF Fin, ShownDeep, SafeDeep, DeepPage, BatchesDeep, Deep, Canonical
<1> QED
  BY <1>1, <1>2 DEF Continues

\* The head of a node that may be behind is no higher than the head.
LEMMA LatestKeepsFin == Inv /\ Fin /\ ReadLatest => Fin'
<1> SUFFICES ASSUME Inv, Fin, ReadLatest PROVE Fin'
  OBVIOUS
<1> USE InvParts, HistoryAssumption
<1>1. Len(chain) \in 1..MaxBlocks /\ chain' = chain /\ messages' = messages /\ batch' = batch
  BY ChainFacts DEF ReadLatest, onlyRun, chainVars
<1>2. PICK latest \in Max({1, Len(chain) - Lag})..Len(chain) :
        LET r == [run EXCEPT !.safe = SafeHead(latest)]
        IN run' = IF Exists(run.base) THEN [r EXCEPT !.pc = "checkpointBlock"] ELSE Planned(r)
  BY DEF ReadLatest
<1>3. latest \in 1..Len(chain)
  BY <1>1, MaxOfTwo
<1> DEFINE r == [run EXCEPT !.safe = SafeHead(latest)]
<1>4. /\ SafeHead(latest) \in 0..MaxBlocks
      /\ SafeHead(latest) = 0 \/ SafeHead(latest) + ConfirmationDepth <= Len(chain)
  BY <1>1, <1>3 DEF SafeHead
<1>5. r \in Run /\ r.safe = SafeHead(latest) /\ r.page = run.page
  BY <1>4 DEF Run
<1>6. run' = IF Exists(run.base) THEN [r EXCEPT !.pc = "checkpointBlock"] ELSE Planned(r)
  BY <1>2
<1> HIDE DEF r
<1>7. Continues(r, [r EXCEPT !.pc = "checkpointBlock"])
  BY <1>5 DEF Continues, Run
<1>8. Continues(r, run')
  BY <1>5, <1>6, <1>7, ReadContinues
<1>9. CASE run' = NoRun
  BY <1>1, <1>9, ContinueKeepsFin DEF Continues
<1>10. CASE run'.page = run.page /\ run'.safe = SafeHead(latest)
  BY <1>1, <1>4, <1>10
     DEF Fin, ShownDeep, SafeDeep, DeepPage, BatchesDeep, Deep, Canonical
<1> QED
  BY <1>5, <1>8, <1>9, <1>10 DEF Continues

\* The checkpoint block, the safe head and the boundary are only remembered.
LEMMA BlocksKeepFin ==
  Inv /\ Fin /\ (ReadCheckpointBlock \/ ReadSafeHead \/ ReadBoundary) => Fin'
<1> SUFFICES ASSUME Inv, Fin, ReadCheckpointBlock \/ ReadSafeHead \/ ReadBoundary PROVE Fin'
  OBVIOUS
<1> USE InvParts
<1>1. UNCHANGED <<chain, messages, batch>>
  BY DEF ReadCheckpointBlock, ReadSafeHead, ReadBoundary, onlyRun, chainVars
<1>2. CASE ReadCheckpointBlock
  <2> DEFINE n == Len(run.base.at)
  <2>1. PICK h \in Answers(n) :
          run' = Planned([Remember(run, n, h) EXCEPT
                            !.reset = ~(h = run.base.at /\ n <= run.safe)])
    BY <1>2 DEF ReadCheckpointBlock
  <2>2. n \in 1..MaxBlocks
    BY <1>2, RunFields, HashFacts DEF ReadCheckpointBlock, PhaseShape, Exists
  <2>3. h \in Hash
    BY <2>2, AnswersShape
  <2> DEFINE m == Remember(run, n, h)
             r == [m EXCEPT !.reset = ~(h = run.base.at /\ n <= run.safe)]
  <2>4. run' = Planned(r)
    BY <2>1
  <2>5. m \in Run /\ m.page = run.page /\ m.safe = run.safe
    BY <2>2, <2>3, ReadContinues
  <2> HIDE DEF m, n
  <2>6. r \in Run /\ r.page = run.page /\ r.safe = run.safe
    BY <2>5 DEF Run
  <2> HIDE DEF r
  <2>7. Continues(run, run')
    BY <2>4, <2>6, ReadContinues DEF Continues
  <2> QED
    BY <1>1, <2>7, ContinueKeepsFin
<1>3. CASE ReadSafeHead
  <2>1. PICK h \in Reads(run, run.safe) :
          LET r == Remember(run, run.safe, h) IN
            \/ run' = NoRun
            \/ run' = AfterPage([r EXCEPT !.from = 0, !.to = 0])
            \/ run' = [r EXCEPT !.pc = "boundary"]
    BY <1>3 DEF ReadSafeHead
  <2>2. run.safe \in 1..MaxBlocks
    <3>1. run.safe > 0
      BY <1>3 DEF ReadSafeHead
    <3> QED
      BY <3>1, RunFields
  <2>3. h \in Hash
    BY <2>2, ReadsShape
  <2> DEFINE m == Remember(run, run.safe, h)
             q == [m EXCEPT !.from = 0]
             r == [q EXCEPT !.to = 0]
  <2>4. m \in Run /\ m.page = run.page /\ m.safe = run.safe
    BY <2>2, <2>3, ReadContinues
  <2>5. run' = NoRun \/ run' = AfterPage(r) \/ run' = [m EXCEPT !.pc = "boundary"]
    BY <2>1
  <2> HIDE DEF m
  <2>6. r \in Run /\ r.page = run.page /\ r.safe = run.safe
    <3>1. 0 \in 0..MaxBlocks
      BY HistoryAssumption
    <3>2. q \in Run /\ q.page = run.page /\ q.safe = run.safe
      BY ONLY <2>4, <3>1 DEF Run
    <3> HIDE DEF q
    <3> QED
      BY ONLY <3>1, <3>2 DEF Run
  <2> HIDE DEF q, r
  <2>7. Continues(run, AfterPage(r))
    BY <2>6, ReadContinues DEF Continues
  <2>8. Continues(run, [m EXCEPT !.pc = "boundary"])
    BY <2>4 DEF Continues, Run
  <2>9. Continues(run, NoRun)
    BY DEF Continues
  <2>10. Continues(run, run')
    BY ONLY <2>5, <2>7, <2>8, <2>9
  <2> QED
    BY <1>1, <2>10, ContinueKeepsFin
<1>4. CASE ReadBoundary
  <2>1. PICK h \in Reads(run, run.to) :
          run' = IF h = <<>> THEN NoRun ELSE [Remember(run, run.to, h) EXCEPT !.pc = "logs"]
    BY <1>4 DEF ReadBoundary
  <2>2. run.to \in 1..MaxBlocks
    BY <1>4, RunFields DEF ReadBoundary, PhaseShape
  <2>3. h \in Hash
    BY <2>2, ReadsShape
  <2> DEFINE m == Remember(run, run.to, h)
  <2>4. m \in Run /\ m.page = run.page /\ m.safe = run.safe
    BY <2>2, <2>3, ReadContinues
  <2>5. run' = NoRun \/ run' = [m EXCEPT !.pc = "logs"]
    BY <2>1
  <2> HIDE DEF m
  <2>6. Continues(run, [m EXCEPT !.pc = "logs"])
    BY <2>4 DEF Continues, Run
  <2>7. Continues(run, run')
    BY <2>5, <2>6 DEF Continues
  <2> QED
    BY <1>1, <2>7, ContinueKeepsFin
<1> QED
  BY <1>2, <1>3, <1>4

\* The logs of a window are under the safe head, on the chain of their instant.
LEMMA LogsKeepFin == Inv /\ Fin /\ ReadLogs => Fin'
<1> SUFFICES ASSUME Inv, Fin, ReadLogs PROVE Fin'
  OBVIOUS
<1> DEFINE Kept(answer) == IF Older(run) THEN answer \cap 1..ExpectedEnd(run) ELSE answer
           Collected(ids) == [i \in Ids |-> IF i \in ids THEN MessageAt(chain, i) ELSE <<>>]
           Got(ids) == [run EXCEPT !.unchecked = ids, !.page = Collected(ids)]
<1>1. /\ TypeOK /\ ChainShape /\ run \in Run /\ WindowShape(run) /\ PhaseShape(run)
      /\ UNCHANGED <<chain, messages, batch>> /\ run.pc = "logs"
  BY InvParts DEF ReadLogs, chainVars
<1>2. PICK answer \in SUBSET {i \in Ids : \E n \in run.from..run.to : Holds(chain, n, i)} :
        \/ run' = NoRun
        \/ run' = AfterPage(Got(Kept(answer)))
        \/ run' = [Got(Kept(answer)) EXCEPT !.pc = "eventBlocks"]
  BY DEF ReadLogs
<1> DEFINE ids == Kept(answer)
           page == Collected(ids)
           r == Got(ids)
<1>3. ids \subseteq Ids /\ \A i \in ids : \E n \in run.from..run.to : Holds(chain, n, i)
  OBVIOUS
<1>4. run.safe \in 0..MaxBlocks /\ run.from \in 1..MaxBlocks /\ run.to \in 1..run.safe
  <2>1. run.to # 0
    BY <1>1 DEF PhaseShape
  <2> QED
    BY <1>1, <2>1, RunFields DEF WindowShape
<1>5. run' = NoRun \/ run' = AfterPage(r) \/ run' = [r EXCEPT !.pc = "eventBlocks"]
  BY <1>2
<1> HIDE DEF ids
<1>6. \A i \in ids : MessageAt(chain, i) \in Hash /\ Deep(MessageAt(chain, i))
  <2> SUFFICES ASSUME NEW i \in ids
               PROVE  MessageAt(chain, i) \in Hash /\ Deep(MessageAt(chain, i))
    OBVIOUS
  <2>1. PICK n \in run.from..run.to : Holds(chain, n, i)
    BY <1>3
  <2>2. /\ MessageAt(chain, i) \in Hash /\ Len(MessageAt(chain, i)) = n
        /\ MessageAt(chain, i) # <<>> /\ Canonical(MessageAt(chain, i))
    BY <1>1, <1>3, <1>4, <2>1, MessageAtShape DEF Canonical
  <2>3. n + ConfirmationDepth <= Len(chain)
    BY SMTT(40), <1>1, <1>4, <2>1, ChainFacts, HistoryAssumption DEF Fin, SafeDeep
  <2> QED
    BY <2>2, <2>3 DEF Deep
<1>7. page \in Page /\ DeepPage(page)
  <2>1. page \in Page /\ IdsOf(page) \subseteq ids
    BY <1>6, EmptyValues DEF Page, IdsOf
  <2> QED
    BY <1>3, <1>6, <2>1 DEF DeepPage
<1>r. r = [run EXCEPT !.unchecked = ids, !.page = page]
  OBVIOUS
<1> HIDE DEF page, r
<1>8. r \in Run /\ r.page = page /\ r.safe = run.safe
  BY ONLY <1>1, <1>3, <1>7, <1>r DEF Run
<1>9. Continues(r, AfterPage(r)) /\ Continues(r, [r EXCEPT !.pc = "eventBlocks"])
  BY <1>8, ReadContinues DEF Continues, Run
<1>10. CASE run' = NoRun
  BY <1>1, <1>10, ContinueKeepsFin DEF Continues
<1>11. CASE run'.page = page /\ run'.safe = run.safe
  BY <1>1, <1>7, <1>11 DEF Fin, ShownDeep, SafeDeep, DeepPage, BatchesDeep, Deep, Canonical
<1> QED
  BY <1>5, <1>8, <1>9, <1>10, <1>11 DEF Continues

\* The event blocks and the checkpoint block are compared, nothing is added.
LEMMA ChecksKeepFin == Inv /\ Fin /\ (CheckEventBlock \/ RecheckCheckpoint) => Fin'
<1> SUFFICES ASSUME Inv, Fin, CheckEventBlock \/ RecheckCheckpoint PROVE Fin'
  OBVIOUS
<1> USE InvParts
<1>1. UNCHANGED <<chain, messages, batch>>
  BY DEF CheckEventBlock, RecheckCheckpoint, onlyRun, chainVars
<1>2. CASE CheckEventBlock
  <2>1. PICK i \in run.unchecked :
          \E h \in Reads(run, Len(run.page[i])) :
            LET r == [Remember(run, Len(run.page[i]), h) EXCEPT !.unchecked = run.unchecked \ {i}]
            IN run' = NoRun \/ run' = AfterPage(r) \/ run' = r
    BY <1>2 DEF CheckEventBlock
  <2> DEFINE n == Len(run.page[i])
             left == run.unchecked \ {i}
  <2>2. PICK h \in Reads(run, n) :
          LET r == [Remember(run, n, h) EXCEPT !.unchecked = left]
          IN run' = NoRun \/ run' = AfterPage(r) \/ run' = r
    BY <2>1
  <2>3. n \in 1..MaxBlocks /\ left \in SUBSET Ids
    <3>1. i \in IdsOf(run.page) /\ run.page \in Page /\ run.unchecked \in SUBSET Ids
      BY RunFields DEF PageShape
    <3>2. run.page[i] \in Hash /\ run.page[i] # <<>>
      BY <3>1 DEF IdsOf, Page
    <3> QED
      BY <3>1, <3>2, HashFacts
  <2>4. h \in Hash
    BY <2>3, ReadsShape
  <2> DEFINE m == Remember(run, n, h)
             r == [m EXCEPT !.unchecked = left]
  <2>5. m \in Run /\ m.page = run.page /\ m.safe = run.safe
    BY <2>3, <2>4, ReadContinues
  <2>6. run' = NoRun \/ run' = AfterPage(r) \/ run' = r
    BY <2>2
  <2> HIDE DEF m, left
  <2>7. r \in Run /\ r.page = run.page /\ r.safe = run.safe
    BY ONLY <2>3, <2>5 DEF Run
  <2> HIDE DEF r
  <2>8. Continues(run, AfterPage(r)) /\ Continues(run, r) /\ Continues(run, NoRun)
    BY <2>7, ReadContinues DEF Continues
  <2>9. Continues(run, run')
    BY ONLY <2>6, <2>8
  <2> QED
    BY <1>1, <2>9, ContinueKeepsFin
<1>3. CASE RecheckCheckpoint
  <2>1. run' = AfterCheckpoint(run) \/ run' = NoRun
    BY <1>3 DEF RecheckCheckpoint
  <2>2. Continues(run, AfterCheckpoint(run)) /\ Continues(run, NoRun)
    BY ReadContinues DEF Continues
  <2>3. Continues(run, run')
    BY ONLY <2>1, <2>2
  <2> QED
    BY <1>1, <2>3, ContinueKeepsFin
<1> QED
  BY <1>2, <1>3

-----------------------------------------------------------------------------
(* Batches.                                                                *)

\* The batch is the page of its read.
LEMMA ReturnKeepsFin ==
  ASSUME Inv, Fin, UNCHANGED <<chain, messages>>,
         NEW r, r.page = run.page, NEW next, Return(r, next)
  PROVE  Fin'
<1> DEFINE b == [active |-> TRUE, page |-> r.page, reset |-> r.reset, replay |-> r.replay,
                 next |-> next, hasOlder |-> r.hasOlder, revision |-> r.revision]
<1>1. batch' = [batch EXCEPT ![r.caller] = b] /\ run' = NoRun
  BY DEF Return
<1>2. b.page = run.page
  OBVIOUS
<1> HIDE DEF b
<1>3. \A c \in Callers : batch'[c] = batch[c] \/ batch'[c] = b
  BY <1>1 DEF Inv, TypeOK
<1>4. \A c \in Callers : batch'[c].page = batch[c].page \/ batch'[c].page = run.page
  BY <1>2, <1>3
<1>5. BatchesDeep'
  BY <1>4 DEF Fin, BatchesDeep, DeepPage, Deep, Canonical
<1>6. SafeDeep(run)' /\ DeepPage(run.page)'
  BY <1>1, EmptyValues DEF SafeDeep, DeepPage, NoRun
<1>7. ShownDeep'
  BY DEF Fin, ShownDeep, Deep, Canonical
<1> QED
  BY <1>5, <1>6, <1>7 DEF Fin

\* A read that ends returns its page, now or after the read cursor's reset.
LEMMA FinishKeepsFin ==
  ASSUME Inv, Fin, UNCHANGED <<chain, messages>>, NEW next, Finish(run, next)
  PROVE  Fin'
<1> USE InvParts
<1> DEFINE stored == IF Backed(next, Applied(run.snapshot, run.replay, run.reset, run.page))
                       THEN next ELSE NoCheckpoint
           older == next.first > 1
<1>1. CASE run.reset
  <2>1. run' = [run EXCEPT !.pc = "resetCursor", !.next = stored, !.hasOlder = older]
        /\ batch' = batch
    BY <1>1 DEF Finish
  <2> HIDE DEF stored, older
  <2>2. Continues(run, run')
    BY <2>1 DEF Continues, Run
  <2> QED
    BY <2>1, <2>2, ContinueKeepsFin
<1>2. CASE ~run.reset
  <2> DEFINE r == [run EXCEPT !.hasOlder = older]
  <2>1. Return(r, stored)
    BY <1>2 DEF Finish
  <2>2. r.page = run.page
    BY DEF Run
  <2> HIDE DEF r, stored
  <2> QED
    BY <2>1, <2>2, ReturnKeepsFin
<1> QED
  BY <1>1, <1>2

\* The last checks and the reset of the cursor end a read in one of these ways.
LEMMA EndsKeepFin ==
  Inv /\ Fin /\ (NothingFinal \/ RecheckBoundary \/ RecheckSafeHead \/ ResetCursor) => Fin'
<1> SUFFICES ASSUME Inv, Fin, NothingFinal \/ RecheckBoundary \/ RecheckSafeHead \/ ResetCursor
             PROVE  Fin'
  OBVIOUS
<1> USE InvParts
<1>1. UNCHANGED <<chain, messages>>
  BY DEF NothingFinal, RecheckBoundary, RecheckSafeHead, ResetCursor, onlyReturn, chainVars
<1>2. ASSUME Complete(run) PROVE Fin'
  BY <1>1, <1>2, FinishKeepsFin, ContinueKeepsFin DEF Complete, Continues
<1>3. CASE NothingFinal
  BY <1>1, <1>3, FinishKeepsFin DEF NothingFinal
<1>4. CASE RecheckBoundary
  <2>1. \/ Complete(run)
        \/ run' = NoRun /\ batch' = batch
        \/ run' = [run EXCEPT !.pc = "recheckSafeHead"] /\ batch' = batch
    BY <1>4 DEF RecheckBoundary
  <2>2. Continues(run, [run EXCEPT !.pc = "recheckSafeHead"]) /\ Continues(run, NoRun)
    BY DEF Continues, Run
  <2>3. Complete(run) \/ (Continues(run, run') /\ batch' = batch)
    BY ONLY <2>1, <2>2
  <2> QED
    BY <1>1, <1>2, <2>3, ContinueKeepsFin
<1>5. CASE RecheckSafeHead
  <2>1. Complete(run) \/ (run' = NoRun /\ batch' = batch)
    BY <1>5 DEF RecheckSafeHead
  <2> QED
    BY <1>1, <1>2, <2>1, ContinueKeepsFin DEF Continues
<1>6. CASE ResetCursor
  BY <1>1, <1>6, ReturnKeepsFin DEF ResetCursor
<1> QED
  BY <1>3, <1>4, <1>5, <1>6

\* Applying a batch finalizes what its page holds, and nothing else.
LEMMA ApplyKeepsFin ==
  ASSUME Inv, Fin, NEW c \in Callers, Apply(c)
  PROVE  Fin'
<1> USE InvParts
<1> DEFINE b == batch[c]
           applied == Applied(messages, b.replay, b.reset, b.page)
<1>1. /\ chain' = chain /\ run' = run /\ batch' = [batch EXCEPT ![c] = NoBatch]
      /\ messages' = messages \/ messages' = applied
  BY DEF Apply, chainVars
<1>2. b.page \in Page /\ messages \in Projection
  BY BatchFields DEF TypeOK
<1>3. \A i \in Ids : applied[i].finality = "finalized" =>
        \/ i \in IdsOf(b.page) /\ applied[i].at = b.page[i]
        \/ messages[i].finality = "finalized" /\ applied[i] = messages[i]
  <2> DEFINE kept == CASE b.reset -> EmptyProjection
                       [] ~b.reset /\ b.replay -> ClearFinalized(messages)
                       [] OTHER -> messages
  <2>1. b.reset \in BOOLEAN /\ b.replay \in BOOLEAN
    BY BatchFields
  <2>2. \A i \in Ids : kept[i].finality = "finalized" => kept[i] = messages[i]
    BY <2>1 DEF EmptyProjection, ClearFinalized, Absent
  <2>3. applied = Merge(kept, b.page)
    BY DEF Applied
  <2> HIDE DEF kept, applied, b
  <2> QED
    BY <2>2, <2>3 DEF Merge
<1>4. DeepPage(b.page)
  BY DEF Fin, BatchesDeep
<1> HIDE DEF applied, b
<1>5. \A i \in Ids : applied[i].finality = "finalized" => Deep(applied[i].at)
  BY <1>3, <1>4 DEF Fin, ShownDeep, DeepPage
<1>6. ShownDeep'
  BY <1>1, <1>5 DEF Fin, ShownDeep, Deep, Canonical
<1>7. SafeDeep(run)' /\ DeepPage(run.page)'
  BY <1>1 DEF Fin, SafeDeep, DeepPage, Deep, Canonical
<1>8. \A d \in Callers : batch'[d].page = batch[d].page \/ batch'[d].page = EmptyPage
  BY <1>1 DEF TypeOK, NoBatch
<1>9. BatchesDeep'
  BY <1>1, <1>8, EmptyValues DEF Fin, BatchesDeep, DeepPage, Deep, Canonical
<1> QED
  BY <1>6, <1>7, <1>9 DEF Fin

-----------------------------------------------------------------------------
(* The other steps.                                                        *)

\* A failed or abandoned call ends a read or discards a batch.
LEMMA DropKeepsFin ==
  ASSUME Inv, Fin, NEW c \in Callers, Drop(c)
  PROVE  Fin'
<1> USE InvParts
<1>1. UNCHANGED <<chain, messages>>
  BY DEF Drop, chainVars
<1>2. \/ run' = NoRun /\ batch' = batch
      \/ run' = run /\ batch' = batch
      \/ run' = run /\ batch' = [batch EXCEPT ![c] = NoBatch]
  BY DEF Drop
<1>3. CASE (run' = NoRun \/ run' = run) /\ batch' = batch
  BY <1>1, <1>3, ContinueKeepsFin DEF Continues
<1>4. CASE run' = run /\ batch' = [batch EXCEPT ![c] = NoBatch]
  <2>1. \A d \in Callers : batch'[d].page = batch[d].page \/ batch'[d].page = EmptyPage
    BY <1>4 DEF TypeOK, NoBatch
  <2>2. BatchesDeep'
    BY <1>1, <2>1, EmptyValues DEF Fin, BatchesDeep, DeepPage, Deep, Canonical
  <2> QED
    BY <1>1, <1>4, <2>2 DEF Fin, ShownDeep, SafeDeep, DeepPage, Deep, Canonical
<1> QED
  BY <1>2, <1>3, <1>4

\* A receipt never makes a message finalized.
LEMMA DeliverKeepsFin == Inv /\ Fin /\ DeliverReceipt => Fin'
<1> SUFFICES ASSUME Inv, Fin, DeliverReceipt PROVE Fin'
  OBVIOUS
<1>1. /\ UNCHANGED <<chain, run, batch>>
      /\ messages' = messages \/ messages' = [messages EXCEPT ![receipt.id] =
                                                [at |-> receipt.at, finality |-> "confirmed"]]
  BY DEF DeliverReceipt, ApplyReceipt, chainVars
<1>2. \A i \in Ids : messages'[i].finality = "finalized" => messages'[i] = messages[i]
  BY <1>1 DEF Inv, TypeOK, Projection
<1>3. ShownDeep'
  BY <1>1, <1>2 DEF Fin, ShownDeep, Deep, Canonical
<1> QED
  BY <1>1, <1>3 DEF Fin, SafeDeep, DeepPage, BatchesDeep, Deep, Canonical

\* The steps that touch neither the projection nor a page, and a new read.
LEMMA QuietKeepsFin ==
  ASSUME Inv, Fin,
         \/ ObserveReceipt \/ ReadConversation \/ UNCHANGED vars
         \/ \E c \in Callers, older \in BOOLEAN : Ask(c, older)
  PROVE  Fin'
<1>1. UNCHANGED <<chain, messages, batch>>
  BY DEF ObserveReceipt, ReadConversation, Ask, vars, chainVars
<1>2. CASE run' = run
  BY <1>1, <1>2, ContinueKeepsFin DEF Continues
<1>3. CASE ReadConversation
  <2>1. run'.page = NoRun.page /\ run'.safe = NoRun.safe
    BY <1>3 DEF ReadConversation, NoRun
  <2>2. run'.page = EmptyPage /\ run'.safe = 0
    BY <2>1 DEF NoRun
  <2> QED
    BY <1>1, <2>2, EmptyValues DEF Fin, ShownDeep, SafeDeep, DeepPage, BatchesDeep, Deep, Canonical
<1> QED
  BY <1>2, <1>3 DEF ObserveReceipt, Ask, vars

\* So everything finalized is deep, always.
LEMMA FinHolds ==
  ASSUME ReorgDepth <= ConfirmationDepth
  PROVE  Spec => []Fin
<1>1. Init => Fin
  BY EmptyValues DEF Init, Fin, ShownDeep, SafeDeep, DeepPage, BatchesDeep, NoRun, NoBatch,
     EmptyProjection, Absent
<1>2. Inv /\ Fin /\ [Next]_vars => Fin'
  <2> SUFFICES ASSUME Inv, Fin, [Next]_vars PROVE Fin'
    OBVIOUS
  <2>1. CASE Environment
    BY <2>1, ChainKeepsFin, QuietKeepsFin, DeliverKeepsFin DEF Environment
  <2>2. CASE Read
    BY <2>2, QuietKeepsFin, LatestKeepsFin, BlocksKeepFin, LogsKeepFin, ChecksKeepFin,
       EndsKeepFin DEF Read
  <2>3. CASE \E c \in Callers, older \in BOOLEAN : Ask(c, older)
    BY <2>3, QuietKeepsFin
  <2>4. ASSUME NEW c \in Callers, Apply(c) PROVE Fin'
    BY <2>4, ApplyKeepsFin
  <2>5. ASSUME NEW c \in Callers, Drop(c) PROVE Fin'
    BY <2>5, DropKeepsFin
  <2>6. CASE UNCHANGED vars
    BY <2>6, QuietKeepsFin
  <2> QED
    BY <2>1, <2>2, <2>3, <2>4, <2>5, <2>6 DEF Next
<1> QED
  BY <1>1, <1>2, InvHolds, PTL DEF Spec

\* While no reorganisation is deeper than the confirmation depth, whatever is
\* shown as finalized is on the canonical chain, for every number of callers,
\* blocks and messages, for nodes that are behind or lose records of their answers.
THEOREM FinalizedIsCanonical ==
  ASSUME ReorgDepth <= ConfirmationDepth
  PROVE  Spec => []FinalizedCanonical
<1>1. Spec => []Fin
  BY FinHolds
<1>2. Fin => FinalizedCanonical
  BY DEF Fin, ShownDeep, Deep, FinalizedCanonical
<1> QED
  BY <1>1, <1>2, PTL

-----------------------------------------------------------------------------
(***************************************************************************)
(* What every later section needs of the steps of a read.                  *)
(***************************************************************************)

\* A read that ended, or moved on with the checkpoint, the reset and the safe head it had.
Keeps(r, q) ==
  \/ q = NoRun
  \/ /\ q.base = r.base /\ q.next = r.next /\ q.reset = r.reset /\ q.safe = r.safe
     /\ q.pc # "checkpointBlock"

\* The plan, and what follows the page, keep them.
LEMMA PhasesKeep ==
  ASSUME NEW r \in Run
  PROVE  /\ Keeps(r, Planned(r)) /\ Keeps(r, AfterPage(r)) /\ Keeps(r, AfterCheckpoint(r))
         /\ \A phase \in Phases \ {"checkpointBlock"} : Keeps(r, [r EXCEPT !.pc = phase])
<1>1. Keeps(r, Window(r))
  BY DEF Window, Keeps, Run
<1>2. Keeps(r, Planned(r))
  BY <1>1 DEF Planned, Keeps
<1>3. Keeps(r, AfterCheckpoint(r))
  BY DEF AfterCheckpoint, Keeps, Run
<1>4. Keeps(r, AfterPage(r))
  BY <1>3 DEF AfterPage, Keeps, Run
<1>5. \A phase \in Phases \ {"checkpointBlock"} : Keeps(r, [r EXCEPT !.pc = phase])
  BY DEF Keeps, Run
<1> QED
  BY <1>2, <1>3, <1>4, <1>5

\* What readBlock caches is none of them.
LEMMA RememberKeeps ==
  ASSUME NEW r \in Run, NEW n \in 1..MaxBlocks, NEW h \in Hash
  PROVE  /\ Remember(r, n, h) \in Run
         /\ \A q : Keeps(Remember(r, n, h), q) => Keeps(r, q)
         /\ Remember(r, n, h).pc = r.pc
<1>1. r.asked \cup {n} \in SUBSET (1..MaxBlocks) /\ [r.cache EXCEPT ![n] = h] \in [1..MaxBlocks -> Hash]
  BY DEF Run
<1>2. Remember(r, n, h) \in Run
  BY <1>1 DEF Remember, Run
<1>3. /\ Remember(r, n, h).base = r.base /\ Remember(r, n, h).next = r.next
      /\ Remember(r, n, h).reset = r.reset /\ Remember(r, n, h).safe = r.safe
      /\ Remember(r, n, h).pc = r.pc
  BY DEF Remember, Run
<1> QED
  BY <1>2, <1>3 DEF Keeps

\* Between the checkpoint block and the last checks a read only moves on or ends.
LEMMA MiddleKeeps ==
  Inv /\ (ReadSafeHead \/ ReadBoundary \/ ReadLogs \/ CheckEventBlock \/ RecheckCheckpoint)
    => Keeps(run, run') /\ UNCHANGED <<chainVars, messages, memoryVars, queue, batch>>
<1> SUFFICES ASSUME Inv, ReadSafeHead \/ ReadBoundary \/ ReadLogs \/ CheckEventBlock
                           \/ RecheckCheckpoint
             PROVE  Keeps(run, run') /\ UNCHANGED <<chainVars, messages, memoryVars, queue, batch>>
  OBVIOUS
<1> USE InvParts
<1>1. UNCHANGED <<chainVars, messages, memoryVars, queue, batch>>
  BY DEF ReadSafeHead, ReadBoundary, ReadLogs, CheckEventBlock, RecheckCheckpoint, onlyRun
<1>2. Keeps(run, NoRun)
  BY DEF Keeps
<1>3. CASE ReadSafeHead
  <2>1. PICK h \in Reads(run, run.safe) :
          LET r == Remember(run, run.safe, h) IN
            \/ run' = NoRun
            \/ run' = AfterPage([r EXCEPT !.from = 0, !.to = 0])
            \/ run' = [r EXCEPT !.pc = "boundary"]
    BY <1>3 DEF ReadSafeHead
  <2>2. run.safe \in 1..MaxBlocks
    <3>1. run.safe > 0
      BY <1>3 DEF ReadSafeHead
    <3> QED
      BY <3>1, RunFields
  <2>3. h \in Hash
    BY <2>2, ReadsShape
  <2> DEFINE m == Remember(run, run.safe, h)
             q == [m EXCEPT !.from = 0]
             r == [q EXCEPT !.to = 0]
  <2>4. m \in Run /\ \A p : Keeps(m, p) => Keeps(run, p)
    BY <2>2, <2>3, RememberKeeps
  <2>5. run' = NoRun \/ run' = AfterPage(r) \/ run' = [m EXCEPT !.pc = "boundary"]
    BY <2>1
  <2> HIDE DEF m
  <2>6. 0 \in 0..MaxBlocks /\ "boundary" \in Phases \ {"checkpointBlock"}
    BY HistoryAssumption DEF Phases
  <2>7. q \in Run /\ q.base = m.base /\ q.next = m.next /\ q.reset = m.reset /\ q.safe = m.safe
    BY ONLY <2>4, <2>6 DEF Run
  <2> HIDE DEF q
  <2>8. r \in Run /\ r.base = m.base /\ r.next = m.next /\ r.reset = m.reset /\ r.safe = m.safe
    BY ONLY <2>6, <2>7 DEF Run
  <2> HIDE DEF r
  <2>9. Keeps(m, AfterPage(r)) /\ Keeps(m, [m EXCEPT !.pc = "boundary"])
    BY <2>4, <2>6, <2>8, PhasesKeep DEF Keeps
  <2> QED
    BY <1>1, <1>2, <2>4, <2>5, <2>9
<1>4. CASE ReadBoundary
  <2>1. PICK h \in Reads(run, run.to) :
          run' = IF h = <<>> THEN NoRun ELSE [Remember(run, run.to, h) EXCEPT !.pc = "logs"]
    BY <1>4 DEF ReadBoundary
  <2>2. run.to \in 1..MaxBlocks
    BY <1>4, RunFields DEF ReadBoundary, PhaseShape
  <2>3. h \in Hash
    BY <2>2, ReadsShape
  <2> DEFINE m == Remember(run, run.to, h)
  <2>4. m \in Run /\ \A p : Keeps(m, p) => Keeps(run, p)
    BY <2>2, <2>3, RememberKeeps
  <2>5. run' = NoRun \/ run' = [m EXCEPT !.pc = "logs"]
    BY <2>1
  <2> HIDE DEF m
  <2>6. Keeps(m, [m EXCEPT !.pc = "logs"])
    BY <2>4, PhasesKeep DEF Phases
  <2> QED
    BY <1>1, <1>2, <2>4, <2>5, <2>6
<1>5. CASE ReadLogs
  <2> DEFINE Collected(ids) == [i \in Ids |-> IF i \in ids THEN MessageAt(chain, i) ELSE <<>>]
             Got(ids) == [run EXCEPT !.unchecked = ids, !.page = Collected(ids)]
             Kept(answer) == IF Older(run) THEN answer \cap 1..ExpectedEnd(run) ELSE answer
  <2>0. PICK answer :
          \/ run' = NoRun
          \/ run' = AfterPage(Got(Kept(answer)))
          \/ run' = [Got(Kept(answer)) EXCEPT !.pc = "eventBlocks"]
    BY <1>5 DEF ReadLogs
  <2> DEFINE ids == Kept(answer)
  <2>1. run' = NoRun \/ run' = AfterPage(Got(ids)) \/ run' = [Got(ids) EXCEPT !.pc = "eventBlocks"]
    BY <2>0
  <2> HIDE DEF ids
  <2> DEFINE page == Collected(ids)
  <2> HIDE DEF page
  <2>2. PICK r : r = [run EXCEPT !.unchecked = ids, !.page = page]
    OBVIOUS
  <2>3. run' = NoRun \/ run' = AfterPage(r) \/ run' = [r EXCEPT !.pc = "eventBlocks"]
    BY <2>1, <2>2 DEF page
  <2>4. run' # NoRun => Keeps(run, run')
    BY <2>2, <2>3 DEF AfterPage, AfterCheckpoint, Keeps, Run
  <2> QED
    BY <1>1, <1>2, <2>4
<1>6. CASE CheckEventBlock
  <2>1. PICK i \in run.unchecked :
          \E h \in Reads(run, Len(run.page[i])) :
            LET r == [Remember(run, Len(run.page[i]), h) EXCEPT !.unchecked = run.unchecked \ {i}]
            IN run' = NoRun \/ run' = AfterPage(r) \/ run' = r
    BY <1>6 DEF CheckEventBlock
  <2> DEFINE n == Len(run.page[i])
             left == run.unchecked \ {i}
  <2>2. PICK h \in Reads(run, n) :
          LET r == [Remember(run, n, h) EXCEPT !.unchecked = left]
          IN run' = NoRun \/ run' = AfterPage(r) \/ run' = r
    BY <2>1
  <2>3. n \in 1..MaxBlocks /\ left \in SUBSET Ids
    <3>1. i \in IdsOf(run.page) /\ run.page \in Page /\ run.unchecked \in SUBSET Ids
      BY RunFields DEF PageShape
    <3>2. run.page[i] \in Hash /\ run.page[i] # <<>>
      BY <3>1 DEF IdsOf, Page
    <3> QED
      BY <3>1, <3>2, HashFacts
  <2>4. h \in Hash
    BY <2>3, ReadsShape
  <2> DEFINE m == Remember(run, n, h)
             r == [m EXCEPT !.unchecked = left]
  <2>5. m \in Run /\ m.pc = run.pc /\ \A p : Keeps(m, p) => Keeps(run, p)
    BY <2>3, <2>4, RememberKeeps
  <2>6. run' = NoRun \/ run' = AfterPage(r) \/ run' = r
    BY <2>2
  <2>7. run.pc = "eventBlocks"
    BY <1>6 DEF CheckEventBlock
  <2> HIDE DEF m, left
  <2>8. /\ r \in Run /\ r.base = m.base /\ r.next = m.next /\ r.reset = m.reset
        /\ r.safe = m.safe /\ r.pc = m.pc
    BY ONLY <2>3, <2>5 DEF Run
  <2> HIDE DEF r
  <2>9. Keeps(m, AfterPage(r)) /\ Keeps(m, r)
    BY <2>5, <2>7, <2>8, PhasesKeep DEF Keeps
  <2> QED
    BY <1>1, <1>2, <2>5, <2>6, <2>9
<1>7. CASE RecheckCheckpoint
  <2>1. run' = AfterCheckpoint(run) \/ run' = NoRun
    BY <1>7 DEF RecheckCheckpoint
  <2> QED
    BY <1>1, <1>2, <2>1, PhasesKeep
<1> QED
  BY <1>3, <1>4, <1>5, <1>6, <1>7

\* The last checks move a read on, end it, or finish it on a safe head that is canonical.
LEMMA EndsKeep ==
  Inv /\ (NothingFinal \/ RecheckBoundary \/ RecheckSafeHead) =>
    /\ UNCHANGED onlyReturn
    /\ \/ /\ run' = NoRun \/ run' = [run EXCEPT !.pc = "recheckSafeHead"]
          /\ UNCHANGED <<batch, batchVersion, pendingReset>>
       \/ run.pc = "safeHead" /\ Finish(run, Retained(run))
       \/ /\ run.pc \in Rechecked /\ Canonical(SafeHash(run))
          /\ Finish(run, NextCheckpoint(run))
<1> SUFFICES ASSUME Inv, NothingFinal \/ RecheckBoundary \/ RecheckSafeHead
             PROVE  /\ UNCHANGED onlyReturn
                    /\ \/ /\ run' = NoRun \/ run' = [run EXCEPT !.pc = "recheckSafeHead"]
                          /\ UNCHANGED <<batch, batchVersion, pendingReset>>
                       \/ run.pc = "safeHead" /\ Finish(run, Retained(run))
                       \/ /\ run.pc \in Rechecked /\ Canonical(SafeHash(run))
                          /\ Finish(run, NextCheckpoint(run))
  OBVIOUS
<1> USE InvParts
<1>1. UNCHANGED onlyReturn
  BY DEF NothingFinal, RecheckBoundary, RecheckSafeHead
<1>3. ASSUME Complete(run)
      PROVE  \/ run' = NoRun /\ UNCHANGED <<batch, batchVersion, pendingReset>>
             \/ Finish(run, NextCheckpoint(run))
  BY <1>3 DEF Complete
<1>4. CASE NothingFinal
  BY <1>1, <1>4 DEF NothingFinal
<1>5. CASE RecheckBoundary
  <2>1. PICK h \in Answers(run.to) :
          IF h = run.cache[run.to] /\ run.to = run.safe
            THEN Complete(run)
            ELSE /\ run' = IF h = run.cache[run.to]
                             THEN [run EXCEPT !.pc = "recheckSafeHead"] ELSE NoRun
                 /\ UNCHANGED <<batch, batchVersion, pendingReset>>
    BY <1>5 DEF RecheckBoundary
  <2>2. run.pc \in Rechecked
    BY <1>5 DEF RecheckBoundary, Rechecked
  <2>3. CASE h = run.cache[run.to] /\ run.to = run.safe
    <3>1. Canonical(SafeHash(run))
      BY <2>2, <2>3, SafeHashShape, AnswersShape
    <3> QED
      BY <1>1, <1>3, <2>1, <2>2, <2>3, <3>1
  <2>4. CASE ~(h = run.cache[run.to] /\ run.to = run.safe)
    <3>1. run' = NoRun \/ run' = [run EXCEPT !.pc = "recheckSafeHead"]
      BY <2>1, <2>4
    <3> QED
      BY <1>1, <2>1, <2>4, <3>1
  <2> QED
    BY <2>3, <2>4
<1>6. CASE RecheckSafeHead
  <2>1. PICK h \in Answers(run.safe) :
          IF h = run.cache[run.safe]
            THEN Complete(run)
            ELSE run' = NoRun /\ UNCHANGED <<batch, batchVersion, pendingReset>>
    BY <1>6 DEF RecheckSafeHead
  <2>2. run.pc \in Rechecked
    BY <1>6 DEF RecheckSafeHead, Rechecked
  <2>3. CASE h = run.cache[run.safe]
    <3>1. Canonical(SafeHash(run))
      BY <2>2, <2>3, SafeHashShape, AnswersShape
    <3> QED
      BY <1>1, <1>3, <2>1, <2>2, <2>3, <3>1
  <2> QED
    BY <1>1, <2>1, <2>3
<1> QED
  BY <1>4, <1>5, <1>6


-----------------------------------------------------------------------------
(***************************************************************************)
(* When the nodes that answer are not behind, a batch that would wipe the  *)
(* conversation was earned by a reorganisation under the checkpoint.  The  *)
(* checkpoint block is not the stored one, or is missing, or lies above    *)
(* the safe head; the last two cannot happen, because a checkpoint is as   *)
(* deep as the safe head it was made from and the chain never gets         *)
(* shorter.  And a block that was replaced never comes back, so the reset  *)
(* is still due when the batch is applied, if the checkpoint is the same.  *)
(***************************************************************************)

\* A hash that was a safe head once.
Sunk(h) == h = <<>> \/ (Past(h) /\ Len(h) + ConfirmationDepth <= Len(chain))

\* The stored checkpoint, the one a read resumes from and the ones to come.
CheckpointsSunk ==
  /\ Sunk(checkpoint.at) /\ Sunk(run.base.at) /\ Sunk(run.next.at)
  /\ \A c \in Callers : Sunk(batch[c].next.at)

\* A read resets only what has left the chain.
ResetDue(r) ==
  /\ r.pc = "checkpointBlock" => Len(r.base.at) <= r.safe
  /\ r.reset => Exists(r.base) /\ ~Canonical(r.base.at)

Due == CheckpointsSunk /\ SafeDeep(run) /\ ResetDue(run) /\ ResetIsEarned

\* The chain gets no shorter, whatever it replaces.
LEMMA ChainGrows ==
  ASSUME TypeOK, ChainShape, Mine \/ Reorg
  PROVE  Len(chain') \in Nat /\ Len(chain') >= Len(chain)
<1>1. Len(chain) \in Nat
  BY ChainFacts
<1>2. CASE Mine
  BY <1>1, <1>2, MineShape
<1>3. CASE Reorg
  BY <1>1, <1>3, ReorgShape
<1> QED
  BY <1>2, <1>3

\* So what was a safe head once is still that deep, and once replaced stays replaced.
LEMMA SunkStays ==
  ASSUME TypeOK, ChainShape, Mine \/ Reorg, NEW h \in Hash, Sunk(h)
  PROVE  Sunk(h)' /\ (h # <<>> => (Canonical(h)' => Canonical(h)))
<1>1. /\ Len(chain) \in Nat /\ Len(h) \in Nat /\ Len(chain') \in Nat
      /\ Len(chain') >= Len(chain)
  BY ChainGrows, ChainFacts, HashFacts
<1>2. CASE h = <<>>
  BY <1>2 DEF Sunk
<1>3. CASE h # <<>>
  BY <1>1, <1>3, NeverComesBack, HistoryAssumption DEF Sunk
<1> QED
  BY <1>2, <1>3

\* The checkpoints have hashes.
LEMMA CheckpointHashes ==
  ASSUME Inv
  PROVE  /\ checkpoint.at \in Hash /\ run.base.at \in Hash /\ run.next.at \in Hash
         /\ \A c \in Callers : batch[c].next.at \in Hash
<1> USE InvParts
<1>1. checkpoint.at \in Hash
  BY DEF TypeOK, CheckpointType
<1>2. run.base.at \in Hash /\ run.next.at \in Hash
  BY RunFields DEF CheckpointType
<1>3. \A c \in Callers : batch[c].next.at \in Hash
  BY BatchFields DEF CheckpointType
<1> QED
  BY <1>1, <1>2, <1>3

\* The chain disturbs none of this.
LEMMA ChainKeepsDue == Inv /\ Due /\ (Mine \/ Reorg) => Due'
<1> SUFFICES ASSUME Inv, Due, Mine \/ Reorg PROVE Due'
  OBVIOUS
<1> USE InvParts, CheckpointHashes
<1>1. UNCHANGED <<messages, checkpoint, revision, batchVersion, run, batch>>
  BY DEF Mine, Reorg, memoryVars
<1>2. \A h \in Hash : Sunk(h) => Sunk(h)' /\ (h # <<>> => (Canonical(h)' => Canonical(h)))
  BY SunkStays
<1>3. CheckpointsSunk'
  <2>1. Sunk(checkpoint.at) /\ Sunk(run.base.at) /\ Sunk(run.next.at)
        /\ \A c \in Callers : Sunk(batch[c].next.at)
    BY DEF Due, CheckpointsSunk
  <2> QED
    BY <1>1, <1>2, <2>1 DEF CheckpointsSunk, Sunk, Past
<1>4. SafeDeep(run)'
  <2>1. Len(chain) \in Nat /\ Len(chain') \in Nat /\ Len(chain') >= Len(chain)
        /\ run.safe \in Nat
    BY ChainGrows, ChainFacts, RunFields
  <2> QED
    BY <1>1, <2>1, HistoryAssumption DEF Due, SafeDeep
<1>5. ResetDue(run)'
  <2>1. ResetDue(run) /\ Sunk(run.base.at)
    BY DEF Due, CheckpointsSunk
  <2> QED
    BY <1>1, <1>2, <2>1 DEF ResetDue, Canonical, Exists
<1>6. ResetIsEarned'
  <2> SUFFICES ASSUME NEW c \in Callers, batch[c].active, batch[c].reset, Current(c)
               PROVE  ~Canonical(checkpoint.at)'
    BY <1>1 DEF ResetIsEarned, Current
  <2>1. ~Canonical(checkpoint.at) /\ Sunk(checkpoint.at)
    BY DEF Due, ResetIsEarned, CheckpointsSunk
  <2>2. checkpoint.at # <<>>
    <3>1. IsPrefix(<<>>, chain)
      BY EmptyValues, ChainFacts, PrefixBlocks
    <3> QED
      BY <2>1, <3>1 DEF Canonical
  <2> QED
    BY <1>1, <1>2, <2>1, <2>2 DEF Canonical
<1> QED
  BY <1>3, <1>4, <1>5, <1>6 DEF Due

\* A step that leaves the chain, the checkpoint and the batches, and keeps the read.
LEMMA KeepsDue ==
  ASSUME Inv, Due, UNCHANGED <<chain, reorgs, checkpoint, revision, batchVersion, batch>>,
         run' = run \/ Keeps(run, run')
  PROVE  Due'
<1>1. CheckpointsSunk /\ SafeDeep(run) /\ ResetDue(run) /\ ResetIsEarned
  BY DEF Due
<1>2. ResetIsEarned'
  BY <1>1 DEF ResetIsEarned, Current, Canonical
<1>3. CASE run' = NoRun
  <2>1. run'.base.at = <<>> /\ run'.next.at = <<>> /\ run'.safe = 0 /\ run'.reset = FALSE
        /\ run'.pc = "idle"
    BY <1>3 DEF NoRun, NoCheckpoint
  <2> QED
    BY <1>1, <1>2, <2>1 DEF Due, CheckpointsSunk, Sunk, Past, SafeDeep, ResetDue
<1>4. CASE \/ run' = run
           \/ /\ run'.base = run.base /\ run'.next = run.next /\ run'.reset = run.reset
              /\ run'.safe = run.safe /\ run'.pc # "checkpointBlock"
  BY <1>1, <1>2, <1>4 DEF Due, CheckpointsSunk, Sunk, Past, SafeDeep, ResetDue, Canonical, Exists
<1> QED
  BY <1>3, <1>4 DEF Keeps

\* The safe head of a node that is not behind is no lower than the checkpoint.
LEMMA LatestKeepsDue ==
  ASSUME Inv, Due, Lag = 0, ReadLatest
  PROVE  Due'
<1> USE InvParts, HistoryAssumption
<1>1. /\ Len(chain) \in 1..MaxBlocks /\ run.pc = "latest"
      /\ UNCHANGED <<chain, reorgs, checkpoint, revision, batchVersion, batch>>
  BY ChainFacts DEF ReadLatest, onlyRun, chainVars, memoryVars
<1>2. PICK latest \in Max({1, Len(chain) - Lag})..Len(chain) :
        LET r == [run EXCEPT !.safe = SafeHead(latest)]
        IN run' = IF Exists(run.base) THEN [r EXCEPT !.pc = "checkpointBlock"] ELSE Planned(r)
  BY DEF ReadLatest
<1>3. latest = Len(chain)
  BY <1>1, MaxOfTwo
<1> DEFINE r == [run EXCEPT !.safe = SafeHead(latest)]
<1>4. /\ SafeHead(latest) \in 0..MaxBlocks
      /\ SafeHead(latest) = 0 \/ SafeHead(latest) + ConfirmationDepth <= Len(chain)
      /\ \A n \in Nat : n + ConfirmationDepth <= Len(chain) => n <= SafeHead(latest)
  BY <1>1, <1>3 DEF SafeHead
<1>5. /\ r \in Run /\ r.safe = SafeHead(latest) /\ r.base = run.base /\ r.next = run.next
      /\ r.reset = run.reset
  BY <1>4 DEF Run
<1>6. run' = IF Exists(run.base) THEN [r EXCEPT !.pc = "checkpointBlock"] ELSE Planned(r)
  BY <1>2
<1> HIDE DEF r
<1>7. CASE ~Exists(run.base)
  <2>1. Keeps(r, run')
    BY <1>5, <1>6, <1>7, PhasesKeep
  <2>2. CASE run' = NoRun
    BY <1>1, <2>2, KeepsDue DEF Keeps
  <2>3. CASE run' # NoRun
    <3>1. /\ run'.base = run.base /\ run'.next = run.next /\ run'.reset = run.reset
          /\ run'.safe = SafeHead(latest) /\ run'.pc # "checkpointBlock"
      BY <1>5, <2>1, <2>3 DEF Keeps
    <3> QED
      BY <1>1, <1>4, <3>1 DEF Due, CheckpointsSunk, Sunk, Past, SafeDeep, ResetDue, Canonical,
         Exists, ResetIsEarned, Current
  <2> QED
    BY <2>2, <2>3
<1>8. CASE Exists(run.base)
  <2>1. /\ run'.base = run.base /\ run'.next = run.next /\ run'.reset = run.reset
        /\ run'.safe = SafeHead(latest)
    BY <1>5, <1>6, <1>8 DEF Run
  <2>2. Len(run.base.at) <= SafeHead(latest)
    BY <1>4, <1>8, CheckpointHashes, HashFacts DEF Due, CheckpointsSunk, Sunk, Exists
  <2> QED
    BY <1>1, <1>4, <2>1, <2>2 DEF Due, CheckpointsSunk, Sunk, Past, SafeDeep, ResetDue, Canonical,
       Exists, ResetIsEarned, Current
<1> QED
  BY <1>7, <1>8

\* A node that is not behind answers the canonical block: another hash is a reorganisation.
LEMMA CheckpointBlockKeepsDue ==
  ASSUME Inv, Due, Lag = 0, ReadCheckpointBlock
  PROVE  Due'
<1> USE InvParts, HistoryAssumption
<1> DEFINE n == Len(run.base.at)
<1>1. PICK h \in Answers(n) :
        run' = Planned([Remember(run, n, h) EXCEPT !.reset = ~(h = run.base.at /\ n <= run.safe)])
  BY DEF ReadCheckpointBlock
<1>2. /\ run.pc = "checkpointBlock" /\ Exists(run.base)
      /\ UNCHANGED <<chain, reorgs, checkpoint, revision, batchVersion, batch>>
  BY DEF ReadCheckpointBlock, PhaseShape, onlyRun, chainVars, memoryVars
<1>3. /\ n \in 1..MaxBlocks /\ n <= run.safe /\ n + ConfirmationDepth <= Len(chain)
      /\ run.base.at \in Hash /\ chain \in Hash /\ Len(chain) \in Nat
  BY SMTT(40), <1>2, CheckpointHashes, HashFacts, ChainFacts
     DEF Exists, Due, ResetDue, CheckpointsSunk, Sunk
<1>4. h = SubSeq(chain, 1, n) /\ h \in Hash
  <2>1. n \in 1..Len(chain) /\ ~(n > Len(chain) - Lag)
    BY <1>3
  <2> HIDE DEF n
  <2>2. h = SubSeq(chain, 1, n)
    BY <1>1, <2>1, <1>3 DEF Answers, BlockHash
  <2> QED
    BY <1>3, <2>1, <2>2, BlockHashPrefix
<1>5. h # run.base.at => ~Canonical(run.base.at)
  <2> SUFFICES ASSUME Canonical(run.base.at) PROVE h = run.base.at
    OBVIOUS
  <2>1. Len(h) = n /\ \A k \in 1..n : h[k] = chain[k]
    BY <1>3, <1>4, BlockHashPrefix
  <2>2. \A k \in 1..n : run.base.at[k] = chain[k]
    BY <1>3, PrefixBlocks DEF Canonical
  <2>3. h \in Seq(Block) /\ run.base.at \in Seq(Block)
    BY <1>3, <1>4, HashFacts
  <2> HIDE DEF n
  <2> QED
    BY <2>1, <2>2, <2>3 DEF n
<1> DEFINE m == Remember(run, n, h)
           r == [m EXCEPT !.reset = ~(h = run.base.at /\ n <= run.safe)]
<1>6. /\ m \in Run /\ m.base = run.base /\ m.next = run.next /\ m.safe = run.safe
  <2>1. m \in Run
    BY <1>3, <1>4, RememberKeeps
  <2> QED
    BY <2>1 DEF Remember, Run
<1>7. run' = Planned(r)
  BY <1>1
<1> HIDE DEF m
<1>8. /\ r \in Run /\ r.base = run.base /\ r.next = run.next /\ r.safe = run.safe
      /\ r.reset = ~(h = run.base.at /\ n <= run.safe)
  BY <1>6 DEF Run
<1> HIDE DEF r, n
<1>9. r.reset => ~Canonical(run.base.at)
  BY <1>3, <1>5, <1>8
<1>10. Keeps(r, run')
  BY <1>7, <1>8, PhasesKeep
<1>11. CASE run' = NoRun
  BY <1>2, <1>11, KeepsDue DEF Keeps
<1>12. CASE run' # NoRun
  <2>1. /\ run'.base = run.base /\ run'.next = run.next /\ run'.safe = run.safe
        /\ run'.reset = r.reset /\ run'.pc # "checkpointBlock"
    BY <1>8, <1>10, <1>12 DEF Keeps
  <2> QED
    BY <1>2, <1>9, <2>1 DEF Due, CheckpointsSunk, Sunk, Past, SafeDeep, ResetDue, Canonical,
       Exists, ResetIsEarned, Current
<1> QED
  BY <1>11, <1>12

\* A returned batch resets what its read found replaced.
LEMMA ReturnKeepsDue ==
  ASSUME Inv, Due, UNCHANGED onlyReturn, run.pc # "idle",
         NEW r, r.caller = run.caller, r.reset = run.reset, r.revision = run.revision,
         NEW next, Sunk(next.at), Return(r, next)
  PROVE  Due'
<1> USE InvParts
<1> DEFINE b == [active |-> TRUE, page |-> r.page, reset |-> r.reset, replay |-> r.replay,
                 next |-> next, hasOlder |-> r.hasOlder, revision |-> r.revision]
<1>1. batch' = [batch EXCEPT ![r.caller] = b] /\ run' = NoRun /\ batchVersion' = r.caller
  BY DEF Return
<1>2. b.reset = run.reset /\ b.next = next /\ b.revision = run.revision
  OBVIOUS
<1> HIDE DEF b
<1>3. UNCHANGED <<chain, reorgs, checkpoint, revision>>
  BY DEF onlyReturn, chainVars
<1>4. \A c \in Callers : batch'[c] = IF c = r.caller THEN b ELSE batch[c]
  BY <1>1 DEF TypeOK
<1>5. CheckpointsSunk'
  <2>1. run'.base.at = <<>> /\ run'.next.at = <<>>
    BY <1>1 DEF NoRun, NoCheckpoint
  <2>2. \A c \in Callers : Sunk(batch'[c].next.at)
    BY <1>2, <1>4 DEF Due, CheckpointsSunk
  <2> QED
    BY <1>3, <2>1, <2>2 DEF Due, CheckpointsSunk, Sunk, Past
<1>6. SafeDeep(run)' /\ ResetDue(run)'
  <2>1. run'.safe = 0 /\ run'.reset = FALSE /\ run'.pc = "idle"
    BY <1>1 DEF NoRun
  <2> QED
    BY <2>1 DEF SafeDeep, ResetDue
<1>7. ResetIsEarned'
  <2> SUFFICES ASSUME NEW c \in Callers, batch'[c].active, batch'[c].reset, Current(c)'
               PROVE  ~Canonical(checkpoint.at)'
    BY DEF ResetIsEarned
  <2>1. c = r.caller /\ batch'[c].revision = revision
    BY <1>1, <1>3 DEF Current
  <2>2. run.reset /\ run.revision = revision
    BY <1>2, <1>4, <2>1
  <2>3. Exists(run.base) /\ ~Canonical(run.base.at) /\ run.base = checkpoint
    BY <2>2 DEF Due, ResetDue, Inv, RevisionShape
  <2> QED
    BY <1>3, <2>3 DEF Canonical
<1> QED
  BY <1>5, <1>6, <1>7 DEF Due

\* So does a read that finishes, at once or after the reset of the read cursor.
LEMMA FinishKeepsDue ==
  ASSUME Inv, Due, UNCHANGED onlyReturn, run.pc \notin {"idle", "resetCursor"},
         NEW next, Sunk(next.at), Finish(run, next)
  PROVE  Due'
<1> USE InvParts
<1> DEFINE stored == IF Backed(next, Applied(run.snapshot, run.replay, run.reset, run.page))
                       THEN next ELSE NoCheckpoint
           older == next.first > 1
<1>1. Sunk(stored.at)
  BY DEF Sunk, NoCheckpoint
<1>2. CASE run.reset
  <2>1. run' = [run EXCEPT !.pc = "resetCursor", !.next = stored, !.hasOlder = older]
        /\ UNCHANGED <<batch, batchVersion>>
    BY <1>2 DEF Finish
  <2> HIDE DEF stored, older
  <2>2. /\ run'.base = run.base /\ run'.next = stored /\ run'.reset = run.reset
        /\ run'.safe = run.safe /\ run'.pc # "checkpointBlock"
    BY <2>1 DEF Run
  <2>3. UNCHANGED <<chain, reorgs, checkpoint, revision>>
    BY DEF onlyReturn, chainVars
  <2> QED
    BY <1>1, <2>1, <2>2, <2>3 DEF Due, CheckpointsSunk, Sunk, Past, SafeDeep, ResetDue, Canonical,
       Exists, ResetIsEarned, Current
<1>3. CASE ~run.reset
  <2> DEFINE r == [run EXCEPT !.hasOlder = older]
  <2>1. Return(r, stored)
    BY <1>3 DEF Finish
  <2>2. r.caller = run.caller /\ r.reset = run.reset /\ r.revision = run.revision
    BY DEF Run
  <2> HIDE DEF r, stored
  <2> QED
    BY <1>1, <2>1, <2>2, ReturnKeepsDue
<1> QED
  BY <1>2, <1>3

\* The next checkpoint is the retained one or the safe head.
LEMMA EndsKeepDue ==
  Inv /\ Due /\ (NothingFinal \/ RecheckBoundary \/ RecheckSafeHead \/ ResetCursor) => Due'
<1> SUFFICES ASSUME Inv, Due, NothingFinal \/ RecheckBoundary \/ RecheckSafeHead \/ ResetCursor
             PROVE  Due'
  OBVIOUS
<1> USE InvParts
<1>1. Sunk(Retained(run).at)
  BY DEF Retained, NoCheckpoint, Sunk, Due, CheckpointsSunk
<1>2. CASE ResetCursor
  <2>1. run.pc = "resetCursor" /\ Return(run, run.next) /\ UNCHANGED onlyReturn
    BY <1>2 DEF ResetCursor
  <2>2. Sunk(run.next.at)
    BY DEF Due, CheckpointsSunk
  <2> QED
    BY <2>1, <2>2, ReturnKeepsDue
<1>3. CASE /\ run' = NoRun \/ run' = [run EXCEPT !.pc = "recheckSafeHead"]
           /\ UNCHANGED <<batch, batchVersion, pendingReset>> /\ UNCHANGED onlyReturn
  <2>0. Keeps(run, NoRun) /\ Keeps(run, [run EXCEPT !.pc = "recheckSafeHead"])
    BY PhasesKeep DEF Keeps, Phases
  <2>1. Keeps(run, run')
    BY <1>3, <2>0
  <2> QED
    BY <1>3, <2>1, KeepsDue DEF onlyReturn, chainVars
<1>4. CASE run.pc = "safeHead" /\ Finish(run, Retained(run)) /\ UNCHANGED onlyReturn
  BY <1>1, <1>4, FinishKeepsDue
<1>5. CASE run.pc \in Rechecked /\ Finish(run, NextCheckpoint(run)) /\ UNCHANGED onlyReturn
  <2>1. Sunk(SafeHash(run))
    <3>1. /\ run.safe \in 1..MaxBlocks /\ SafeHash(run) # <<>> /\ SafeHash(run) = run.cache[run.safe]
          /\ Len(SafeHash(run)) = run.safe
      BY <1>5, SafeHashShape
    <3>2. Past(SafeHash(run))
      BY <3>1 DEF CacheShape
    <3> QED
      BY <3>1, <3>2 DEF Due, SafeDeep, Sunk
  <2>2. NextCheckpoint(run).at \in {SafeHash(run), Retained(run).at}
    BY DEF NextCheckpoint, SafeHash
  <2>3. Sunk(NextCheckpoint(run).at)
    BY <1>1, <2>1, <2>2
  <2>4. run.pc \notin {"idle", "resetCursor"}
    BY <1>5 DEF Rechecked
  <2> QED
    BY <1>5, <2>3, <2>4, FinishKeepsDue
<1> QED
  BY <1>2, <1>3, <1>4, <1>5, EndsKeep

\* A batch that is applied is the latest: no other can be applied after it.
LEMMA ApplyKeepsDue ==
  ASSUME Inv, Due, NEW c \in Callers, Apply(c)
  PROVE  Due'
<1> USE InvParts
<1>1. /\ UNCHANGED <<chain, reorgs, run, batchVersion>> /\ batch[c].active
      /\ batch' = [batch EXCEPT ![c] = NoBatch]
  BY DEF Apply, chainVars
<1>2. \A d \in Callers : batch'[d] = IF d = c THEN NoBatch ELSE batch[d]
  BY <1>1 DEF TypeOK
<1>3. checkpoint' = checkpoint \/ checkpoint' = batch[c].next \/ checkpoint' = NoCheckpoint
  BY DEF Apply
<1>4. CheckpointsSunk'
  <2>1. Sunk(checkpoint'.at)
    BY <1>3 DEF Due, CheckpointsSunk, Sunk, NoCheckpoint
  <2>2. \A d \in Callers : Sunk(batch'[d].next.at)
    BY <1>2 DEF Due, CheckpointsSunk, Sunk, NoBatch, NoCheckpoint
  <2> QED
    BY <1>1, <2>1, <2>2 DEF Due, CheckpointsSunk, Sunk, Past
<1>5. SafeDeep(run)' /\ ResetDue(run)'
  BY <1>1 DEF Due, SafeDeep, ResetDue, Canonical, Exists
<1>6. ResetIsEarned'
  <2> SUFFICES ASSUME NEW d \in Callers, batch'[d].active, batch'[d].reset, Current(d)'
               PROVE  ~Canonical(checkpoint.at)'
    BY DEF ResetIsEarned
  <2>1. d # c /\ batch'[d] = batch[d] /\ batchVersion = d
    BY <1>1, <1>2 DEF Current, NoBatch
  <2>2. ~Current(c)
    BY <2>1 DEF Current
  <2>3. UNCHANGED <<checkpoint, revision>>
    BY <2>2 DEF Apply
  <2> QED
    BY <1>1, <2>1, <2>3 DEF Due, ResetIsEarned, Current, Canonical
<1> QED
  BY <1>4, <1>5, <1>6 DEF Due

\* The steps outside a read: a new read, a call, a receipt, a failure.
LEMMA OthersKeepDue ==
  ASSUME Inv, Due,
         \/ ObserveReceipt \/ DeliverReceipt \/ ReadConversation \/ UNCHANGED vars
         \/ \E c \in Callers, older \in BOOLEAN : Ask(c, older)
         \/ \E c \in Callers : Drop(c)
  PROVE  Due'
<1> USE InvParts
<1>1. UNCHANGED <<chain, reorgs, checkpoint, revision, batchVersion>>
  BY DEF ObserveReceipt, DeliverReceipt, ReadConversation, Ask, Drop, vars, chainVars, memoryVars
<1>2. CASE ReadConversation
  <2>1. UNCHANGED batch
    BY <1>2 DEF ReadConversation
  <2>2. /\ run'.base = checkpoint \/ run'.base = NoCheckpoint
        /\ run'.next = NoCheckpoint /\ run'.reset = FALSE /\ run'.safe = 0
        /\ run'.pc = "latest"
    <3> DEFINE call == Head(queue)
               base == IF pendingReset = Nobody /\ Backed(checkpoint, call.snapshot)
                         THEN checkpoint ELSE NoCheckpoint
    <3>1. PICK replay, first, last :
            run' = [NoRun EXCEPT
                      !.pc = "latest", !.caller = call.caller, !.older = call.older,
                      !.snapshot = call.snapshot, !.base = base, !.replay = replay,
                      !.revision = revision, !.count = Sent(chain),
                      !.firstBlock = first, !.lastBlock = last]
      BY <1>2 DEF ReadConversation
    <3> HIDE DEF call
    <3> QED
      BY <3>1 DEF NoRun
  <2> QED
    BY <1>1, <2>1, <2>2 DEF Due, CheckpointsSunk, Sunk, Past, SafeDeep, ResetDue, Canonical, Exists,
       ResetIsEarned, Current, NoCheckpoint
<1>3. ASSUME NEW c \in Callers, Drop(c) PROVE Due'
  <2>1. \/ (run' = run \/ run' = NoRun) /\ batch' = batch
        \/ run' = run /\ batch' = [batch EXCEPT ![c] = NoBatch]
    BY <1>3 DEF Drop
  <2>2. CASE batch' = batch
    BY <1>1, <2>1, <2>2, KeepsDue DEF Keeps, TypeOK
  <2>3. CASE run' = run /\ batch' = [batch EXCEPT ![c] = NoBatch]
    <3>1. \A d \in Callers : batch'[d] = IF d = c THEN NoBatch ELSE batch[d]
      BY <2>3 DEF TypeOK
    <3>2. CheckpointsSunk' /\ ResetIsEarned'
      BY <1>1, <2>3, <3>1 DEF Due, CheckpointsSunk, Sunk, Past, NoBatch, NoCheckpoint,
         ResetIsEarned, Current, Canonical
    <3> QED
      BY <1>1, <2>3, <3>2 DEF Due, SafeDeep, ResetDue, Canonical, Exists
  <2> QED
    BY <2>1, <2>2, <2>3
<1>4. CASE \/ ObserveReceipt \/ DeliverReceipt \/ UNCHANGED vars
           \/ \E c \in Callers, older \in BOOLEAN : Ask(c, older)
  <2>1. run' = run /\ batch' = batch
    BY <1>4 DEF ObserveReceipt, DeliverReceipt, Ask, vars
  <2> QED
    BY <1>1, <2>1, KeepsDue
<1> QED
  BY <1>2, <1>3, <1>4

\* So every reset is due, always.
LEMMA DueHolds ==
  ASSUME Lag = 0
  PROVE  Spec => []Due
<1>1. Init => Due
  BY DEF Init, Due, CheckpointsSunk, Sunk, SafeDeep, ResetDue, ResetIsEarned, NoRun, NoBatch,
     NoCheckpoint
<1>2. Inv /\ Due /\ [Next]_vars => Due'
  <2> SUFFICES ASSUME Inv, Due, [Next]_vars PROVE Due'
    OBVIOUS
  <2>1. CASE Mine \/ Reorg
    BY <2>1, ChainKeepsDue
  <2>2. CASE ReadLatest \/ ReadCheckpointBlock
    BY <2>2, LatestKeepsDue, CheckpointBlockKeepsDue
  <2>3. CASE ReadSafeHead \/ ReadBoundary \/ ReadLogs \/ CheckEventBlock \/ RecheckCheckpoint
    BY <2>3, MiddleKeeps, KeepsDue DEF chainVars, memoryVars
  <2>4. CASE NothingFinal \/ RecheckBoundary \/ RecheckSafeHead \/ ResetCursor
    BY <2>4, EndsKeepDue
  <2>5. ASSUME NEW c \in Callers, Apply(c) PROVE Due'
    BY <2>5, ApplyKeepsDue
  <2>6. CASE \/ ObserveReceipt \/ DeliverReceipt \/ ReadConversation \/ UNCHANGED vars
             \/ \E c \in Callers, older \in BOOLEAN : Ask(c, older)
             \/ \E c \in Callers : Drop(c)
    BY <2>6, OthersKeepDue
  <2> QED
    BY <2>1, <2>2, <2>3, <2>4, <2>5, <2>6 DEF Next, Environment, Read
<1> QED
  BY <1>1, <1>2, InvHolds, PTL DEF Spec

\* A batch that would wipe the conversation and can still be applied was earned by
\* a reorganisation under the stored checkpoint, for every number of callers and
\* reorganisations of any depth, as long as no node that answers is behind.
THEOREM ResetsAreEarned ==
  ASSUME Lag = 0
  PROVE  Spec => []ResetIsEarned
<1>1. Spec => []Due
  BY DueHolds
<1>2. Due => ResetIsEarned
  BY DEF Due
<1> QED
  BY <1>1, <1>2, PTL

-----------------------------------------------------------------------------
(***************************************************************************)
(* Older messages stay reachable, as long as no answer is empty although   *)
(* its window is not: the message below the loaded suffix is in a block at *)
(* or under the older cursor.  A page that starts in the middle of a block *)
(* puts the cursor on that block; an empty page of a window shows that the *)
(* message is under the window, for the chain did not change below the     *)
(* safe head since, and the checkpoint lies on the same chain.             *)
(***************************************************************************)

\* The message below what a checkpoint claims is within reach of its cursor.
Reaches(c) ==
  c.first > 1 =>
    /\ \E n \in 1..Len(c.at) : Holds(c.at, n, c.first - 1)
    /\ \A n \in 1..Len(c.at) : Holds(c.at, n, c.first - 1) => n <= c.olderTo

\* An empty page is of a window without messages that are still to be loaded.
EmptyWindow(r) ==
  r.pc \in Paged /\ r.to # 0 /\ IdsOf(r.page) = {} /\ Canonical(SafeHash(r)) =>
    \A n \in r.from..r.to : \A i \in Ids : i <= ExpectedEnd(r) => ~Holds(SafeHash(r), n, i)

InReach ==
  /\ Reaches(checkpoint) /\ Reaches(run.base) /\ Reaches(run.next)
  /\ \A c \in Callers : Reaches(batch[c].next)
  /\ EmptyWindow(run)

\* Nothing is loaded, so nothing is out of reach.
LEMMA NothingReaches == Reaches(NoCheckpoint)
BY DEF Reaches, NoCheckpoint

\* On the canonical chain the messages are in order: a message is in one block,
\* and the one before it in the same block or under it.
LEMMA MessagesInOrder ==
  ASSUME TypeOK, ChainShape, NEW h \in Hash, Canonical(h)
  PROVE  /\ \A i \in Nat \ {0} : \A m, n \in 1..Len(h) :
              Holds(h, m, i) /\ Holds(h, n, i) => m = n
         /\ \A i \in Nat \ {0} : \A n \in 1..Len(h) :
              Holds(h, n, i + 1) => \E m \in 1..n : Holds(h, m, i)
<1>1. chain \in Hash /\ Len(h) \in Nat /\ Len(chain) \in Nat /\ Len(h) <= Len(chain)
      /\ \A n \in 1..Len(h) : h[n] = chain[n] /\ h[n].count \in Nat
  BY ChainFacts, HashFacts, PrefixBlocks DEF Canonical
<1>2. \A m, n \in 1..Len(h) : m <= n => h[m].count <= h[n].count
  BY <1>1 DEF ChainShape
<1>3. ASSUME NEW i \in Nat \ {0}, NEW i2 \in Nat, i2 >= i, NEW m \in 1..Len(h), NEW n \in 1..Len(h),
             Holds(h, m, i), Holds(h, n, i2)
      PROVE  m <= n
  <2> SUFFICES ASSUME n < m PROVE FALSE
    BY <1>1
  <2>1. m - 1 \in 1..Len(h) /\ n <= m - 1 /\ m - 1 # 0 /\ n # 0
    BY <1>1
  <2>2. h[m - 1].count < i /\ i2 <= h[n].count
    BY <1>3, <2>1 DEF Holds, CountAt
  <2> QED
    BY SMTT(40), <1>1, <1>2, <1>3, <2>1, <2>2
<1>4. ASSUME NEW i \in Nat \ {0}, NEW m \in 1..Len(h), NEW n \in 1..Len(h),
             Holds(h, m, i), Holds(h, n, i)
      PROVE  m = n
  <2>1. m <= n /\ n <= m
    BY <1>3, <1>4
  <2> QED
    BY <1>1, <2>1
<1>5. ASSUME NEW i \in Nat \ {0}, NEW n \in 1..Len(h), Holds(h, n, i + 1)
      PROVE  \E m \in 1..n : Holds(h, m, i)
  <2>1. i \in 1..Sent(h)
    <3>1. i + 1 <= h[n].count /\ Len(h) \in 1..Len(h) /\ n <= Len(h)
      BY <1>1, <1>5 DEF Holds, CountAt
    <3>2. h[n].count <= h[Len(h)].count
      BY <1>2, <3>1
    <3> QED
      BY <1>1, <3>1, <3>2 DEF Sent, CountAt
  <2>2. PICK m \in 1..Len(h) : Holds(h, m, i)
    BY <2>1, BlockOfHolds
  <2>3. m <= n
    BY <1>3, <1>5, <2>2
  <2> QED
    BY <1>1, <2>2, <2>3
<1> QED
  BY <1>4, <1>5

\* The next checkpoint keeps the message below it within reach.
LEMMA NextReaches ==
  ASSUME TypeOK, ChainShape,
         NEW r \in Run, CacheShape(r), RunShape(r), PageOnSafeHead(r), r.pc \in Rechecked,
         Canonical(SafeHash(r)), Reaches(r.base), EmptyWindow(r)
  PROVE  Reaches(NextCheckpoint(r))
<1> DEFINE ids == IdsOf(r.page)
           c == Retained(r)
           S == SafeHash(r)
           next == NextCheckpoint(r)
<1>1. /\ S \in Hash /\ S = r.cache[r.safe] /\ Len(S) = r.safe /\ r.pc \in Paged /\ r.pc \in Reading
      /\ r.safe \in Nat /\ r.to \in Nat /\ r.from \in Nat
      /\ r.count \in Nat /\ c.first \in Nat /\ c.last \in Nat /\ c.at \in Hash
      /\ c.olderTo \in Nat /\ Len(c.at) \in Nat
  BY SMTT(40), SafeHashShape, RetainedFields, RunFields, HashFacts, HistoryAssumption DEF Paged, Reading
<1>2. \A i \in ids : /\ r.page[i] \in Hash /\ IsPrefix(r.page[i], S)
                     /\ Holds(S, Len(r.page[i]), i) /\ Len(r.page[i]) <= r.to
  BY <1>1, PageIds DEF PageOnSafeHead
<1>3. Exists(c) => IsPrefix(c.at, S) /\ c = r.base /\ Len(c.at) <= r.safe /\ c.olderTo <= Len(c.at)
  <2>1. Exists(c) => IsPrefix(c.at, S) /\ c = r.base
    BY RetainedFields DEF PageOnSafeHead
  <2>2. Exists(c) => Len(c.at) <= r.safe /\ c.olderTo <= Len(c.at)
    BY <1>1, <2>1 DEF RunShape, WindowShape, BaseShape
  <2> QED
    BY <2>1, <2>2
<1>4. ~Exists(c) => c = NoCheckpoint
  BY DEF Retained, RunShape, BaseShape
<1>5. Reaches(c)
  BY <1>3, <1>4, NothingReaches
<1>6. ids # {} => /\ Min(ids) \in ids /\ Min(ids) \in 1..MaxMessages
  BY PageIds
<1>7. \A i \in Nat \ {0} : \A m, n \in 1..Len(S) : Holds(S, m, i) /\ Holds(S, n, i) => m = n
  BY <1>1, MessagesInOrder
<1>8. \A i \in Nat \ {0} : \A n \in 1..Len(S) :
        Holds(S, n, i + 1) => \E m \in 1..n : Holds(S, m, i)
  BY <1>1, MessagesInOrder
<1>9. Exists(c) => \A i \in Nat : \A n \in 1..Len(c.at) : Holds(c.at, n, i) <=> Holds(S, n, i)
  BY <1>1, <1>3, HoldsInPrefix
<1> SUFFICES Reaches(next)
  OBVIOUS
<1> HIDE DEF ids, c, S, next
<1>10. CASE /\ next.at = S /\ next.first = c.first
            /\ Exists(c) => next.olderTo = c.olderTo
  <2> SUFFICES ASSUME c.first > 1 PROVE Reaches(next)
    BY <1>10 DEF Reaches
  <2>1. Exists(c)
    BY <1>4 DEF NoCheckpoint
  <2>2. PICK m \in 1..Len(c.at) : Holds(c.at, m, c.first - 1) /\ m <= c.olderTo
    BY <1>5 DEF Reaches
  <2>3. m \in 1..Len(S) /\ Holds(S, m, c.first - 1) /\ c.first - 1 \in Nat \ {0}
    BY <1>1, <1>3, <1>9, <2>1, <2>2
  <2>4. \A n \in 1..Len(S) : Holds(S, n, c.first - 1) => n <= c.olderTo
    BY <1>7, <2>2, <2>3
  <2> QED
    BY <1>10, <2>1, <2>3, <2>4 DEF Reaches
<1>11. CASE /\ ids # {} /\ next.first = Min(ids) /\ next.olderTo = Len(r.page[Min(ids)])
            /\ \/ next.at = S
               \/ next.at = c.at /\ Exists(c) /\ r.to <= Len(c.at)
  <2> DEFINE i == Min(ids)
             k == Len(r.page[i])
  <2> SUFFICES ASSUME i > 1 PROVE Reaches(next)
    BY <1>11 DEF Reaches
  <2>1. k \in 1..Len(S) /\ Holds(S, k, i) /\ k <= r.to /\ i - 1 \in Nat \ {0}
    BY <1>2, <1>6, <1>11 DEF Holds
  <2> HIDE DEF i, k
  <2>2. i \in Nat
    BY <1>6, <1>11 DEF i
  <2>3. PICK m \in 1..k : Holds(S, m, i - 1)
    <3>1. Holds(S, k, (i - 1) + 1)
      BY <2>1, <2>2
    <3> QED
      BY <1>8, <2>1, <3>1
  <2>4. m \in 1..Len(S)
    BY <1>1, <2>1
  <2>5. \A n \in 1..Len(S) : Holds(S, n, i - 1) => n <= k
    <3>1. \A n \in 1..Len(S) : Holds(S, n, i - 1) => n = m
      BY <1>7, <2>1, <2>3, <2>4
    <3> QED
      BY <1>1, <2>1, <2>3, <3>1
  <2>6. next.first = i /\ next.olderTo = k
    BY <1>11 DEF i, k
  <2>7. CASE next.at = S
    BY <2>3, <2>4, <2>5, <2>6, <2>7 DEF Reaches
  <2>8. CASE next.at = c.at /\ Exists(c) /\ r.to <= Len(c.at)
    <3>1. m \in 1..Len(c.at) /\ Len(c.at) <= Len(S)
      BY <1>1, <1>3, <2>1, <2>8
    <3>2. Holds(c.at, m, i - 1)
      BY <1>9, <2>1, <2>3, <2>8, <3>1
    <3>3. \A n \in 1..Len(c.at) : Holds(c.at, n, i - 1) => n <= k
      BY <1>1, <1>9, <2>1, <2>5, <2>8, <3>1
    <3> QED
      BY <2>6, <2>8, <3>1, <3>2, <3>3 DEF Reaches
  <2> QED
    BY <1>11, <2>7, <2>8
<1>12. CASE /\ ids = {} /\ r.to # 0 /\ Older(r)
            /\ next.at = c.at /\ next.first = c.first /\ next.olderTo = r.from - 1
  <2> SUFFICES ASSUME c.first > 1 PROVE Reaches(next)
    BY <1>12 DEF Reaches
  <2>1. /\ Exists(c) /\ ExpectedEnd(r) = c.first - 1 /\ r.to = c.olderTo /\ r.from >= 1
        /\ c.first - 1 \in Ids
    <3>1. Exists(c) /\ ExpectedEnd(r) = c.first - 1
      BY <1>12 DEF Older, ExpectedEnd, c
    <3>2. r.to = c.olderTo /\ r.from >= 1
      BY <1>3, <1>12, <3>1 DEF RunShape, WindowShape
    <3>3. c.first \in 1..(MaxMessages + 1)
      BY RetainedFields DEF c
    <3> QED
      BY <3>1, <3>2, <3>3, HistoryAssumption DEF Ids
  <2>2. \A n \in r.from..r.to : ~Holds(S, n, c.first - 1)
    <3>1. \A n \in r.from..r.to : \A i \in Ids : i <= ExpectedEnd(r) => ~Holds(S, n, i)
      BY <1>1, <1>12 DEF EmptyWindow, S, ids
    <3> QED
      BY <1>1, <2>1, <3>1
  <2>3. \A n \in 1..Len(c.at) : Holds(c.at, n, c.first - 1) => n <= r.to
    BY <1>5, <2>1 DEF Reaches
  <2>4. \A n \in 1..Len(c.at) : Holds(c.at, n, c.first - 1) => n <= r.from - 1
    <3> SUFFICES ASSUME NEW n \in 1..Len(c.at), Holds(c.at, n, c.first - 1), n > r.from - 1
                 PROVE  FALSE
      BY <1>1
    <3>0. c.first - 1 \in Nat /\ Exists(c)
      BY <2>1 DEF Ids
    <3>1. Holds(S, n, c.first - 1)
      BY ONLY <1>9, <3>0, Holds(c.at, n, c.first - 1), n \in 1..Len(c.at)
    <3>2. n \in r.from..r.to
      BY <1>1, <2>3
    <3> QED
      BY <2>2, <3>1, <3>2
  <2>5. \E n \in 1..Len(c.at) : Holds(c.at, n, c.first - 1)
    BY <1>5 DEF Reaches
  <2> QED
    BY <1>12, <2>4, <2>5 DEF Reaches
<1>13. CASE r.to = 0
  <2>1. next.at = S /\ next.first = c.first /\ (Exists(c) => next.olderTo = c.olderTo)
    BY <1>1, <1>13 DEF NextCheckpoint, next, S, c
  <2> QED
    BY <1>10, <2>1
<1>14. CASE r.to # 0
  <2>1. /\ next.at = IF Older(r) THEN c.at ELSE S
        /\ next.first = IF Joins(r) \/ ids = {} THEN c.first ELSE Min(ids)
        /\ next.olderTo = CASE Joins(r) -> c.olderTo
                            [] ~Joins(r) /\ ids # {} -> Len(r.page[Min(ids)])
                            [] OTHER -> r.from - 1
    BY <1>1, <1>14 DEF NextCheckpoint, FirstLoaded, OlderCursor, next, S, c, ids
  <2>2. Joins(r) => ~Older(r)
    BY DEF Joins
  <2>3. Older(r) \/ ids # {}
    BY <1>1, <1>14 DEF RunShape, PageShape, ids
  <2>4. Older(r) => Exists(c) /\ r.to <= Len(c.at)
    <3> SUFFICES ASSUME Older(r) PROVE Exists(c) /\ r.to <= Len(c.at)
      OBVIOUS
    <3>1. Exists(c)
      BY DEF Older, c
    <3>2. r.to = r.base.olderTo
      BY <1>14 DEF RunShape, WindowShape
    <3> QED
      BY <1>3, <3>1, <3>2
  <2>5. CASE Joins(r)
    BY <1>10, <2>1, <2>2, <2>5
  <2>6. CASE ~Joins(r) /\ ids # {}
    BY <1>11, <2>1, <2>4, <2>6
  <2>7. CASE ~Joins(r) /\ ids = {}
    <3>1. Older(r)
      BY <2>3, <2>7
    <3>2. next.olderTo = r.from - 1 /\ next.at = c.at /\ next.first = c.first
      BY <2>1, <2>7, <3>1
    <3> QED
      BY <1>12, <1>14, <2>7, <3>1, <3>2
  <2> QED
    BY <2>5, <2>6, <2>7
<1> QED
  BY <1>13, <1>14

\* The chain moves no checkpoint, and a safe head that leaves it does not come back.
LEMMA ChainKeepsReach == Inv /\ InReach /\ (Mine \/ Reorg) => InReach'
<1> SUFFICES ASSUME Inv, InReach, Mine \/ Reorg PROVE InReach'
  OBVIOUS
<1> USE InvParts
<1>1. UNCHANGED <<checkpoint, run, batch>>
  BY DEF Mine, Reorg, memoryVars
<1>2. EmptyWindow(run)'
  <2>1. CASE run.pc \in Paged
    <3>1. run.pc \in Reading
      BY <2>1 DEF Reading
    <3>2. run.safe \in 1..MaxBlocks /\ SafeHash(run) # <<>>
      BY <3>1, RunFields DEF WindowShape
    <3>3. SafeHash(run) \in Hash /\ Past(SafeHash(run))
      BY <3>2, RunFields DEF SafeHash, CacheShape
    <3>4. \A h \in Hash : Past(h) => (Canonical(h)' => Canonical(h))
      BY NeverComesBack
    <3>5. Canonical(SafeHash(run))' => Canonical(SafeHash(run))
      BY <1>1, <3>3, <3>4 DEF SafeHash, Canonical
    <3>6. SafeHash(run)' = SafeHash(run) /\ ExpectedEnd(run)' = ExpectedEnd(run)
      BY <1>1 DEF SafeHash, ExpectedEnd, Older, Retained
    <3> QED
      BY <1>1, <3>5, <3>6 DEF InReach, EmptyWindow, Holds, CountAt
  <2>2. CASE run.pc \notin Paged
    BY <1>1, <2>2 DEF EmptyWindow
  <2> QED
    BY <2>1, <2>2
<1> QED
  BY <1>1, <1>2 DEF InReach, Reaches, Holds, CountAt

\* A step that leaves the chain, the checkpoint and the batches.
LEMMA KeepsReach ==
  ASSUME Inv, InReach, UNCHANGED <<chain, checkpoint, batch>>,
         Keeps(run, run'), EmptyWindow(run')
  PROVE  InReach'
<1>1. Reaches(run'.base) /\ Reaches(run'.next)
  <2>1. CASE run' = NoRun
    <3>1. run'.base = NoCheckpoint /\ run'.next = NoCheckpoint
      BY <2>1 DEF NoRun
    <3> QED
      BY <3>1, NothingReaches
  <2>2. CASE run'.base = run.base /\ run'.next = run.next
    BY <2>2 DEF InReach
  <2> QED
    BY <2>1, <2>2 DEF Keeps
<1>2. EmptyWindow(run)'
  BY DEF EmptyWindow, Canonical, SafeHash, ExpectedEnd, Older, Retained, Holds, CountAt
<1> QED
  BY <1>1, <1>2 DEF InReach, Reaches, Holds, CountAt

\* A read with no page yet, or none any more, has no window.
LEMMA NoWindow ==
  ASSUME NEW r, r.pc \notin Paged \/ r.to = 0 \/ IdsOf(r.page) # {}
  PROVE  EmptyWindow(r)
BY DEF EmptyWindow

\* Up to the logs there is no page.
LEMMA BlocksKeepReach ==
  Inv /\ InReach /\ (ReadLatest \/ ReadCheckpointBlock \/ ReadSafeHead \/ ReadBoundary) => InReach'
<1> SUFFICES ASSUME Inv, InReach,
                    ReadLatest \/ ReadCheckpointBlock \/ ReadSafeHead \/ ReadBoundary
             PROVE  InReach'
  OBVIOUS
<1> USE InvParts
<1>1. UNCHANGED <<chain, checkpoint, batch>>
  BY DEF ReadLatest, ReadCheckpointBlock, ReadSafeHead, ReadBoundary, onlyRun, chainVars, memoryVars
<1>2. EmptyWindow(NoRun)
  BY NoWindow DEF NoRun, Paged, Rechecked
<1>3. \A r \in Run : Planned(r) = NoRun \/ (Planned(r).pc = "safeHead" /\ Planned(r).base = r.base
                                              /\ Planned(r).next = r.next)
  BY DEF Planned, Window, Run
<1>4. CASE ReadLatest
  <2>1. PICK latest \in Max({1, Len(chain) - Lag})..Len(chain) :
          LET r == [run EXCEPT !.safe = SafeHead(latest)]
          IN run' = IF Exists(run.base) THEN [r EXCEPT !.pc = "checkpointBlock"] ELSE Planned(r)
    BY <1>4 DEF ReadLatest
  <2>2. SafeHead(latest) \in 0..MaxBlocks
    <3>0. Len(chain) - Lag \in Int
      BY ChainFacts, HistoryAssumption
    <3>1. Max({1, Len(chain) - Lag}) \in Int /\ Max({1, Len(chain) - Lag}) >= 1
      BY ONLY <3>0, MaxOfTwo
    <3>2. latest \in 1..Len(chain)
      BY <2>1, <3>1
    <3> QED
      BY <3>2, ChainFacts, HistoryAssumption DEF SafeHead
  <2> DEFINE r == [run EXCEPT !.safe = SafeHead(latest)]
  <2>3. r \in Run /\ r.base = run.base /\ r.next = run.next
    BY <2>2 DEF Run
  <2>4. run' = [r EXCEPT !.pc = "checkpointBlock"] \/ run' = Planned(r)
    BY <2>1
  <2> HIDE DEF r
  <2>5. CASE run' = NoRun
    BY <1>1, <1>2, <2>5, KeepsReach DEF Keeps
  <2>6. CASE run' # NoRun
    <3>1. run'.pc \in {"safeHead", "checkpointBlock"} /\ run'.base = run.base /\ run'.next = run.next
      BY <1>3, <2>3, <2>4, <2>6 DEF Run
    <3>2. EmptyWindow(run)'
      BY <3>1 DEF EmptyWindow, Paged, Rechecked
    <3> QED
      BY <1>1, <3>1, <3>2 DEF InReach, Reaches, Holds, CountAt
  <2> QED
    BY <2>5, <2>6
<1>5. CASE ReadCheckpointBlock
  <2> DEFINE n == Len(run.base.at)
  <2>1. PICK h \in Answers(n) :
          run' = Planned([Remember(run, n, h) EXCEPT !.reset = ~(h = run.base.at /\ n <= run.safe)])
    BY <1>5 DEF ReadCheckpointBlock
  <2>2. n \in 1..MaxBlocks
    BY <1>5, RunFields, HashFacts DEF ReadCheckpointBlock, PhaseShape, Exists
  <2>3. h \in Hash
    BY <2>2, AnswersShape
  <2> DEFINE m == Remember(run, n, h)
             r == [m EXCEPT !.reset = ~(h = run.base.at /\ n <= run.safe)]
  <2>4. m \in Run /\ m.base = run.base /\ m.next = run.next
    <3>1. m \in Run
      BY <2>2, <2>3, RememberKeeps
    <3> QED
      BY <3>1 DEF Remember, Run
  <2>5. run' = Planned(r)
    BY <2>1
  <2> HIDE DEF m, n
  <2>6. r \in Run /\ r.base = run.base /\ r.next = run.next
    BY <2>4 DEF Run
  <2> HIDE DEF r
  <2>7. CASE run' = NoRun
    BY <1>1, <1>2, <2>7, KeepsReach DEF Keeps
  <2>8. CASE run' # NoRun
    <3>1. run'.pc = "safeHead" /\ run'.base = run.base /\ run'.next = run.next
      BY <1>3, <2>5, <2>6, <2>8
    <3>2. EmptyWindow(run)'
      BY <3>1 DEF EmptyWindow, Paged, Rechecked
    <3> QED
      BY <1>1, <3>1, <3>2 DEF InReach, Reaches, Holds, CountAt
  <2> QED
    BY <2>7, <2>8
<1>6. CASE ReadSafeHead
  <2>1. PICK h \in Reads(run, run.safe) :
          LET r == Remember(run, run.safe, h) IN
            \/ run' = NoRun
            \/ run' = AfterPage([r EXCEPT !.from = 0, !.to = 0])
            \/ run' = [r EXCEPT !.pc = "boundary"]
    BY <1>6 DEF ReadSafeHead
  <2> DEFINE m == Remember(run, run.safe, h)
  <2>2. PICK q : q = [m EXCEPT !.from = 0, !.to = 0]
    OBVIOUS
  <2>3. run' = NoRun \/ run' = AfterPage(q) \/ run' = [m EXCEPT !.pc = "boundary"]
    BY <2>1, <2>2
  <2>4. AfterPage(q).to = 0 /\ [m EXCEPT !.pc = "boundary"].pc = "boundary"
    BY <2>2 DEF Remember, AfterPage, AfterCheckpoint, Run
  <2> HIDE DEF m
  <2>5. EmptyWindow(run')
    BY <1>2, <2>3, <2>4, NoWindow DEF Paged, Rechecked
  <2> QED
    BY <1>1, <1>6, <2>5, MiddleKeeps, KeepsReach
<1>7. CASE ReadBoundary
  <2>1. PICK h \in Reads(run, run.to) :
          run' = IF h = <<>> THEN NoRun ELSE [Remember(run, run.to, h) EXCEPT !.pc = "logs"]
    BY <1>7 DEF ReadBoundary
  <2>2. run' = NoRun \/ run'.pc = "logs"
    BY <2>1 DEF Remember, Run
  <2>3. EmptyWindow(run')
    BY <1>2, <2>2, NoWindow DEF Paged, Rechecked
  <2> QED
    BY <1>1, <1>7, <2>3, MiddleKeeps, KeepsReach
<1> QED
  BY <1>4, <1>5, <1>6, <1>7

\* Every answer of a window is whole or holds something the read is after: an empty
\* page says that the window, on the chain of the safe head, has nothing of it.
LEMMA LogsKeepReach ==
  ASSUME Inv, InReach, EmptyAnswers = FALSE, ReadLogs
  PROVE  InReach'
<1> USE InvParts
<1> DEFINE window == {i \in Ids : \E n \in run.from..run.to : Holds(chain, n, i)}
           Kept(answer) == IF Older(run) THEN answer \cap 1..ExpectedEnd(run) ELSE answer
           Collected(ids) == [i \in Ids |-> IF i \in ids THEN MessageAt(chain, i) ELSE <<>>]
           Got(ids) == [run EXCEPT !.unchecked = ids, !.page = Collected(ids)]
<1>1. PICK answer \in SUBSET window :
        /\ answer # window => (Kept(answer) = {} => EmptyAnswers)
        /\ \/ run' = NoRun
           \/ Kept(answer) = {} /\ run' = AfterPage(Got(Kept(answer)))
           \/ Kept(answer) # {} /\ run' = [Got(Kept(answer)) EXCEPT !.pc = "eventBlocks"]
  BY DEF ReadLogs
<1>2. run.pc = "logs" /\ run.pc \in Reading /\ UNCHANGED <<chain, checkpoint, batch>>
  BY DEF ReadLogs, Reading, chainVars, memoryVars
<1>3. /\ run.safe \in 1..MaxBlocks /\ SafeHash(run) \in Hash /\ Len(SafeHash(run)) = run.safe
      /\ run.to \in 1..run.safe /\ run.from \in 1..MaxBlocks
  <2>1. run.to # 0 /\ run.safe >= 1 /\ SafeHash(run) # <<>>
    BY <1>2 DEF PhaseShape, WindowShape
  <2>2. run.from >= 1 /\ run.to <= run.safe
    BY <2>1 DEF WindowShape
  <2>3. run.safe \in 1..MaxBlocks /\ run.to \in 1..run.safe /\ run.from \in 1..MaxBlocks
    BY <2>1, <2>2, RunFields
  <2>4. SafeHash(run) \in Hash /\ Len(SafeHash(run)) = run.safe
    BY <2>1, <2>3, RunFields DEF SafeHash, CacheShape
  <2> QED
    BY <2>3, <2>4
<1> DEFINE ids == Kept(answer)
           page == Collected(ids)
<1>4. ids \subseteq Ids /\ \A i \in ids : \E n \in run.from..run.to : Holds(chain, n, i)
  OBVIOUS
<1>5. run' = NoRun \/ run' = AfterPage(Got(ids)) \/ run' = [Got(ids) EXCEPT !.pc = "eventBlocks"]
  BY <1>1
<1>6. ids = {} => \A i \in Ids : i <= ExpectedEnd(run) =>
                    \A n \in run.from..run.to : ~Holds(chain, n, i)
  <2> SUFFICES ASSUME ids = {}, NEW i \in Ids, i <= ExpectedEnd(run),
                      NEW n \in run.from..run.to, Holds(chain, n, i)
               PROVE  FALSE
    OBVIOUS
  <2>1. answer = window
    BY <1>1
  <2>2. i \in answer /\ i \in 1..ExpectedEnd(run)
    <3>1. ExpectedEnd(run) \in Nat
      BY ExpectedEndNat, HistoryAssumption
    <3> QED
      BY <2>1, <3>1 DEF Ids
  <2> QED
    BY <2>2
<1>7. \A i \in ids : MessageAt(chain, i) # <<>>
  BY <1>4, <1>3, MessageAtShape
<1> HIDE DEF ids
<1>8. IdsOf(page) = ids
  BY <1>4, <1>7 DEF IdsOf
<1> HIDE DEF page
<1>9. PICK r : r = [run EXCEPT !.unchecked = ids, !.page = page]
  OBVIOUS
<1>10. run' = NoRun \/ run' = AfterPage(r) \/ run' = [r EXCEPT !.pc = "eventBlocks"]
  BY <1>5, <1>9 DEF page
<1>11. run' # NoRun =>
         /\ run'.page = page /\ run'.from = run.from /\ run'.to = run.to /\ run'.safe = run.safe
         /\ run'.cache = run.cache /\ run'.base = run.base /\ run'.reset = run.reset
         /\ run'.older = run.older /\ run'.count = run.count
  BY <1>9, <1>10 DEF AfterPage, AfterCheckpoint, Run
<1>12. CASE run' = NoRun
  <2>1. EmptyWindow(run')
    BY <1>12, NoWindow DEF NoRun, Paged, Rechecked
  <2> QED
    BY <1>2, <1>12, <2>1, KeepsReach DEF Keeps
<1>13. CASE run' # NoRun /\ ids # {}
  <2>1. EmptyWindow(run')
    BY <1>8, <1>11, <1>13, NoWindow
  <2> QED
    BY <1>2, <2>1, MiddleKeeps, KeepsReach
<1>14. CASE run' # NoRun /\ ids = {}
  <2>1. ExpectedEnd(run') = ExpectedEnd(run) /\ SafeHash(run') = SafeHash(run)
    BY <1>11, <1>14 DEF ExpectedEnd, Older, Retained, SafeHash
  <2>2. ASSUME Canonical(SafeHash(run)), NEW n \in run.from..run.to, NEW i \in Ids,
               i <= ExpectedEnd(run)
        PROVE  ~Holds(SafeHash(run), n, i)
    <3>1. ~Holds(chain, n, i)
      BY <1>6, <1>14, <2>2
    <3>2. n \in Nat /\ n <= Len(SafeHash(run)) /\ i \in Nat
      BY <1>3 DEF Ids
    <3> QED
      BY <1>3, <2>2, <3>1, <3>2, ChainFacts, HoldsInPrefix DEF Canonical
  <2>3. EmptyWindow(run')
    BY <1>11, <1>14, <2>1, <2>2 DEF EmptyWindow
  <2> QED
    BY <1>2, <2>3, MiddleKeeps, KeepsReach
<1> QED
  BY <1>12, <1>13, <1>14

\* A phase that follows the page has its window.
LEMMA PhaseWindow ==
  ASSUME NEW r \in Run, EmptyWindow(r), r.pc \in Paged,
         NEW phase \in Phases, NEW q, q = [r EXCEPT !.pc = phase]
  PROVE  EmptyWindow(q)
<1>1. /\ q.page = r.page /\ q.from = r.from /\ q.to = r.to
      /\ ExpectedEnd(q) = ExpectedEnd(r) /\ SafeHash(q) = SafeHash(r)
  BY NewPhase
<1> QED
  BY <1>1 DEF EmptyWindow

\* The event blocks are those of a page that is not empty; the checkpoint's block
\* changes nothing.
LEMMA ChecksKeepReach ==
  Inv /\ InReach /\ (CheckEventBlock \/ RecheckCheckpoint) => InReach'
<1> SUFFICES ASSUME Inv, InReach, CheckEventBlock \/ RecheckCheckpoint PROVE InReach'
  OBVIOUS
<1> USE InvParts
<1>1. UNCHANGED <<chain, checkpoint, batch>>
  BY DEF CheckEventBlock, RecheckCheckpoint, onlyRun, chainVars, memoryVars
<1>2. EmptyWindow(NoRun)
  BY NoWindow DEF NoRun, Paged, Rechecked
<1>3. CASE CheckEventBlock
  <2>0. PICK i \in run.unchecked : \E h \in Reads(run, Len(run.page[i])) :
          LET r == [Remember(run, Len(run.page[i]), h) EXCEPT !.unchecked = run.unchecked \ {i}]
          IN run' = NoRun \/ run' = AfterPage(r) \/ run' = r
    BY <1>3 DEF CheckEventBlock
  <2>1. PICK h \in Reads(run, Len(run.page[i])) :
          LET r == [Remember(run, Len(run.page[i]), h) EXCEPT !.unchecked = run.unchecked \ {i}]
          IN run' = NoRun \/ run' = AfterPage(r) \/ run' = r
    BY <2>0
  <2>2. IdsOf(run.page) # {}
    BY <2>0 DEF PageShape
  <2>3. PICK r : r = [Remember(run, Len(run.page[i]), h) EXCEPT !.unchecked = run.unchecked \ {i}]
    OBVIOUS
  <2>4. r.page = run.page /\ AfterPage(r).page = run.page
    BY <2>3 DEF Remember, AfterPage, AfterCheckpoint, Run
  <2>5. EmptyWindow(run')
    BY <1>2, <2>1, <2>2, <2>3, <2>4, NoWindow
  <2> QED
    BY <1>1, <1>3, <2>5, MiddleKeeps, KeepsReach
<1>4. CASE RecheckCheckpoint
  <2>1. run.pc = "recheckCheckpoint" /\ (run' = AfterCheckpoint(run) \/ run' = NoRun)
    BY <1>4 DEF RecheckCheckpoint
  <2>2. run.pc \in Paged /\ EmptyWindow(run)
    BY <2>1 DEF Paged, InReach
  <2>3. PICK phase \in Phases : AfterCheckpoint(run) = [run EXCEPT !.pc = phase]
    BY DEF AfterCheckpoint, Phases
  <2>4. EmptyWindow(run')
    BY <1>2, <2>1, <2>2, <2>3, PhaseWindow
  <2> QED
    BY <1>1, <1>4, <2>4, MiddleKeeps, KeepsReach
<1> QED
  BY <1>3, <1>4

\* A batch whose checkpoint keeps reach is returned.
LEMMA ReturnKeepsReach ==
  ASSUME Inv, InReach, UNCHANGED onlyReturn,
         NEW r, r.caller = run.caller, NEW next, Reaches(next), Return(r, next)
  PROVE  InReach'
<1> USE InvParts
<1> DEFINE b == [active |-> TRUE, page |-> r.page, reset |-> r.reset, replay |-> r.replay,
                 next |-> next, hasOlder |-> r.hasOlder, revision |-> r.revision]
<1>1. batch' = [batch EXCEPT ![r.caller] = b] /\ run' = NoRun
  BY DEF Return
<1>2. b.next = next
  OBVIOUS
<1> HIDE DEF b
<1>3. \A c \in Callers : Reaches(batch'[c].next)
  BY <1>1, <1>2 DEF TypeOK, InReach
<1>4. Reaches(run'.base) /\ Reaches(run'.next) /\ run'.pc = "idle"
  <2>1. run'.base = NoCheckpoint /\ run'.next = NoCheckpoint /\ run'.pc = "idle"
    BY <1>1 DEF NoRun
  <2> QED
    BY <2>1, NothingReaches
<1>5. EmptyWindow(run)'
  BY <1>4 DEF EmptyWindow, Paged, Rechecked
<1>6. Reaches(checkpoint)'
  BY DEF onlyReturn, InReach, Reaches, Holds, CountAt
<1> QED
  BY <1>3, <1>4, <1>5, <1>6 DEF InReach, Reaches, Holds, CountAt

\* So does the end of a read.
LEMMA FinishKeepsReach ==
  ASSUME Inv, InReach, UNCHANGED onlyReturn, NEW next, Reaches(next), Finish(run, next)
  PROVE  InReach'
<1> USE InvParts
<1> DEFINE stored == IF Backed(next, Applied(run.snapshot, run.replay, run.reset, run.page))
                       THEN next ELSE NoCheckpoint
           older == next.first > 1
<1>1. Reaches(stored)
  BY NothingReaches
<1>2. CASE run.reset
  <2>1. run' = [run EXCEPT !.pc = "resetCursor", !.next = stored, !.hasOlder = older]
        /\ batch' = batch
    BY <1>2 DEF Finish
  <2> HIDE DEF stored, older
  <2>2. run'.base = run.base /\ run'.next = stored /\ run'.pc = "resetCursor"
    BY <2>1 DEF Run
  <2>3. EmptyWindow(run)'
    BY <2>2 DEF EmptyWindow, Paged, Rechecked
  <2> QED
    <3>1. Reaches(checkpoint)' /\ Reaches(run.base)'
      BY <2>2 DEF onlyReturn, InReach, Reaches, Holds, CountAt
    <3>2. Reaches(run.next)'
      BY <1>1, <2>2 DEF Reaches, Holds, CountAt
    <3>3. \A c \in Callers : Reaches(batch[c].next)'
      BY <2>1 DEF InReach, Reaches, Holds, CountAt
    <3> QED
      BY <2>3, <3>1, <3>2, <3>3 DEF InReach
<1>3. CASE ~run.reset
  <2> DEFINE r == [run EXCEPT !.hasOlder = older]
  <2>1. Return(r, stored)
    BY <1>3 DEF Finish
  <2>2. r.caller = run.caller
    BY DEF Run
  <2> HIDE DEF r, stored
  <2> QED
    BY <1>1, <2>1, <2>2, ReturnKeepsReach
<1> QED
  BY <1>2, <1>3

\* What the last checks return keeps reach.
LEMMA EndsKeepReach ==
  Inv /\ InReach /\ (NothingFinal \/ RecheckBoundary \/ RecheckSafeHead \/ ResetCursor) => InReach'
<1> SUFFICES ASSUME Inv, InReach,
                    NothingFinal \/ RecheckBoundary \/ RecheckSafeHead \/ ResetCursor
             PROVE  InReach'
  OBVIOUS
<1> USE InvParts
<1>1. CASE ResetCursor
  <2>1. Return(run, run.next) /\ UNCHANGED onlyReturn
    BY <1>1 DEF ResetCursor
  <2>2. Reaches(run.next)
    BY DEF InReach
  <2> QED
    BY <2>1, <2>2, ReturnKeepsReach
<1>2. CASE /\ run' = NoRun \/ run' = [run EXCEPT !.pc = "recheckSafeHead"]
           /\ UNCHANGED <<batch, batchVersion, pendingReset>> /\ UNCHANGED onlyReturn
           /\ run.pc \in Paged
  <2>1. Keeps(run, NoRun) /\ Keeps(run, [run EXCEPT !.pc = "recheckSafeHead"])
    BY PhasesKeep DEF Keeps, Phases
  <2>2. EmptyWindow(NoRun)
    BY NoWindow DEF NoRun, Paged, Rechecked
  <2>3. EmptyWindow([run EXCEPT !.pc = "recheckSafeHead"])
    BY <1>2, PhaseWindow DEF InReach, Phases
  <2>4. Keeps(run, run') /\ EmptyWindow(run')
    BY <1>2, <2>1, <2>2, <2>3
  <2> QED
    BY <1>2, <2>4, KeepsReach DEF onlyReturn, chainVars
<1>3. CASE Finish(run, Retained(run)) /\ UNCHANGED onlyReturn
  <2>1. Reaches(Retained(run))
    BY NothingReaches DEF Retained, InReach
  <2> QED
    BY <1>3, <2>1, FinishKeepsReach
<1>4. CASE /\ run.pc \in Rechecked /\ Canonical(SafeHash(run))
           /\ Finish(run, NextCheckpoint(run)) /\ UNCHANGED onlyReturn
  <2>1. Reaches(NextCheckpoint(run))
    BY <1>4, NextReaches DEF InReach
  <2> QED
    BY <1>4, <2>1, FinishKeepsReach
<1>5. RecheckBoundary \/ RecheckSafeHead => run.pc \in Paged
  BY DEF RecheckBoundary, RecheckSafeHead, Paged, Rechecked
<1>6. CASE NothingFinal
  BY <1>3, <1>6 DEF NothingFinal
<1>7. CASE RecheckBoundary \/ RecheckSafeHead
  <2>1. run.pc # "safeHead"
    BY <1>7 DEF RecheckBoundary, RecheckSafeHead
  <2> QED
    BY <1>2, <1>4, <1>5, <1>7, <2>1, EndsKeep
<1> QED
  BY <1>1, <1>6, <1>7

\* The stored checkpoint becomes the batch's, or none; the other steps touch none.
LEMMA OthersKeepReach ==
  ASSUME Inv, InReach,
         \/ ObserveReceipt \/ DeliverReceipt \/ ReadConversation \/ UNCHANGED vars
         \/ \E c \in Callers, older \in BOOLEAN : Ask(c, older)
         \/ \E c \in Callers : Apply(c) \/ Drop(c)
  PROVE  InReach'
<1> USE InvParts
<1>1. UNCHANGED chain
  BY DEF ObserveReceipt, DeliverReceipt, ReadConversation, Ask, Apply, Drop, vars, chainVars
<1>2. \/ run' = run \/ run' = NoRun
      \/ /\ run'.base = checkpoint \/ run'.base = NoCheckpoint
         /\ run'.next = NoCheckpoint /\ run'.pc = "latest"
  <2>1. CASE ReadConversation
    <3> DEFINE call == Head(queue)
               base == IF pendingReset = Nobody /\ Backed(checkpoint, call.snapshot)
                         THEN checkpoint ELSE NoCheckpoint
    <3>1. PICK replay, first, last :
            run' = [NoRun EXCEPT
                      !.pc = "latest", !.caller = call.caller, !.older = call.older,
                      !.snapshot = call.snapshot, !.base = base, !.replay = replay,
                      !.revision = revision, !.count = Sent(chain),
                      !.firstBlock = first, !.lastBlock = last]
      BY <2>1 DEF ReadConversation
    <3> HIDE DEF call
    <3> QED
      BY <3>1 DEF NoRun
  <2>2. CASE \/ ObserveReceipt \/ DeliverReceipt \/ UNCHANGED vars
             \/ \E c \in Callers, older \in BOOLEAN : Ask(c, older)
             \/ \E c \in Callers : Apply(c) \/ Drop(c)
    BY <2>2 DEF ObserveReceipt, DeliverReceipt, Ask, Apply, Drop, vars
  <2> QED
    BY <2>1, <2>2
<1>3. \A c \in Callers : batch'[c] = batch[c] \/ batch'[c] = NoBatch
  BY DEF ObserveReceipt, DeliverReceipt, ReadConversation, Ask, Apply, Drop, vars, TypeOK
<1>4. checkpoint' \in {checkpoint, NoCheckpoint} \cup {batch[c].next : c \in Callers}
  BY DEF ObserveReceipt, DeliverReceipt, ReadConversation, Ask, Apply, Drop, vars, memoryVars
<1>5. Reaches(checkpoint')
  BY <1>4, NothingReaches DEF InReach
<1>6. \A c \in Callers : Reaches(batch'[c].next)
  BY <1>3, NothingReaches DEF InReach, NoBatch
<1>7. Reaches(run'.base) /\ Reaches(run'.next)
  BY <1>2, NothingReaches DEF InReach, NoRun
<1>8. EmptyWindow(run)'
  <2>1. CASE run' = run
    BY <1>1, <2>1 DEF InReach, EmptyWindow, Canonical, SafeHash, ExpectedEnd, Older, Retained,
       Holds, CountAt
  <2>2. CASE run'.pc \notin Paged
    BY <2>2 DEF EmptyWindow
  <2> QED
    BY <1>2, <2>1, <2>2 DEF NoRun, Paged, Rechecked
<1> QED
  BY <1>5, <1>6, <1>7, <1>8 DEF InReach, Reaches, Holds, CountAt

\* A message below the loaded suffix is never above the older cursor, so that the next
\* older window still reaches it: for every chain, number of callers and bound on the
\* losses, as long as no answer is empty whose window is not.
THEOREM CursorReachesOlder ==
  ASSUME EmptyAnswers = FALSE
  PROVE  Spec => []OlderCursorReaches
<1>1. Init => InReach
  <2> SUFFICES ASSUME Init PROVE InReach
    OBVIOUS
  <2>1. checkpoint = NoCheckpoint /\ run.base = NoCheckpoint /\ run.next = NoCheckpoint
        /\ run.pc = "idle" /\ \A c \in Callers : batch[c].next = NoCheckpoint
    BY DEF Init, NoRun, NoBatch
  <2> QED
    BY <2>1, NothingReaches DEF InReach, EmptyWindow, Paged, Rechecked
<1>2. Inv /\ InReach /\ [Next]_vars => InReach'
  <2> SUFFICES ASSUME Inv, InReach, [Next]_vars PROVE InReach'
    OBVIOUS
  <2>1. CASE Mine \/ Reorg
    BY <2>1, ChainKeepsReach
  <2>2. CASE ReadLatest \/ ReadCheckpointBlock \/ ReadSafeHead \/ ReadBoundary
    BY <2>2, BlocksKeepReach
  <2>3. CASE ReadLogs
    BY <2>3, LogsKeepReach
  <2>4. CASE CheckEventBlock \/ RecheckCheckpoint
    BY <2>4, ChecksKeepReach
  <2>5. CASE NothingFinal \/ RecheckBoundary \/ RecheckSafeHead \/ ResetCursor
    BY <2>5, EndsKeepReach
  <2>6. CASE \/ ObserveReceipt \/ DeliverReceipt \/ ReadConversation \/ UNCHANGED vars
             \/ \E c \in Callers, older \in BOOLEAN : Ask(c, older)
             \/ \E c \in Callers : Apply(c) \/ Drop(c)
    BY <2>6, OthersKeepReach
  <2> QED
    BY <2>1, <2>2, <2>3, <2>4, <2>5, <2>6 DEF Next, Environment, Read
<1>3. Inv /\ InReach => OlderCursorReaches
  <2> SUFFICES ASSUME Inv, InReach, Exists(checkpoint), checkpoint.first > 1
               PROVE  BlockOf(checkpoint.at, checkpoint.first - 1) <= checkpoint.olderTo
    BY DEF OlderCursorReaches
  <2>1. /\ \E n \in 1..Len(checkpoint.at) : Holds(checkpoint.at, n, checkpoint.first - 1)
        /\ \A n \in 1..Len(checkpoint.at) :
             Holds(checkpoint.at, n, checkpoint.first - 1) => n <= checkpoint.olderTo
    BY DEF InReach, Reaches
  <2> QED
    BY <2>1 DEF BlockOf
<1> QED
  BY <1>1, <1>2, <1>3, InvHolds, PTL DEF Spec

-----------------------------------------------------------------------------

(***************************************************************************)
(* With one caller, shallow reorganisations and nodes that are not behind, *)
(* a finalized message stays.  A call is waiting, or being read, or has a  *)
(* batch to apply, so the projection it captured is backed by the same     *)
(* checkpoint until its batch is applied; that checkpoint is too deep to   *)
(* be replaced.  So no read resets or replays, and a batch only adds       *)
(* messages, or replaces one by itself: it is in one block of the chain.   *)
(***************************************************************************)

Loaded(msgs) == \E i \in Ids : msgs[i].finality = "finalized"

\* A checkpoint no reorganisation reaches any more.
Rooted(c) == c = NoCheckpoint \/ Deep(c.at)

\* Every entry of a page is in the last block of its hash.
Truthful(page) == \A i \in IdsOf(page) : Holds(page[i], Len(page[i]), i)
ShownTruthful ==
  \A i \in Ids : messages[i].finality = "finalized" => Holds(messages[i].at, Len(messages[i].at), i)

\* The stored checkpoint backs a projection, or nothing of it is finalized.
Carried(msgs) == IF Exists(checkpoint) THEN Backed(checkpoint, msgs) ELSE ~Loaded(msgs)

\* A caller that waits for a call does not make another.
OneAtATime ==
  /\ Len(queue) <= 1
  /\ run.pc # "idle" => queue = <<>>
  /\ \A c \in Callers : batch[c].active => queue = <<>> /\ run.pc = "idle"

\* A read resumes from the stored checkpoint, and never replays.
Resumes(r) ==
  /\ r.caller \in Callers /\ ~r.replay /\ r.base = checkpoint /\ Carried(r.snapshot)
  /\ r.to # 0 => r.from <= r.to
  /\ r.count = 0 => r.firstBlock = 0
Steady(r) == (r.pc # "idle" => Resumes(r)) /\ Truthful(r.page)

\* A batch has a checkpoint if there is anything it could claim.
Ordered(c) == c.first <= c.last + 1 /\ c.olderTo <= Len(c.at)
Owed(b) ==
  b.active => /\ ~b.replay /\ Truthful(b.page) /\ Rooted(b.next)
              /\ IF Exists(b.next) THEN Ordered(b.next)
                                   ELSE IdsOf(b.page) = {} /\ ~Exists(checkpoint)

Stay ==
  /\ pendingReset = Nobody
  /\ Rooted(checkpoint) /\ Carried(messages) /\ ShownTruthful
  /\ OneAtATime
  /\ \A k \in 1..Len(queue) : Carried(queue[k].snapshot)
  /\ Steady(run)
  /\ \A c \in Callers : Owed(batch[c])

\* A read that ended resumes from nothing and has no page.
LEMMA NoRunSteady == Steady(NoRun) /\ NoRun.pc = "idle"
<1>1. NoRun.pc = "idle" /\ NoRun.page = EmptyPage
  BY DEF NoRun
<1> QED
  BY <1>1, EmptyValues DEF Steady, Truthful

\* The phases of a read change neither its checkpoint nor its page.
LEMMA PhasesSteady ==
  ASSUME NEW r \in Run, Resumes(r), Truthful(r.page)
  PROVE  /\ Steady(Planned(r)) /\ Steady(AfterPage(r)) /\ Steady(AfterCheckpoint(r))
         /\ \A phase \in Phases : Steady([r EXCEPT !.pc = phase])
<1>1. \A phase \in Phases : Steady([r EXCEPT !.pc = phase])
  <2> TAKE phase \in Phases
  <2>1. PICK q : q = [r EXCEPT !.pc = phase]
    OBVIOUS
  <2>2. /\ q.caller = r.caller /\ q.replay = r.replay /\ q.base = r.base /\ q.snapshot = r.snapshot
        /\ q.to = r.to /\ q.from = r.from /\ q.count = r.count /\ q.firstBlock = r.firstBlock
        /\ q.page = r.page
    BY <2>1 DEF Run
  <2>3. Steady(q)
    BY <2>2 DEF Steady, Resumes
  <2> QED
    BY <2>1, <2>3
<1>2. Steady(AfterCheckpoint(r))
  <2>1. AfterCheckpoint(r) = [r EXCEPT !.pc = "recheckSafeHead"]
        \/ AfterCheckpoint(r) = [r EXCEPT !.pc = "recheckBoundary"]
    BY DEF AfterCheckpoint
  <2> QED
    BY <1>1, <2>1 DEF Phases
<1>3. Steady(AfterPage(r))
  <2>1. AfterPage(r) = [r EXCEPT !.pc = "recheckCheckpoint"] \/ AfterPage(r) = AfterCheckpoint(r)
    BY DEF AfterPage
  <2> QED
    BY <1>1, <1>2, <2>1 DEF Phases
<1>4. Steady(Window(r))
  <2>1. PICK from, to : /\ Window(r) = [r EXCEPT !.pc = "safeHead", !.from = from, !.to = to]
                        /\ to # 0 => from <= to
    <3> DEFINE c == Retained(r)
               end == IF Older(r) THEN c.olderTo ELSE r.lastBlock
               start == Max({end - Span + 1, FirstBlock(r)})
               resume == Len(c.at) + 1
               from == IF ~Older(r) /\ Exists(c) /\ start < resume /\ resume <= end
                         THEN resume ELSE start
               readable == from <= end /\ r.count > 0
    <3>1. Window(r) = [r EXCEPT !.pc = "safeHead", !.from = IF readable THEN from ELSE 0,
                                !.to = IF readable THEN end ELSE 0]
      BY DEF Window
    <3>2. readable => from <= end
      OBVIOUS
    <3> HIDE DEF c, end, start, resume, from, readable
    <3>3. (IF readable THEN end ELSE 0) # 0 =>
            (IF readable THEN from ELSE 0) <= (IF readable THEN end ELSE 0)
      BY <3>2
    <3> QED
      BY <3>1, <3>3
  <2>2. PICK q : q = [r EXCEPT !.pc = "safeHead", !.from = from, !.to = to]
    OBVIOUS
  <2>3. /\ q.caller = r.caller /\ q.replay = r.replay /\ q.base = r.base /\ q.snapshot = r.snapshot
        /\ q.to = to /\ q.from = from /\ q.count = r.count /\ q.firstBlock = r.firstBlock
        /\ q.page = r.page
    BY <2>2 DEF Run
  <2>4. Steady(q)
    BY <2>1, <2>3 DEF Steady, Resumes
  <2> QED
    BY <2>1, <2>2, <2>4
<1>5. Steady(Planned(r))
  BY <1>4, NoRunSteady DEF Planned
<1> QED
  BY <1>1, <1>2, <1>3, <1>5

\* Nor does what readBlock caches.
LEMMA RememberSteady ==
  ASSUME NEW r \in Run, Resumes(r), Truthful(r.page), NEW n \in 1..MaxBlocks, NEW h \in Hash
  PROVE  /\ Remember(r, n, h) \in Run /\ Resumes(Remember(r, n, h))
         /\ Truthful(Remember(r, n, h).page)
<1>1. PICK q : q = Remember(r, n, h)
  OBVIOUS
<1>2. q \in Run
  BY <1>1, RememberKeeps
<1>3. /\ q.caller = r.caller /\ q.replay = r.replay /\ q.base = r.base /\ q.snapshot = r.snapshot
      /\ q.to = r.to /\ q.from = r.from /\ q.count = r.count /\ q.firstBlock = r.firstBlock
      /\ q.page = r.page
  BY <1>1 DEF Remember, Run
<1> QED
  BY <1>1, <1>2, <1>3 DEF Resumes

\* A step that leaves the chain, the projection, the memory, the queue and the
\* batches to a read that stays steady.
LEMMA ReadKeepsStay ==
  ASSUME Inv, Stay, run.pc # "idle", UNCHANGED <<chainVars, messages, memoryVars, queue, batch>>,
         Steady(run')
  PROVE  Stay'
<1>1. UNCHANGED <<chain, messages, checkpoint, pendingReset, queue, batch>>
  BY DEF chainVars, memoryVars
<1>2. Rooted(checkpoint)' /\ Carried(messages)' /\ ShownTruthful'
  BY <1>1 DEF Stay, Rooted, Deep, Canonical, Carried, Loaded, Backed, ShownTruthful, Holds, CountAt
<1>3. OneAtATime'
  BY <1>1 DEF Stay, OneAtATime
<1>4. \A k \in 1..Len(queue') : Carried(queue[k].snapshot)'
  BY <1>1 DEF Stay, Carried, Loaded, Backed
<1>5. Steady(run)'
  BY <1>1 DEF Steady, Resumes, Carried, Loaded, Backed, Truthful, Holds, CountAt
<1>6. \A c \in Callers : Owed(batch[c])'
  BY <1>1 DEF Stay, Owed, Rooted, Deep, Canonical, Truthful, Holds, CountAt
<1>7. pendingReset' = Nobody
  BY <1>1 DEF Stay
<1> QED
  BY <1>1, <1>2, <1>3, <1>4, <1>5, <1>6, <1>7 DEF Stay

\* Up to the logs there is no page.
LEMMA BlocksKeepStay ==
  Inv /\ Stay /\ (ReadLatest \/ ReadCheckpointBlock \/ ReadSafeHead \/ ReadBoundary) => Stay'
<1> SUFFICES ASSUME Inv, Stay,
                    ReadLatest \/ ReadCheckpointBlock \/ ReadSafeHead \/ ReadBoundary
             PROVE  Stay'
  OBVIOUS
<1> USE InvParts
<1>1. UNCHANGED <<chainVars, messages, memoryVars, queue, batch>> /\ run.pc # "idle"
  BY DEF ReadLatest, ReadCheckpointBlock, ReadSafeHead, ReadBoundary, onlyRun
<1>2. Resumes(run) /\ Truthful(run.page)
  BY <1>1 DEF Stay, Steady
<1>3. Steady(NoRun)
  BY NoRunSteady
<1> SUFFICES Steady(run')
  BY <1>1, ReadKeepsStay
<1>4. CASE ReadLatest
  <2>1. PICK latest \in Max({1, Len(chain) - Lag})..Len(chain) :
          LET r == [run EXCEPT !.safe = SafeHead(latest)]
          IN run' = IF Exists(run.base) THEN [r EXCEPT !.pc = "checkpointBlock"] ELSE Planned(r)
    BY <1>4 DEF ReadLatest
  <2>2. SafeHead(latest) \in 0..MaxBlocks
    <3>0. Len(chain) - Lag \in Int
      BY ChainFacts, HistoryAssumption
    <3>1. Max({1, Len(chain) - Lag}) \in Int /\ Max({1, Len(chain) - Lag}) >= 1
      BY ONLY <3>0, MaxOfTwo
    <3>2. latest \in 1..Len(chain)
      BY <2>1, <3>1
    <3> QED
      BY <3>2, ChainFacts, HistoryAssumption DEF SafeHead
  <2> DEFINE r == [run EXCEPT !.safe = SafeHead(latest)]
  <2>3. /\ r \in Run /\ r.page = run.page
        /\ r.caller = run.caller /\ r.replay = run.replay /\ r.base = run.base
        /\ r.snapshot = run.snapshot /\ r.to = run.to /\ r.from = run.from
        /\ r.count = run.count /\ r.firstBlock = run.firstBlock
    BY <2>2 DEF Run
  <2>4. run' = [r EXCEPT !.pc = "checkpointBlock"] \/ run' = Planned(r)
    BY <2>1
  <2> HIDE DEF r
  <2>5. Resumes(r) /\ Truthful(r.page)
    BY <1>2, <2>3 DEF Resumes
  <2>6. Steady(Planned(r)) /\ \A phase \in Phases : Steady([r EXCEPT !.pc = phase])
    BY <2>3, <2>5, PhasesSteady
  <2> QED
    BY <2>4, <2>6 DEF Phases
<1>5. CASE ReadCheckpointBlock
  <2> DEFINE n == Len(run.base.at)
  <2>1. PICK h \in Answers(n) :
          run' = Planned([Remember(run, n, h) EXCEPT
                            !.reset = ~(h = run.base.at /\ n <= run.safe)])
    BY <1>5 DEF ReadCheckpointBlock
  <2>2. n \in 1..MaxBlocks
    BY <1>5, RunFields, HashFacts DEF ReadCheckpointBlock, PhaseShape, Exists
  <2>3. h \in Hash
    BY <2>2, AnswersShape
  <2> DEFINE m == Remember(run, n, h)
             r == [m EXCEPT !.reset = ~(h = run.base.at /\ n <= run.safe)]
  <2>4. run' = Planned(r)
    BY <2>1
  <2>5. m \in Run /\ Resumes(m) /\ Truthful(m.page)
    BY <1>2, <2>2, <2>3, RememberSteady
  <2> HIDE DEF m, n
  <2>6. /\ r \in Run /\ r.page = m.page
        /\ r.caller = m.caller /\ r.replay = m.replay /\ r.base = m.base
        /\ r.snapshot = m.snapshot /\ r.to = m.to /\ r.from = m.from
        /\ r.count = m.count /\ r.firstBlock = m.firstBlock
    BY <2>5 DEF Run
  <2> HIDE DEF r
  <2>7. Resumes(r) /\ Truthful(r.page)
    BY <2>5, <2>6 DEF Resumes
  <2> QED
    BY <2>4, <2>6, <2>7, PhasesSteady
<1>6. CASE ReadSafeHead
  <2>1. PICK h \in Reads(run, run.safe) :
          LET r == Remember(run, run.safe, h) IN
            \/ run' = NoRun
            \/ run' = AfterPage([r EXCEPT !.from = 0, !.to = 0])
            \/ run' = [r EXCEPT !.pc = "boundary"]
    BY <1>6 DEF ReadSafeHead
  <2>2. run.safe \in 1..MaxBlocks
    <3>1. run.safe > 0
      BY <1>6 DEF ReadSafeHead
    <3> QED
      BY <3>1, RunFields
  <2>3. h \in Hash
    BY <2>2, ReadsShape
  <2> DEFINE m == Remember(run, run.safe, h)
             r == [m EXCEPT !.from = 0, !.to = 0]
  <2>4. m \in Run /\ Resumes(m) /\ Truthful(m.page)
    BY <1>2, <2>2, <2>3, RememberSteady
  <2>5. run' = NoRun \/ run' = AfterPage(r) \/ run' = [m EXCEPT !.pc = "boundary"]
    BY <2>1
  <2> HIDE DEF m
  <2>6. 0 \in 0..MaxBlocks
    BY HistoryAssumption
  <2>7. /\ r \in Run /\ r.page = m.page /\ r.to = 0
        /\ r.caller = m.caller /\ r.replay = m.replay /\ r.base = m.base
        /\ r.snapshot = m.snapshot /\ r.count = m.count /\ r.firstBlock = m.firstBlock
    BY ONLY <2>4, <2>6 DEF Run
  <2> HIDE DEF r
  <2>8. Resumes(r) /\ Truthful(r.page)
    BY <2>4, <2>7 DEF Resumes
  <2>9. Steady(AfterPage(r))
    BY <2>7, <2>8, PhasesSteady
  <2>10. Steady([m EXCEPT !.pc = "boundary"])
    BY <2>4, PhasesSteady DEF Phases
  <2> QED
    BY <1>3, <2>5, <2>9, <2>10
<1>7. CASE ReadBoundary
  <2>1. PICK h \in Reads(run, run.to) :
          run' = IF h = <<>> THEN NoRun ELSE [Remember(run, run.to, h) EXCEPT !.pc = "logs"]
    BY <1>7 DEF ReadBoundary
  <2>2. run.to \in 1..MaxBlocks
    BY <1>7, RunFields DEF ReadBoundary, PhaseShape
  <2>3. h \in Hash
    BY <2>2, ReadsShape
  <2> DEFINE m == Remember(run, run.to, h)
  <2>4. m \in Run /\ Resumes(m) /\ Truthful(m.page)
    BY <1>2, <2>2, <2>3, RememberSteady
  <2>5. run' = NoRun \/ run' = [m EXCEPT !.pc = "logs"]
    BY <2>1
  <2> HIDE DEF m
  <2>6. Steady([m EXCEPT !.pc = "logs"])
    BY <2>4, PhasesSteady DEF Phases
  <2> QED
    BY <1>3, <2>5, <2>6
<1> QED
  BY <1>4, <1>5, <1>6, <1>7

\* The hash of a message of the chain ends with the block that holds it.
LEMMA LogsKeepStay == Inv /\ Stay /\ ReadLogs => Stay'
<1> SUFFICES ASSUME Inv, Stay, ReadLogs PROVE Stay'
  OBVIOUS
<1> DEFINE Kept(answer) == IF Older(run) THEN answer \cap 1..ExpectedEnd(run) ELSE answer
           Collected(ids) == [i \in Ids |-> IF i \in ids THEN MessageAt(chain, i) ELSE <<>>]
           Got(ids) == [run EXCEPT !.unchecked = ids, !.page = Collected(ids)]
<1>1. /\ TypeOK /\ ChainShape /\ run \in Run /\ WindowShape(run) /\ PhaseShape(run)
      /\ UNCHANGED <<chainVars, messages, memoryVars, queue, batch>> /\ run.pc = "logs"
  BY InvParts DEF ReadLogs
<1>2. PICK answer \in SUBSET {i \in Ids : \E n \in run.from..run.to : Holds(chain, n, i)} :
        \/ run' = NoRun
        \/ run' = AfterPage(Got(Kept(answer)))
        \/ run' = [Got(Kept(answer)) EXCEPT !.pc = "eventBlocks"]
  BY DEF ReadLogs
<1> DEFINE ids == Kept(answer)
           page == Collected(ids)
           r == Got(ids)
<1>3. ids \subseteq Ids /\ \A i \in ids : \E n \in run.from..run.to : Holds(chain, n, i)
  OBVIOUS
<1>5. run' = NoRun \/ run' = AfterPage(r) \/ run' = [r EXCEPT !.pc = "eventBlocks"]
  BY <1>2
<1> HIDE DEF ids
<1>6. \A i \in ids : /\ MessageAt(chain, i) \in Hash
                     /\ Holds(MessageAt(chain, i), Len(MessageAt(chain, i)), i)
  <2> SUFFICES ASSUME NEW i \in ids
               PROVE  /\ MessageAt(chain, i) \in Hash
                      /\ Holds(MessageAt(chain, i), Len(MessageAt(chain, i)), i)
    OBVIOUS
  <2>1. PICK n \in run.from..run.to : Holds(chain, n, i)
    BY <1>3
  <2>2. /\ MessageAt(chain, i) \in Hash /\ Len(MessageAt(chain, i)) = n /\ n \in Nat
        /\ IsPrefix(MessageAt(chain, i), chain)
    BY <1>1, <1>3, <2>1, MessageAtShape
  <2>3. i \in Nat /\ chain \in Hash
    BY <1>1, <1>3, ChainFacts DEF Ids
  <2>4. Holds(MessageAt(chain, i), n, i)
    BY <2>1, <2>2, <2>3, HoldsInPrefix
  <2> QED
    BY <2>2, <2>4
<1>7. page \in Page /\ Truthful(page)
  <2>1. page \in Page /\ IdsOf(page) \subseteq ids
    BY <1>6, EmptyValues DEF Page, IdsOf
  <2> QED
    BY <1>3, <1>6, <2>1 DEF Truthful
<1>r. r = [run EXCEPT !.unchecked = ids, !.page = page]
  OBVIOUS
<1> HIDE DEF page, r
<1>8. /\ r \in Run /\ r.page = page
      /\ r.caller = run.caller /\ r.replay = run.replay /\ r.base = run.base
      /\ r.snapshot = run.snapshot /\ r.to = run.to /\ r.from = run.from
      /\ r.count = run.count /\ r.firstBlock = run.firstBlock
  BY ONLY <1>1, <1>3, <1>7, <1>r DEF Run
<1>9. Resumes(r) /\ Truthful(r.page)
  BY <1>1, <1>7, <1>8 DEF Stay, Steady, Resumes
<1>10. Steady(AfterPage(r)) /\ \A phase \in Phases : Steady([r EXCEPT !.pc = phase])
  BY <1>8, <1>9, PhasesSteady
<1>11. Steady(run')
  BY <1>5, <1>10, NoRunSteady DEF Phases
<1> QED
  BY <1>1, <1>11, ReadKeepsStay

\* The event blocks and the checkpoint block are compared, nothing is added.
LEMMA ChecksKeepStay == Inv /\ Stay /\ (CheckEventBlock \/ RecheckCheckpoint) => Stay'
<1> SUFFICES ASSUME Inv, Stay, CheckEventBlock \/ RecheckCheckpoint PROVE Stay'
  OBVIOUS
<1> USE InvParts
<1>1. UNCHANGED <<chainVars, messages, memoryVars, queue, batch>> /\ run.pc # "idle"
  BY DEF CheckEventBlock, RecheckCheckpoint, onlyRun
<1>2. Resumes(run) /\ Truthful(run.page)
  BY <1>1 DEF Stay, Steady
<1> SUFFICES Steady(run')
  BY <1>1, ReadKeepsStay
<1>3. CASE CheckEventBlock
  <2>1. PICK i \in run.unchecked :
          \E h \in Reads(run, Len(run.page[i])) :
            LET r == [Remember(run, Len(run.page[i]), h) EXCEPT !.unchecked = run.unchecked \ {i}]
            IN run' = NoRun \/ run' = AfterPage(r) \/ run' = r
    BY <1>3 DEF CheckEventBlock
  <2> DEFINE n == Len(run.page[i])
             left == run.unchecked \ {i}
  <2>2. PICK h \in Reads(run, n) :
          LET r == [Remember(run, n, h) EXCEPT !.unchecked = left]
          IN run' = NoRun \/ run' = AfterPage(r) \/ run' = r
    BY <2>1
  <2>3. n \in 1..MaxBlocks /\ left \in SUBSET Ids
    <3>1. i \in IdsOf(run.page) /\ run.page \in Page /\ run.unchecked \in SUBSET Ids
      BY RunFields DEF PageShape
    <3>2. run.page[i] \in Hash /\ run.page[i] # <<>>
      BY <3>1 DEF IdsOf, Page
    <3> QED
      BY <3>1, <3>2, HashFacts
  <2>4. h \in Hash
    BY <2>3, ReadsShape
  <2> DEFINE m == Remember(run, n, h)
             r == [m EXCEPT !.unchecked = left]
  <2>5. m \in Run /\ Resumes(m) /\ Truthful(m.page)
    BY <1>2, <2>3, <2>4, RememberSteady
  <2>6. run' = NoRun \/ run' = AfterPage(r) \/ run' = r
    BY <2>2
  <2> HIDE DEF m, left
  <2>7. /\ r \in Run /\ r.page = m.page
        /\ r.caller = m.caller /\ r.replay = m.replay /\ r.base = m.base
        /\ r.snapshot = m.snapshot /\ r.to = m.to /\ r.from = m.from
        /\ r.count = m.count /\ r.firstBlock = m.firstBlock
    BY ONLY <2>3, <2>5 DEF Run
  <2> HIDE DEF r
  <2>8. Resumes(r) /\ Truthful(r.page)
    BY <2>5, <2>7 DEF Resumes
  <2>9. Steady(r) /\ Steady(AfterPage(r))
    BY <2>7, <2>8, PhasesSteady DEF Steady
  <2> QED
    BY <2>6, <2>9, NoRunSteady
<1>4. CASE RecheckCheckpoint
  <2>1. run' = AfterCheckpoint(run) \/ run' = NoRun
    BY <1>4 DEF RecheckCheckpoint
  <2>2. Steady(AfterCheckpoint(run))
    BY <1>2, PhasesSteady
  <2> QED
    BY <2>1, <2>2, NoRunSteady
<1> QED
  BY <1>3, <1>4

(* The end of a read.                                                      *)

\* A rooted checkpoint is on the chain.
LEMMA RootedIsCanonical ==
  ASSUME TypeOK, NEW c, Rooted(c)
  PROVE  Canonical(c.at)
<1>1. IsPrefix(<<>>, chain)
  BY EmptyValues, ChainFacts, PrefixBlocks
<1> QED
  BY <1>1 DEF Rooted, Deep, Canonical, NoCheckpoint

\* So nothing is reset: not by a read, nor by a batch that can be applied.
LEMMA NothingResets ==
  ASSUME Inv, Due, Stay
  PROVE  /\ run.pc # "idle" => ~run.reset
         /\ \A c \in Callers : batch[c].active /\ Current(c) => ~batch[c].reset
<1>1. Canonical(checkpoint.at)
  BY RootedIsCanonical, InvParts DEF Stay
<1>2. run.pc # "idle" => run.base = checkpoint
  BY DEF Stay, Steady, Resumes
<1> QED
  BY <1>1, <1>2 DEF Due, ResetDue, ResetIsEarned

\* What a checkpoint earned is in the projection its page is merged into.
LEMMA EarnedIsBacked ==
  ASSUME NEW msgs \in Projection, NEW page \in Page,
         NEW next \in CheckpointType, NEW base \in CheckpointType,
         Exists(next), Ordered(next), Earned(next, page, base),
         Exists(base) => Backed(base, msgs)
  PROVE  Backed(next, Applied(msgs, FALSE, FALSE, page))
<1> DEFINE applied == Applied(msgs, FALSE, FALSE, page)
<1>1. /\ \A i \in IdsOf(page) : applied[i].at = page[i] /\ applied[i].finality = "finalized"
      /\ \A i \in Ids \ IdsOf(page) : applied[i] = msgs[i]
  BY AppliedType
<1>2. /\ next.at \in Hash /\ next.first \in 1..(MaxMessages + 1) /\ next.last \in 0..MaxMessages
      /\ base.at \in Hash
  BY DEF CheckpointType
<1>3. Len(next.at) \in Nat /\ Len(base.at) \in Nat
  BY <1>2, HashFacts
<1> HIDE DEF applied
<1> SUFFICES ASSUME NEW i \in next.first..next.last
             PROVE  applied[i].finality = "finalized" /\ Len(applied[i].at) <= Len(next.at)
  BY DEF Backed, Ordered, applied
<1>4. i \in Ids
  BY <1>2, HistoryAssumption DEF Ids
<1>5. CASE i \in IdsOf(page) /\ Holds(next.at, Len(page[i]), i)
  <2>1. applied[i].at = page[i] /\ applied[i].finality = "finalized"
    BY <1>1, <1>5
  <2>2. Len(page[i]) <= Len(next.at)
    BY <1>3, <1>5 DEF Holds
  <2> QED
    BY <2>1, <2>2
<1>6. CASE /\ i \notin IdsOf(page) /\ Exists(base) /\ i \in base.first..base.last
           /\ IsPrefix(base.at, next.at)
  <2>1. applied[i] = msgs[i]
    BY <1>1, <1>4, <1>6
  <2>2. msgs[i].finality = "finalized" /\ Len(msgs[i].at) <= Len(base.at)
    BY <1>6 DEF Backed
  <2>3. Len(base.at) <= Len(next.at)
    BY <1>2, <1>6, PrefixBlocks
  <2>4. Len(msgs[i].at) \in Nat
    BY <1>4, HashFacts DEF Projection
  <2> QED
    BY <1>3, <2>1, <2>2, <2>3, <2>4
<1> QED
  BY <1>5, <1>6 DEF Earned

\* The next checkpoint exists, and is well ordered.
LEMMA NextOrdered ==
  ASSUME NEW r \in Run, CacheShape(r), RunShape(r), PageOnSafeHead(r), r.pc \in Rechecked,
         Canonical(SafeHash(r)), r.to # 0 => r.from <= r.to, r.count = 0 => r.firstBlock = 0
  PROVE  /\ Exists(NextCheckpoint(r)) /\ Ordered(NextCheckpoint(r))
         /\ NextCheckpoint(r).at \in {SafeHash(r), Retained(r).at}
<1> DEFINE ids == IdsOf(r.page)
           c == Retained(r)
           S == SafeHash(r)
           next == NextCheckpoint(r)
<1>0. r.safe \in 1..MaxBlocks /\ r.safe \in Nat /\ r.safe >= 1 /\ S # <<>>
  <2>1. r.safe \in 1..MaxBlocks /\ S # <<>>
    BY SafeHashShape
  <2> QED
    BY <2>1
<1>1. /\ S \in Hash /\ S = r.cache[r.safe] /\ S # <<>> /\ Len(S) = r.safe
      /\ r.pc \in Paged /\ r.pc \in Reading
      /\ r.safe \in Nat /\ r.safe >= 1 /\ r.to \in Nat /\ r.from \in Nat
      /\ r.count \in Nat /\ c.first \in Nat /\ c.last \in Nat /\ c.at \in Hash
      /\ c.olderTo \in Nat /\ Len(c.at) \in Nat
  <2>1. S \in Hash /\ S = r.cache[r.safe] /\ Len(S) = r.safe
    BY SafeHashShape
  <2>2. r.to \in Nat /\ r.from \in Nat /\ r.count \in Nat
    BY RunFields, HistoryAssumption
  <2>3. /\ c.first \in Nat /\ c.last \in Nat /\ c.at \in Hash
        /\ c.olderTo \in Nat /\ Len(c.at) \in Nat
    BY RetainedFields, HashFacts, HistoryAssumption
  <2> QED
    BY <1>0, <2>1, <2>2, <2>3 DEF Paged, Reading
<1>2. \A i \in ids : Len(r.page[i]) \in Nat /\ Len(r.page[i]) <= r.to
  BY <1>1, PageIds DEF PageOnSafeHead
<1>3. /\ Exists(c) => /\ c.first <= c.last + 1 /\ c.olderTo <= Len(c.at) /\ Len(c.at) <= r.safe
      /\ ~Exists(c) => c.first = 1 /\ c.last = 0 /\ c.olderTo = 0
  <2>1. Exists(c) => c = r.base
    BY RetainedFields
  <2>2. ~Exists(c) => c = NoCheckpoint
    BY DEF Retained, RunShape, BaseShape
  <2> QED
    BY <1>1, <2>1, <2>2 DEF RunShape, WindowShape, BaseShape, NoCheckpoint
<1>4. /\ c.last <= r.count /\ (r.to = 0 => r.count = c.last)
      /\ r.to # 0 => r.from >= 1 /\ r.to <= r.safe
      /\ Older(r) /\ r.to # 0 => Exists(c) /\ r.to = c.olderTo
  <2>1. Older(r) => Exists(c) /\ c = r.base
    BY RetainedFields DEF Older
  <2> QED
    BY <1>1, <2>1 DEF RunShape, WindowShape
<1>5. r.to # 0 => /\ \A i \in ids : i <= ExpectedEnd(r)
                  /\ Older(r) \/ ids # {}
  <2> SUFFICES ASSUME r.to # 0
               PROVE  (\A i \in ids : i <= ExpectedEnd(r)) /\ (Older(r) \/ ids # {})
    OBVIOUS
  <2>1. (\E first \in 1..ExpectedEnd(r) + 1 : ids = first..ExpectedEnd(r)) /\ (Older(r) \/ ids # {})
    BY <1>1 DEF RunShape, PageShape
  <2> QED
    BY <2>1, ExpectedEndNat
<1>6. ids # {} => Min(ids) \in ids /\ Min(ids) \in Nat
  BY PageIds
<1>7. ExpectedEnd(r) = IF Older(r) THEN c.first - 1 ELSE r.count
  BY DEF ExpectedEnd
<1>8. Joins(r) => ~Older(r) /\ Exists(c)
  BY DEF Joins
<1>9. FirstBlock(r) = IF r.firstBlock = 0 THEN 1 ELSE r.firstBlock
  BY DEF FirstBlock
<1> SUFFICES Exists(next) /\ Ordered(next) /\ next.at \in {S, c.at}
  OBVIOUS
<1>10. CASE r.to = 0
  <2>1. /\ next.at = S /\ next.first = c.first /\ next.last = r.count
        /\ next.olderTo = IF Exists(c) THEN c.olderTo ELSE FirstBlock(r)
    BY <1>1, <1>10 DEF NextCheckpoint
  <2> HIDE DEF ids, c, S, next
  <2>2. next.olderTo <= Len(S)
    BY <1>1, <1>3, <1>4, <1>9, <1>10, <2>1
  <2>3. next.first <= next.last + 1
    BY <1>1, <1>3, <1>4, <1>10, <2>1
  <2> QED
    BY <1>1, <2>1, <2>2, <2>3 DEF Exists, Ordered
<1>11. CASE r.to # 0
  <2>1. /\ next.at = IF Older(r) THEN c.at ELSE S
        /\ next.last = IF Older(r) THEN c.last ELSE r.count
        /\ next.first = IF Joins(r) \/ ids = {} THEN c.first ELSE Min(ids)
        /\ next.olderTo = CASE Joins(r) -> c.olderTo
                            [] ~Joins(r) /\ ids # {} -> Len(r.page[Min(ids)])
                            [] OTHER -> r.from - 1
    BY <1>1, <1>11 DEF NextCheckpoint, FirstLoaded, OlderCursor
  <2>2. ids # {} => /\ Len(r.page[Min(ids)]) \in Nat /\ Len(r.page[Min(ids)]) <= r.to
                    /\ Min(ids) <= ExpectedEnd(r)
    BY <1>2, <1>5, <1>6, <1>11
  <2> DEFINE least == Min(ids)
             block == Len(r.page[least])
  <2>3. /\ ids # {} => /\ block \in Nat /\ block <= r.to /\ least \in Nat
                       /\ least <= ExpectedEnd(r)
        /\ next.first = IF Joins(r) \/ ids = {} THEN c.first ELSE least
        /\ next.olderTo = CASE Joins(r) -> c.olderTo
                            [] ~Joins(r) /\ ids # {} -> block
                            [] OTHER -> r.from - 1
    BY <1>6, <2>1, <2>2
  <2> HIDE DEF ids, c, S, next, least, block
  <2>4. CASE Older(r)
    <3>1. Exists(c) /\ next.at = c.at /\ next.last = c.last /\ ~Joins(r) /\ r.to = c.olderTo
      BY <1>4, <1>8, <1>11, <2>1, <2>4
    <3>2. next.first <= next.last + 1
      BY <1>1, <1>3, <1>7, <2>3, <2>4, <3>1
    <3>3. next.olderTo <= Len(next.at)
      BY <1>1, <1>3, <1>11, <2>3, <3>1
    <3> QED
      BY <3>1, <3>2, <3>3 DEF Exists, Ordered
  <2>5. CASE ~Older(r)
    <3>1. ids # {} /\ next.at = S /\ next.last = r.count
      BY <1>5, <1>11, <2>1, <2>5
    <3>2. next.first <= next.last + 1
      BY SMTT(40), <1>1, <1>3, <1>4, <1>7, <1>8, <2>3, <2>5, <3>1
    <3>3. next.olderTo <= Len(next.at)
      BY <1>1, <1>3, <1>4, <1>8, <1>11, <2>3, <3>1
    <3> QED
      BY <1>1, <3>1, <3>2, <3>3 DEF Exists, Ordered
  <2> QED
    BY <2>4, <2>5
<1> QED
  BY <1>10, <1>11

\* A batch that has what it owes is returned.
LEMMA ReturnKeepsStay ==
  ASSUME Inv, Stay, run.pc # "idle", UNCHANGED onlyReturn,
         NEW r, r.caller = run.caller, r.page = run.page, r.replay = FALSE, r.reset = FALSE,
         NEW next, Rooted(next),
         IF Exists(next) THEN Ordered(next) ELSE IdsOf(run.page) = {} /\ ~Exists(checkpoint),
         Return(r, next)
  PROVE  Stay'
<1> USE InvParts
<1> DEFINE b == [active |-> TRUE, page |-> r.page, reset |-> r.reset, replay |-> r.replay,
                 next |-> next, hasOlder |-> r.hasOlder, revision |-> r.revision]
<1>1. batch' = [batch EXCEPT ![r.caller] = b] /\ run' = NoRun /\ pendingReset' = pendingReset
  BY DEF Return
<1>2. b.next = next /\ b.page = run.page /\ ~b.replay
  OBVIOUS
<1> HIDE DEF b
<1>3. UNCHANGED <<chain, messages, checkpoint, queue>>
  BY DEF onlyReturn, chainVars
<1>4. \A c \in Callers : batch'[c] = IF c = r.caller THEN b ELSE batch[c]
  BY <1>1 DEF TypeOK
<1>5. Rooted(checkpoint)' /\ Carried(messages)' /\ ShownTruthful'
  BY <1>3 DEF Stay, Rooted, Deep, Canonical, Carried, Loaded, Backed, ShownTruthful, Holds, CountAt
<1>6. queue = <<>>
  BY DEF Stay, OneAtATime
<1>7. OneAtATime' /\ \A k \in 1..Len(queue') : Carried(queue[k].snapshot)'
  BY <1>1, <1>3, <1>6, NoRunSteady DEF OneAtATime
<1>8. Steady(run)'
  BY <1>1, NoRunSteady, EmptyValues DEF Steady, Truthful, NoRun
<1>9. \A c \in Callers : Owed(batch[c])'
  <2>1. Truthful(run.page)
    BY DEF Stay, Steady
  <2>2. Owed(b)
    BY <1>2, <2>1 DEF Owed
  <2>3. \A c \in Callers : Owed(batch'[c])
    BY <1>4, <2>2 DEF Stay
  <2> QED
    BY <1>3, <2>3 DEF Owed, Rooted, Deep, Canonical, Truthful, Holds, CountAt
<1>10. pendingReset' = Nobody
  BY <1>1 DEF Stay
<1> QED
  BY <1>5, <1>7, <1>8, <1>9, <1>10 DEF Stay

\* A read that ends with a checkpoint it earned keeps it: its projection backs it.
LEMMA FinishKeepsStay ==
  ASSUME Inv, Due, Stay, run.pc # "idle", UNCHANGED onlyReturn,
         NEW next \in CheckpointType, Rooted(next),
         IF Exists(next) THEN Ordered(next) /\ Earned(next, run.page, checkpoint)
                         ELSE IdsOf(run.page) = {} /\ ~Exists(checkpoint),
         Finish(run, next)
  PROVE  Stay'
<1> USE InvParts
<1> DEFINE stored == IF Backed(next, Applied(run.snapshot, run.replay, run.reset, run.page))
                       THEN next ELSE NoCheckpoint
           older == next.first > 1
           r == [run EXCEPT !.hasOlder = older]
<1>1. ~run.reset /\ run.reset = FALSE /\ ~run.replay /\ run.replay = FALSE
  BY NothingResets, RunFields DEF Stay, Steady, Resumes
<1>2. Return(r, stored)
  BY <1>1 DEF Finish
<1>3. r.caller = run.caller /\ r.page = run.page /\ r.replay = FALSE /\ r.reset = FALSE
  BY <1>1 DEF Run
<1>4. Exists(next) => stored = next
  <2> SUFFICES ASSUME Exists(next)
               PROVE  Backed(next, Applied(run.snapshot, FALSE, FALSE, run.page))
    BY <1>1
  <2>1. Exists(checkpoint) => Backed(checkpoint, run.snapshot)
    BY DEF Stay, Steady, Resumes, Carried
  <2>2. run.snapshot \in Projection /\ run.page \in Page /\ checkpoint \in CheckpointType
    BY DEF Run, TypeOK
  <2> QED
    BY <2>1, <2>2, EarnedIsBacked
<1>5. ~Exists(next) => stored = NoCheckpoint
  BY DEF Backed
<1> HIDE DEF r, stored, older
<1>6. /\ Rooted(stored)
      /\ IF Exists(stored) THEN Ordered(stored) ELSE IdsOf(run.page) = {} /\ ~Exists(checkpoint)
  BY <1>4, <1>5, EmptyValues DEF Rooted
<1> QED
  BY <1>2, <1>3, <1>6, ReturnKeepsStay

\* The next checkpoint is the stored one or the safe head, both too deep to be replaced.
LEMMA EndsKeepStay ==
  Inv /\ Due /\ Stay /\ (NothingFinal \/ RecheckBoundary \/ RecheckSafeHead \/ ResetCursor) => Stay'
<1> SUFFICES ASSUME Inv, Due, Stay, NothingFinal \/ RecheckBoundary \/ RecheckSafeHead \/ ResetCursor
             PROVE  Stay'
  OBVIOUS
<1> USE InvParts
<1>1. run.pc # "idle"
  BY DEF NothingFinal, RecheckBoundary, RecheckSafeHead, ResetCursor
<1>2. ~run.reset /\ Resumes(run) /\ Truthful(run.page) /\ Rooted(checkpoint)
  BY <1>1, NothingResets DEF Stay, Steady
<1>3. Retained(run) = checkpoint /\ checkpoint \in CheckpointType /\ checkpoint.at \in Hash
  BY <1>2, CheckpointHashes DEF Retained, Resumes, TypeOK
<1>4. ~ResetCursor
  BY <1>2 DEF ResetCursor, ResetShape
<1>5. CASE NothingFinal
  <2>1. /\ run.pc = "safeHead" /\ Finish(run, checkpoint) /\ UNCHANGED onlyReturn
    BY <1>3, <1>5 DEF NothingFinal
  <2>2. IdsOf(run.page) = {}
    BY <2>1, EmptyValues DEF PageShape, Paged, Rechecked
  <2>3. Exists(checkpoint) => Ordered(checkpoint) /\ Earned(checkpoint, run.page, checkpoint)
    <3> SUFFICES ASSUME Exists(checkpoint)
                 PROVE  Ordered(checkpoint) /\ Earned(checkpoint, run.page, checkpoint)
      OBVIOUS
    <3>1. Backed(checkpoint, run.snapshot)
      BY <1>2 DEF Resumes, Carried
    <3>2. IsPrefix(checkpoint.at, checkpoint.at)
      BY <1>3, PrefixBlocks, HashFacts
    <3> QED
      BY <2>2, <3>1, <3>2 DEF Backed, Ordered, Earned
  <2> QED
    BY <1>1, <1>2, <1>3, <2>1, <2>2, <2>3, FinishKeepsStay
<1>6. CASE /\ run' = NoRun \/ run' = [run EXCEPT !.pc = "recheckSafeHead"]
           /\ UNCHANGED <<batch, batchVersion, pendingReset>> /\ UNCHANGED onlyReturn
  <2>1. Steady(run')
    BY <1>2, <1>6, NoRunSteady, PhasesSteady DEF Phases
  <2> QED
    BY <1>1, <1>6, <2>1, ReadKeepsStay DEF onlyReturn, memoryVars
<1>7. CASE /\ run.pc \in Rechecked /\ Canonical(SafeHash(run))
           /\ Finish(run, NextCheckpoint(run)) /\ UNCHANGED onlyReturn
  <2>1. Exists(NextCheckpoint(run)) /\ Ordered(NextCheckpoint(run))
        /\ NextCheckpoint(run).at \in {SafeHash(run), checkpoint.at}
    BY <1>2, <1>3, <1>7, NextOrdered DEF Resumes
  <2>2. Earned(NextCheckpoint(run), run.page, checkpoint) /\ NextCheckpoint(run) \in CheckpointType
    BY <1>3, <1>7, NextCheckpointEarned, NextCheckpointType
  <2>3. Deep(SafeHash(run))
    <3>1. run.safe \in 1..MaxBlocks /\ SafeHash(run) # <<>> /\ Len(SafeHash(run)) = run.safe
      BY <1>7, SafeHashShape
    <3> QED
      BY <1>7, <3>1 DEF Due, SafeDeep, Deep
  <2>4. Rooted(NextCheckpoint(run))
    <3>1. NextCheckpoint(run).at = checkpoint.at => Deep(checkpoint.at)
      BY <1>2, <2>1, EmptyValues DEF Rooted, Exists
    <3> QED
      BY <2>1, <2>3, <3>1 DEF Rooted
  <2> QED
    BY <1>1, <1>7, <2>1, <2>2, <2>4, FinishKeepsStay
<1>8. CASE RecheckBoundary \/ RecheckSafeHead
  <2>1. run.pc # "safeHead"
    BY <1>8 DEF RecheckBoundary, RecheckSafeHead
  <2> QED
    BY <1>6, <1>7, <1>8, <2>1, EndsKeep
<1> QED
  BY <1>4, <1>5, <1>8

(* Calls, batches and the chain.                                           *)

\* What is rooted stays rooted.
LEMMA ChainKeepsStay ==
  ASSUME Inv, Stay, ReorgDepth <= ConfirmationDepth, Mine \/ Reorg
  PROVE  Stay'
<1> USE InvParts
<1>1. UNCHANGED <<messages, checkpoint, pendingReset, queue, run, batch>>
  BY DEF Mine, Reorg, memoryVars
<1>2. \A h \in Hash : Deep(h) => Deep(h)'
  BY DeepStays
<1>3. Rooted(checkpoint)' /\ \A c \in Callers : Rooted(batch[c].next) => Rooted(batch[c].next)'
  BY <1>1, <1>2, CheckpointHashes DEF Stay, Rooted, Deep, Canonical
<1>4. Carried(messages)' /\ ShownTruthful'
  BY <1>1 DEF Stay, Carried, Loaded, Backed, ShownTruthful, Holds, CountAt
<1>5. OneAtATime' /\ \A k \in 1..Len(queue') : Carried(queue[k].snapshot)'
  BY <1>1 DEF Stay, OneAtATime, Carried, Loaded, Backed
<1>6. Steady(run)'
  BY <1>1 DEF Stay, Steady, Resumes, Carried, Loaded, Backed, Truthful, Holds, CountAt
<1>7. \A c \in Callers : Owed(batch[c])'
  BY <1>1, <1>3 DEF Stay, Owed, Truthful, Holds, CountAt
<1> QED
  BY <1>1, <1>3, <1>4, <1>5, <1>6, <1>7 DEF Stay

\* The caller asks only when it waits for nothing; what it captures is carried.
LEMMA AskKeepsStay ==
  ASSUME Inv, Stay, NEW c \in Callers, Callers = {c}, NEW older \in BOOLEAN, Ask(c, older)
  PROVE  Stay'
<1> USE InvParts
<1>1. UNCHANGED <<chain, messages, checkpoint, pendingReset, run, batch>>
  BY DEF Ask, chainVars, memoryVars
<1>2. /\ Free(c) /\ queue \in Seq(Call)
      /\ queue' = Append(queue, [caller |-> c, older |-> older, snapshot |-> messages])
  BY DEF Ask, TypeOK
<1>3. queue = <<>>
  <2> SUFFICES ASSUME queue # <<>> PROVE FALSE
    OBVIOUS
  <2>1. 1 \in 1..Len(queue) /\ queue[1] \in Call
    BY <1>2
  <2>2. queue[1].caller = c
    BY <2>1 DEF Call
  <2> QED
    BY <1>2, <2>1, <2>2 DEF Free, Waiting
<1>4. run.pc = "idle" /\ \A d \in Callers : ~batch[d].active
  BY <1>2 DEF Free, Stay, Steady, Resumes
<1>5. Len(queue') = 1 /\ queue'[1].snapshot = messages
  BY <1>2, <1>3
<1>6. Carried(messages)' /\ Carried(queue'[1].snapshot)
  BY <1>1, <1>5 DEF Stay, Carried, Loaded, Backed
<1>7. OneAtATime' /\ \A k \in 1..Len(queue') : Carried(queue[k].snapshot)'
  BY <1>1, <1>4, <1>5, <1>6 DEF OneAtATime, Carried, Loaded, Backed
<1>8. Steady(run)' /\ Rooted(checkpoint)' /\ ShownTruthful'
  BY <1>1, <1>4 DEF Stay, Steady, Truthful, Holds, CountAt, Rooted, Deep, Canonical, ShownTruthful
<1>9. \A d \in Callers : Owed(batch[d])'
  BY <1>1, <1>4 DEF Owed
<1> QED
  BY <1>1, <1>6, <1>7, <1>8, <1>9 DEF Stay

\* A new read resumes from the stored checkpoint, which its projection backs.
LEMMA ConversationKeepsStay == Inv /\ Stay /\ ReadConversation => Stay'
<1> SUFFICES ASSUME Inv, Stay, ReadConversation PROVE Stay'
  OBVIOUS
<1> USE InvParts
<1>1. /\ UNCHANGED <<chain, messages, checkpoint, pendingReset, batch>>
      /\ run.pc = "idle" /\ queue # <<>> /\ queue' = Tail(queue)
  BY DEF ReadConversation, chainVars, memoryVars
<1>2. queue \in Seq(Call) /\ Len(queue) = 1 /\ queue' = <<>> /\ Head(queue) = queue[1]
      /\ queue[1] \in Call
  <2>1. queue \in Seq(Call)
    BY DEF TypeOK
  <2>2. Len(queue) <= 1
    BY DEF Stay, OneAtATime
  <2>3. Len(queue) = 1
    <3>1. queue # <<>>
      BY <1>1
    <3> DEFINE n == Len(queue)
    <3>2. n \in Nat
      BY ONLY <2>1
    <3>3. n # 0
      BY ONLY <2>1, <3>1
    <3>4. n <= 1
      BY <2>2
    <3> HIDE DEF n
    <3>5. n = 1
      BY ONLY <3>2, <3>3, <3>4
    <3> QED
      BY ONLY <3>5 DEF n
  <2>4. Head(queue) = queue[1] /\ queue[1] \in Call
    BY ONLY <2>1, <2>3
  <2>5. Tail(queue) \in Seq(Call) /\ Len(Tail(queue)) = 0
    BY ONLY <2>1, <2>3
  <2>6. queue' = <<>>
    BY ONLY <1>1, <2>5
  <2> QED
    BY ONLY <2>1, <2>3, <2>4, <2>6
<1> DEFINE call == Head(queue)
           base == IF pendingReset = Nobody /\ Backed(checkpoint, call.snapshot)
                     THEN checkpoint ELSE NoCheckpoint
           replay == /\ ~Exists(base)
                     /\ \/ pendingReset # Nobody
                        \/ \E i \in Ids : call.snapshot[i].finality = "finalized"
<1>3. PICK first, last :
        /\ run' = [NoRun EXCEPT
                     !.pc = "latest", !.caller = call.caller, !.older = call.older,
                     !.snapshot = call.snapshot, !.base = base, !.replay = replay,
                     !.revision = revision, !.count = Sent(chain),
                     !.firstBlock = first, !.lastBlock = last]
        /\ Sent(chain) = 0 => first = 0
  BY DEF ReadConversation
<1>4. Carried(call.snapshot) /\ call.caller \in Callers
  BY <1>2 DEF Stay, Call
<1>5. base = checkpoint
  <2>1. ~Exists(checkpoint) => checkpoint = NoCheckpoint
    BY DEF Stay, Rooted, Deep, Exists
  <2> QED
    BY <1>4, <2>1 DEF Stay, Carried
<1>6. replay = FALSE
  BY <1>4, <1>5 DEF Stay, Carried, Loaded
<1> HIDE DEF call, base, replay
<1>7. /\ run'.caller = call.caller /\ run'.snapshot = call.snapshot /\ run'.base = checkpoint
      /\ run'.replay = FALSE /\ run'.count = Sent(chain) /\ run'.firstBlock = first
      /\ run'.to = 0 /\ run'.page = EmptyPage
  BY <1>3, <1>5, <1>6 DEF NoRun
<1>8. Resumes(run') /\ Truthful(run'.page)
  BY <1>3, <1>4, <1>7, EmptyValues DEF Resumes, Truthful
<1>9. Steady(run)'
  BY <1>1, <1>8 DEF Steady, Resumes, Carried, Loaded, Backed, Truthful, Holds, CountAt
<1>10. \A c \in Callers : ~batch[c].active
  BY <1>1 DEF Stay, OneAtATime
<1>11. OneAtATime' /\ \A k \in 1..Len(queue') : Carried(queue[k].snapshot)'
  BY SMTT(40), <1>1, <1>2, <1>10 DEF OneAtATime
<1>12. Rooted(checkpoint)' /\ Carried(messages)' /\ ShownTruthful'
  BY <1>1 DEF Stay, Rooted, Deep, Canonical, Carried, Loaded, Backed, ShownTruthful, Holds, CountAt
<1>13. \A c \in Callers : Owed(batch[c])'
  BY <1>1, <1>10 DEF Owed
<1> QED
  BY <1>1, <1>9, <1>11, <1>12, <1>13 DEF Stay

\* A receipt changes nothing that is finalized.
LEMMA ReceiptKeepsFinalized ==
  ASSUME Inv, DeliverReceipt
  PROVE  /\ \A i \in Ids : messages[i].finality = "finalized" => messages'[i] = messages[i]
         /\ \A i \in Ids : messages'[i].finality = "finalized" => messages'[i] = messages[i]
<1>1. messages' = messages \/ /\ messages[receipt.id].finality = "none"
                              /\ messages' = [messages EXCEPT ![receipt.id] =
                                                [at |-> receipt.at, finality |-> "confirmed"]]
  BY DEF DeliverReceipt, ApplyReceipt
<1> QED
  BY <1>1 DEF Inv, TypeOK, Projection

\* A failed or abandoned call waits for nothing more.
LEMMA OthersKeepStay ==
  ASSUME Inv, Stay,
         \/ DeliverReceipt \/ ObserveReceipt \/ UNCHANGED vars \/ \E c \in Callers : Drop(c)
  PROVE  Stay'
<1> USE InvParts
<1>1. UNCHANGED <<chain, checkpoint, pendingReset>>
  BY DEF DeliverReceipt, ObserveReceipt, Drop, vars, chainVars, memoryVars
<1>2. /\ \A i \in Ids : messages[i].finality = "finalized" => messages'[i] = messages[i]
      /\ \A i \in Ids : messages'[i].finality = "finalized" => messages'[i] = messages[i]
  BY ReceiptKeepsFinalized DEF ObserveReceipt, Drop, vars
<1>3. /\ run' = run \/ run' = NoRun
      /\ queue' = queue \/ queue' = <<>>
      /\ \A c \in Callers : batch'[c] = batch[c] \/ batch'[c] = NoBatch
  <2>1. CASE DeliverReceipt \/ ObserveReceipt \/ UNCHANGED vars
    BY <2>1 DEF DeliverReceipt, ObserveReceipt, vars
  <2>2. ASSUME NEW c \in Callers, Drop(c)
        PROVE  /\ run' = run \/ run' = NoRun
               /\ queue' = queue \/ queue' = <<>>
               /\ \A d \in Callers : batch'[d] = batch[d] \/ batch'[d] = NoBatch
    <3>1. ASSUME NEW k \in 1..Len(queue), queue' = RemoveAt(queue, k) PROVE queue' = <<>>
      <4>1. queue \in Seq(Call) /\ Len(queue) <= 1
        BY DEF TypeOK, Stay, OneAtATime
      <4> QED
        BY <3>1, <4>1 DEF RemoveAt
    <3> QED
      BY <2>2, <3>1 DEF Drop, TypeOK
  <2> QED
    BY <2>1, <2>2
<1>4. Carried(messages)'
  <2>1. CASE Exists(checkpoint)
    <3>1. \A i \in checkpoint.first..checkpoint.last : i \in Ids
      BY SMTT(40), HistoryAssumption DEF TypeOK, CheckpointType, Ids
    <3> QED
      BY <1>1, <1>2, <2>1, <3>1 DEF Stay, Carried, Backed, Exists
  <2>2. CASE ~Exists(checkpoint)
    BY <1>1, <1>2, <2>2 DEF Stay, Carried, Loaded, Exists
  <2> QED
    BY <2>1, <2>2
<1>5. ShownTruthful' /\ Rooted(checkpoint)'
  BY <1>1, <1>2 DEF Stay, ShownTruthful, Holds, CountAt, Rooted, Deep, Canonical
<1>6. OneAtATime'
  BY <1>3, NoRunSteady DEF Stay, OneAtATime, NoBatch
<1>7. \A k \in 1..Len(queue') : Carried(queue[k].snapshot)'
  BY <1>1, <1>3 DEF Stay, Carried, Loaded, Backed
<1>8. Steady(run)'
  <2>1. Steady(run')
    BY <1>3, NoRunSteady DEF Stay
  <2> QED
    BY <1>1, <2>1 DEF Steady, Resumes, Carried, Loaded, Backed, Truthful, Holds, CountAt
<1>9. \A c \in Callers : Owed(batch[c])'
  <2>1. \A c \in Callers : Owed(batch'[c])
    BY <1>3 DEF Stay, Owed, NoBatch
  <2> QED
    BY <1>1, <2>1 DEF Owed, Rooted, Deep, Canonical, Truthful, Holds, CountAt
<1> QED
  BY <1>1, <1>4, <1>5, <1>6, <1>7, <1>8, <1>9 DEF Stay

\* A message is in one block of the chain: two hashes of the chain that end with
\* that block are the same.
LEMMA SameMessage ==
  ASSUME TypeOK, ChainShape, NEW i \in Ids, NEW g \in Hash, NEW h \in Hash,
         Canonical(g), Canonical(h), Holds(g, Len(g), i), Holds(h, Len(h), i)
  PROVE  g = h
<1>1. chain \in Hash /\ Len(g) \in Nat /\ Len(h) \in Nat /\ i \in Nat \ {0}
  BY ChainFacts, HashFacts DEF Ids
<1>2. Holds(chain, Len(g), i) /\ Holds(chain, Len(h), i)
  BY <1>1, HoldsInPrefix DEF Canonical
<1>3. Canonical(chain)
  BY <1>1, PrefixBlocks, HashFacts DEF Canonical
<1>4. Len(g) = Len(h)
  <2>1. \A m, n \in 1..Len(chain) : Holds(chain, m, i) /\ Holds(chain, n, i) => m = n
    BY <1>1, <1>3, MessagesInOrder
  <2> QED
    BY <1>2, <2>1 DEF Holds
<1>5. \A n \in 1..Len(g) : g[n] = h[n]
  BY <1>1, <1>4, PrefixBlocks DEF Canonical
<1>6. g \in Seq(Block) /\ h \in Seq(Block)
  BY HashFacts
<1> QED
  BY <1>4, <1>5, <1>6

\* A batch that is applied adds messages, and replaces one only by itself.
LEMMA ApplyKeepsLoaded ==
  ASSUME Inv, Fin, Due, Stay, NEW c \in Callers, Apply(c), Current(c)
  PROVE  /\ messages' = Applied(messages, FALSE, FALSE, batch[c].page)
         /\ \A i \in Ids : messages[i].finality = "finalized" => messages'[i] = messages[i]
         /\ ShownTruthful'
<1> USE InvParts
<1>1. /\ batch[c].active /\ ~batch[c].reset /\ ~batch[c].replay
      /\ batch[c].page \in Page /\ Truthful(batch[c].page) /\ DeepPage(batch[c].page)
      /\ messages \in Projection
  <2>1. batch[c].active
    BY DEF Apply
  <2> QED
    BY <2>1, NothingResets, BatchFields DEF Stay, Owed, Fin, BatchesDeep, TypeOK
<1>2. messages' = Applied(messages, FALSE, FALSE, batch[c].page)
  <2>1. batch[c].reset = FALSE /\ batch[c].replay = FALSE
    BY <1>1, BatchFields
  <2> QED
    BY <2>1 DEF Apply
<1> DEFINE page == batch[c].page
<1>3. /\ messages' \in Projection
      /\ \A i \in IdsOf(page) : messages'[i].at = page[i] /\ messages'[i].finality = "finalized"
      /\ \A i \in Ids \ IdsOf(page) : messages'[i] = messages[i]
  <2>1. messages \in Projection /\ page \in Page /\ FALSE \in BOOLEAN
    BY <1>1
  <2>2. Applied(messages, FALSE, FALSE, page) \in Projection
    BY ONLY <2>1, AppliedType
  <2>3. \A i \in IdsOf(page) :
          /\ Applied(messages, FALSE, FALSE, page)[i].at = page[i]
          /\ Applied(messages, FALSE, FALSE, page)[i].finality = "finalized"
    BY ONLY <2>1, AppliedType
  <2>4. \A i \in Ids \ IdsOf(page) : Applied(messages, FALSE, FALSE, page)[i] = messages[i]
    BY ONLY <2>1, AppliedType
  <2>5. messages' = Applied(messages, FALSE, FALSE, page)
    BY <1>2
  <2> QED
    BY ONLY <2>2, <2>3, <2>4, <2>5
<1>4. IdsOf(page) \subseteq Ids /\ \A i \in IdsOf(page) : page[i] \in Hash
  BY <1>1 DEF IdsOf, Page
<1> HIDE DEF page
<1>5. ASSUME NEW i \in Ids, messages[i].finality = "finalized" PROVE messages'[i] = messages[i]
  <2>1. CASE i \notin IdsOf(page)
    BY <1>3, <2>1
  <2>2. CASE i \in IdsOf(page)
    <3>1. Canonical(page[i]) /\ Holds(page[i], Len(page[i]), i) /\ page[i] \in Hash
      BY <1>1, <1>4, <2>2 DEF page, Truthful, DeepPage, Deep
    <3>2. /\ Canonical(messages[i].at) /\ Holds(messages[i].at, Len(messages[i].at), i)
          /\ messages[i].at \in Hash
      BY <1>1, <1>5 DEF Fin, ShownDeep, Deep, Stay, ShownTruthful, Projection
    <3>3. page[i] = messages[i].at
      BY <3>1, <3>2, SameMessage
    <3>4. messages'[i].at = messages[i].at /\ messages'[i].finality = messages[i].finality
      BY <1>3, <1>5, <2>2, <3>3
    <3>5. /\ messages[i] \in [at: Hash, finality: Finality]
          /\ messages'[i] \in [at: Hash, finality: Finality]
      BY <1>1, <1>3 DEF Projection
    <3> QED
      BY <3>4, <3>5
  <2> QED
    BY <2>1, <2>2
<1>6. ASSUME NEW i \in Ids, messages'[i].finality = "finalized"
      PROVE  Holds(messages'[i].at, Len(messages'[i].at), i)
  <2>1. CASE i \in IdsOf(page)
    BY <1>1, <1>3, <2>1 DEF page, Truthful
  <2>2. CASE i \notin IdsOf(page)
    BY <1>3, <1>6, <2>2 DEF Stay, ShownTruthful
  <2> QED
    BY <2>1, <2>2
<1>7. ShownTruthful'
  BY <1>6 DEF ShownTruthful, Holds, CountAt
<1> QED
  BY <1>2, <1>5, <1>7

\* And the checkpoint it brings is backed by what is then shown.
LEMMA ApplyKeepsStay ==
  ASSUME Inv, Fin, Due, Stay, NEW c \in Callers, Callers = {c}, Apply(c)
  PROVE  Stay'
<1> USE InvParts
<1> DEFINE b == batch[c]
<1>1. /\ UNCHANGED <<chain, queue, run>> /\ b.active /\ batch' = [batch EXCEPT ![c] = NoBatch]
  BY DEF Apply, chainVars
<1>2. queue = <<>> /\ run.pc = "idle" /\ Owed(b) /\ Truthful(run.page)
  BY <1>1 DEF Stay, OneAtATime, Steady
<1>3. \A d \in Callers : batch'[d] = NoBatch /\ ~NoBatch.active
  BY <1>1 DEF TypeOK, NoBatch
<1>4. /\ OneAtATime' /\ Steady(run)' /\ \A d \in Callers : Owed(batch[d])'
      /\ \A k \in 1..Len(queue') : Carried(queue[k].snapshot)'
  BY <1>1, <1>2, <1>3 DEF OneAtATime, Steady, Truthful, Holds, CountAt, Owed
<1>5. CASE ~Current(c)
  <2>1. UNCHANGED <<messages, checkpoint, pendingReset>>
    BY <1>5 DEF Apply
  <2>2. Rooted(checkpoint)' /\ Carried(messages)' /\ ShownTruthful'
    BY <1>1, <2>1 DEF Stay, Rooted, Deep, Canonical, Carried, Loaded, Backed, ShownTruthful,
       Holds, CountAt
  <2> QED
    BY <1>4, <2>1, <2>2 DEF Stay
<1>6. CASE Current(c)
  <2> DEFINE applied == Applied(messages, FALSE, FALSE, b.page)
  <2>1. messages' = applied /\ ShownTruthful'
    BY <1>6, ApplyKeepsLoaded
  <2>2. /\ ~b.reset /\ ~b.replay
    BY <1>1, <1>2, <1>6, NothingResets DEF Owed
  <2>3. /\ checkpoint' = IF Backed(b.next, applied) THEN b.next ELSE NoCheckpoint
        /\ pendingReset' = Nobody
    BY <1>6, <2>1, <2>2 DEF Apply, Stay
  <2>4. CASE Exists(b.next)
    <3>1. Earned(b.next, b.page, checkpoint)
      BY <1>1, <1>6, <2>2, <2>4 DEF Inv, BatchShape, Extended
    <3>2. Exists(checkpoint) => Backed(checkpoint, messages)
      BY DEF Stay, Carried
    <3>3. /\ b.next \in CheckpointType /\ b.page \in Page /\ messages \in Projection
          /\ checkpoint \in CheckpointType /\ Ordered(b.next) /\ Rooted(b.next)
      BY <1>1, <1>2, <2>4, BatchFields DEF TypeOK, Owed
    <3>4. Backed(b.next, applied)
      BY <2>4, <3>1, <3>2, <3>3, EarnedIsBacked
    <3> HIDE DEF applied, b
    <3>5. checkpoint' = b.next
      BY <2>3, <3>4
    <3>6. Carried(messages)'
      BY <2>1, <2>4, <3>4, <3>5 DEF Carried, Backed, Exists
    <3>7. Rooted(checkpoint)'
      BY <1>1, <3>3, <3>5 DEF Rooted, Deep, Canonical
    <3> QED
      BY <1>4, <2>1, <2>3, <3>6, <3>7 DEF Stay
  <2>5. CASE ~Exists(b.next)
    <3>1. checkpoint' = NoCheckpoint
      BY <2>3, <2>5 DEF Backed
    <3>2. IdsOf(b.page) = {} /\ ~Exists(checkpoint)
      BY <1>1, <1>2, <2>5 DEF Owed
    <3>3. ~Loaded(messages)
      BY <3>2 DEF Stay, Carried
    <3>4. \A i \in Ids : applied[i] = messages[i]
      <4>1. messages \in Projection /\ b.page \in Page
        BY BatchFields DEF TypeOK
      <4>2. \A i \in Ids \ IdsOf(b.page) : applied[i] = messages[i]
        BY ONLY <4>1, AppliedType
      <4> QED
        BY ONLY <3>2, <4>2
    <3> HIDE DEF applied, b
    <3>5. Carried(messages)'
      BY <2>1, <3>1, <3>3, <3>4, EmptyValues DEF Carried, Loaded, Exists
    <3>6. Rooted(checkpoint)'
      BY <3>1 DEF Rooted
    <3> QED
      BY <1>4, <2>1, <2>3, <3>5, <3>6 DEF Stay
  <2> QED
    BY <2>4, <2>5
<1> QED
  BY <1>5, <1>6

\* So all of this holds always.
LEMMA StayHolds ==
  ASSUME NEW only, Callers = {only}, ReorgDepth <= ConfirmationDepth, Lag = 0
  PROVE  Spec => []Stay
<1>1. Init => Stay
  <2> SUFFICES ASSUME Init PROVE Stay
    OBVIOUS
  <2>1. /\ pendingReset = Nobody /\ checkpoint = NoCheckpoint /\ run = NoRun /\ queue = <<>>
        /\ messages = EmptyProjection /\ \A c \in Callers : batch[c] = NoBatch
    BY DEF Init
  <2>2. ~Exists(checkpoint)
    BY <2>1, EmptyValues
  <2>3. \A i \in Ids : messages[i].finality # "finalized"
    BY <2>1 DEF EmptyProjection, Absent
  <2> QED
    BY <2>1, <2>2, <2>3, NoRunSteady
       DEF Stay, Rooted, Carried, Loaded, ShownTruthful, OneAtATime, Owed, NoBatch
<1>2. Inv /\ Fin /\ Due /\ Stay /\ [Next]_vars => Stay'
  <2> SUFFICES ASSUME Inv, Fin, Due, Stay, [Next]_vars PROVE Stay'
    OBVIOUS
  <2>1. CASE Mine \/ Reorg
    BY <2>1, ChainKeepsStay
  <2>2. CASE ReadConversation
    BY <2>2, ConversationKeepsStay
  <2>3. CASE ReadLatest \/ ReadCheckpointBlock \/ ReadSafeHead \/ ReadBoundary
    BY <2>3, BlocksKeepStay
  <2>4. CASE ReadLogs \/ CheckEventBlock \/ RecheckCheckpoint
    BY <2>4, LogsKeepStay, ChecksKeepStay
  <2>5. CASE NothingFinal \/ RecheckBoundary \/ RecheckSafeHead \/ ResetCursor
    BY <2>5, EndsKeepStay
  <2>6. ASSUME NEW c \in Callers, NEW older \in BOOLEAN, Ask(c, older) PROVE Stay'
    <3>1. Callers = {c}
      OBVIOUS
    <3> QED
      BY <2>6, <3>1, AskKeepsStay
  <2>7. ASSUME NEW c \in Callers, Apply(c) PROVE Stay'
    <3>1. Callers = {c}
      OBVIOUS
    <3> QED
      BY <2>7, <3>1, ApplyKeepsStay
  <2>8. CASE DeliverReceipt \/ ObserveReceipt \/ UNCHANGED vars \/ \E c \in Callers : Drop(c)
    BY <2>8, OthersKeepStay
  <2> QED
    BY <2>1, <2>2, <2>3, <2>4, <2>5, <2>6, <2>7, <2>8 DEF Next, Environment, Read
<1>3. (Spec => []Fin) /\ (Spec => []Due)
  BY FinHolds, DueHolds
<1> QED
  BY <1>1, <1>2, <1>3, InvHolds, PTL DEF Spec

\* A finalized message that is on the chain stays as it is, for a single caller,
\* reorganisations no deeper than the confirmation depth and nodes that are not
\* behind, whatever fails or is abandoned and whatever records the answers miss.
THEOREM LoadedIsKept ==
  ASSUME NEW only, Callers = {only}, ReorgDepth <= ConfirmationDepth, Lag = 0
  PROVE  Spec => LoadedStays
<1> DEFINE Same == \A i \in Ids : messages[i].finality = "finalized" /\ Canonical(messages[i].at)
                                    => messages'[i] = messages[i]
<1>1. Inv /\ Fin /\ Due /\ Stay /\ [Next]_vars => [Same]_vars
  <2> SUFFICES ASSUME Inv, Fin, Due, Stay, [Next]_vars, messages' # messages
               PROVE  Same
    OBVIOUS
  <2>1. CASE DeliverReceipt
    BY <2>1, ReceiptKeepsFinalized
  <2>2. ASSUME NEW c \in Callers, Apply(c) PROVE Same
    <3>1. Current(c)
      BY <2>2 DEF Apply
    <3> QED
      BY <2>2, <3>1, ApplyKeepsLoaded
  <2>3. DeliverReceipt \/ \E c \in Callers : Apply(c)
    <3>1. Environment => DeliverReceipt
      BY DEF Environment, Mine, Reorg, ObserveReceipt
    <3>2. ~Read
      BY DEF Read, ReadConversation, ReadLatest, ReadCheckpointBlock, ReadSafeHead, NothingFinal,
         ReadBoundary, ReadLogs, CheckEventBlock, RecheckCheckpoint, RecheckBoundary,
         RecheckSafeHead, ResetCursor, onlyRun, onlyReturn
    <3>3. \A c \in Callers : ~Drop(c) /\ \A older \in BOOLEAN : ~Ask(c, older)
      BY DEF Drop, Ask
    <3> QED
      BY <3>1, <3>2, <3>3 DEF Next, vars
  <2> QED
    BY <2>1, <2>2, <2>3
<1>2. (Spec => []Fin) /\ (Spec => []Due)
  BY FinHolds, DueHolds
<1>3. Spec => []Stay
  BY StayHolds
<1> QED
  BY <1>1, <1>2, <1>3, InvHolds, PTL DEF Spec, LoadedStays
=============================================================================
