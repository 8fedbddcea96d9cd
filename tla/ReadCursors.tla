---------------------------- MODULE ReadCursors ----------------------------
(***************************************************************************)
(* How far a conversation has been read: the cursor a browser keeps in     *)
(* localStorage (directChatV2ReadCursorStore.ts) and its copy in a table   *)
(* shared by the owner's devices (chatReadCursorCloud.ts, the trigger in   *)
(* 20260813145601_chat_read_cursor_sync.sql).                              *)
(*                                                                         *)
(* A cursor names the last message read and the block that holds it, and   *)
(* is trusted only while that block is on the chain.  A reorganisation     *)
(* starts a new generation with an empty cursor; the higher generation     *)
(* wins every merge.  The tabs mark, merge and reset; each await is a      *)
(* boundary.  Either they are of one browser, with one storage and one Web *)
(* Lock and no cloud session, or each is a device of its own and all write *)
(* the row.                                                                *)
(*                                                                         *)
(* A block is named by the branch it was mined on, so that born[m] is the  *)
(* block of message m and a replaced one never comes back.  What a merge   *)
(* is told of a block need not be so: a node may be behind.                *)
(***************************************************************************)
EXTENDS Naturals, Sequences, FiniteSets

CONSTANTS
  Tabs,         \* tabs of one owner
  MaxMessages,  \* bound: messages of the conversation
  MaxReorgs,    \* bound: reorganisations deeper than the finality depth
  MaxTroubles   \* bound: these, failed calls, reloads, wiped rows and wrong answers

ASSUME CursorAssumption ==
  /\ MaxMessages \in Nat /\ MaxReorgs \in Nat /\ MaxTroubles \in Nat

VARIABLES
  shared,       \* are the tabs of one browser, without a cloud session?
  born,         \* Seq(branches): the messages on the chain
  branch,       \* reorganisations so far
  store,        \* [Tabs -> Cursor]: localStorage of the tab's browser
  row,          \* Cursor or NoRow: the row of the conversation
  view,         \* [Tabs -> Seq(branches)]: the history the tab projects
  op,           \* [Tabs -> Op]: the mark or load under way
  reset,        \* [Tabs -> Reset]: the reset under way
  notices,      \* tabs a reset notice is on its way to
  marked,       \* history: positions a user has seen
  troubles      \* what has gone wrong so far

chainVars  == <<born, branch>>
cursorVars == <<shared, born, branch, store, row, view, op, reset, notices, marked,
                troubles>>

Cursor == [gen : Nat, id : 0..MaxMessages, branch : 0..MaxReorgs]

Empty(g) == [gen |-> g, id |-> 0, branch |-> 0]
NoRow    == [none |-> TRUE]

OpPhases    == {"idle", "queued", "merging", "pulling", "judging", "pushing"}
ResetPhases == {"idle", "queued", "reading", "writing"}

(* cap: the message count the call began with; todo: cursors whose anchor  *)
(* is still to be read; best: the latest one found; remote: the row;       *)
(* delta: resets noticed since the call was enqueued; again: the merge of  *)
(* the cloud's answer; lost, a history: cursors on the chain that the      *)
(* merge was told are not.                                                 *)
NoOp    == [phase |-> "idle", cap |-> 0, todo |-> <<>>, best |-> Empty(0),
            remote |-> NoRow, delta |-> 0, again |-> FALSE, lost |-> {}]
NoReset == [phase |-> "idle", next |-> 0]

CursorInit ==
  /\ shared \in BOOLEAN
  /\ born = <<>> /\ branch = 0
  /\ store = [t \in Tabs |-> Empty(0)] /\ row = NoRow
  /\ view = [t \in Tabs |-> <<>>]
  /\ op = [t \in Tabs |-> NoOp] /\ reset = [t \in Tabs |-> NoReset]
  /\ notices = {}
  /\ marked = {} /\ troubles = 0

-----------------------------------------------------------------------------
(* Cursors *)

(* The block the cursor names is on the chain and holds the message. *)
Anchored(c) == c.id \in 1..Len(born) /\ born[c.id] = c.branch

(* Something goes wrong, if the bound leaves room for it. *)
Trouble == troubles < MaxTroubles /\ troubles' = troubles + 1

(* canonicalAnchorReader, which reads a block and its log: a node that is  *)
(* behind does not have the block yet, or still has one that was replaced, *)
(* and a log may come without the message.  No answer tells which it is.   *)
Answered(c, found) == IF found = Anchored(c) THEN UNCHANGED troubles ELSE Trouble

(* mergeDirectChatV2ReadCursors of one cursor and another, if there is     *)
(* one: only those of the newest generation that name a message count, and *)
(* the anchor of equal ones is read once.                                  *)
Candidates(mine, other) ==
  LET newest == IF other # NoRow /\ other.gen > mine.gen THEN other.gen ELSE mine.gen
      Named(c) == c # NoRow /\ c.gen = newest /\ c.id > 0
  IN  [best |-> Empty(newest),
       todo |-> (IF Named(mine) THEN <<mine>> ELSE <<>>)
                  \o (IF Named(other) /\ other # mine THEN <<other>> ELSE <<>>)]

(* Browser of t, and the tabs that share its storage and its Web Lock. *)
Browser(t) == IF shared THEN Tabs ELSE {t}

(* Mutant: each tab takes a lock of its own. *)
LockPerTab(t) == op[t].phase # "merging"

Unlocked(t) == \A u \in Browser(t) : op[u].phase # "merging"

Persist(t, c) == store' = [u \in Tabs |-> IF u \in Browser(t) THEN c ELSE store[u]]

(* Mutant: the boundary is counted back from the stored generation. *)
BoundaryBefore(t) == Empty(store[t].gen - op[t].delta)

(* loadResetBoundary *)
Boundary(t) == Empty(store[t].gen + op[t].delta)

(* enforce_chat_read_cursor_monotonic_update, for an upsert of new. *)
RowAccepts(new) ==
  \/ row = NoRow
  \/ new.gen > row.gen /\ new.id = 0
  \/ /\ new.gen = row.gen
     /\ new.id > row.id \/ (new.id = row.id /\ new.branch = row.branch)

-----------------------------------------------------------------------------
(* Marks and loads *)

Enqueue(t, cap, candidates, again) ==
  op' = [op EXCEPT ![t] = [NoOp EXCEPT !.phase = "queued", !.cap = cap,
                             !.todo = candidates, !.again = again]]

(* The cursor of a message on screen, in the generation that is stored. *)
Shown(t, m) == [gen |-> store[t].gen, id |-> m, branch |-> view[t][m]]

(* Mutant: the block is taken from the chain, not from the row on screen. *)
MarkCurrentBlock(t) ==
  /\ op[t].phase = "idle"
  /\ \E m \in DOMAIN view[t] \cap DOMAIN born :
       /\ m > store[t].id
       /\ marked' = marked \cup {<<m, view[t][m]>>}
       /\ Enqueue(t, Len(born), <<[Shown(t, m) EXCEPT !.branch = born[m]]>>, FALSE)
  /\ UNCHANGED <<shared, chainVars, store, row, view, reset, notices, troubles>>

(* advanceVisibleAndPersist: the candidate is made from the stored cursor  *)
(* at once.  The count was read before, over awaits; a lower one makes the *)
(* call throw, as OpFails does.                                            *)
Mark(t) ==
  /\ op[t].phase = "idle"
  /\ \E m \in DOMAIN view[t] :
       /\ m > store[t].id
       /\ marked' = marked \cup {<<m, view[t][m]>>}
       /\ Enqueue(t, Len(born), <<Shown(t, m)>>, FALSE)
  /\ UNCHANGED <<shared, chainVars, store, row, view, reset, notices, troubles>>

(* loadCanonical, for an unread count or a notice of another tab.  The     *)
(* cursor in a notice is one the shared storage held, and is left out.     *)
Load(t) ==
  /\ op[t].phase = "idle"
  /\ Enqueue(t, Len(born), <<>>, FALSE)
  /\ UNCHANGED <<shared, chainVars, store, row, view, reset, notices, marked, troubles>>

(* A local merge gave c: on to the cloud, unless there is none or it was   *)
(* the cloud's answer that was merged.                                     *)
Merged(t, c, lost) ==
  op' = [op EXCEPT ![t] =
           IF shared \/ @.again
             THEN [NoOp EXCEPT !.lost = lost]
             ELSE [NoOp EXCEPT !.phase = "pulling", !.cap = op[t].cap, !.best = c, !.lost = lost]]

(* All anchors are read: the result is stored, unless a reset came while   *)
(* the call ran, and the lock is free again.                               *)
Commit(t, c, lost) ==
  IF op[t].delta > 0
    THEN Merged(t, Boundary(t), {}) /\ UNCHANGED store
    ELSE Merged(t, c, lost) /\ Persist(t, c)

(* The browser's lock is ours: a call that a reset has overtaken returns   *)
(* the boundary, any other starts from the stored cursor.                  *)
Acquire(t) ==
  /\ op[t].phase = "queued" /\ Unlocked(t)
  /\ LET merge == Candidates(store[t], IF op[t].todo = <<>> THEN NoRow ELSE Head(op[t].todo))
     IN  IF op[t].delta > 0 \/ merge.todo = <<>>
           THEN Commit(t, merge.best, {})
           ELSE /\ op' = [op EXCEPT ![t].phase = "merging",
                                    ![t].best = merge.best, ![t].todo = merge.todo]
                /\ UNCHANGED store
  /\ UNCHANGED <<shared, chainVars, row, view, reset, notices, marked, troubles>>

(* Mutant: the cloud's answer is not merged into the browser's storage. *)
JudgedKeepsAnswer(t, best, remote) ==
  op' = [op EXCEPT ![t] = IF best = remote
                            THEN NoOp
                            ELSE [NoOp EXCEPT !.phase = "pushing", !.cap = op[t].cap,
                                    !.best = best, !.remote = remote]]

(* The row and the local cursor are merged into best: an upsert is made    *)
(* only if that is not what the row was.                                   *)
Judged(t, best, remote) ==
  IF best = remote
    THEN Enqueue(t, op[t].cap, <<best>>, TRUE)
    ELSE op' = [op EXCEPT ![t] = [NoOp EXCEPT !.phase = "pushing", !.cap = op[t].cap,
                                    !.best = best, !.remote = remote]]

(* One anchor is read; the last one ends the merge.  If it is found above  *)
(* the count the call began with the merge throws: locally the call        *)
(* rejects, a reconcile returns what it has; either way it is over.        *)
ReadAnchor(t) ==
  /\ op[t].phase \in {"merging", "judging"}
  /\ \E found \in BOOLEAN :
       LET c    == Head(op[t].todo)
           best == IF found /\ c.id > op[t].best.id THEN c ELSE op[t].best
           lost == IF Anchored(c) /\ ~found THEN op[t].lost \cup {c} ELSE op[t].lost
       IN  /\ Answered(c, found)
           /\ IF found /\ c.id > op[t].cap
                THEN op' = [op EXCEPT ![t] = NoOp] /\ UNCHANGED store
              ELSE IF Len(op[t].todo) > 1
                THEN /\ op' = [op EXCEPT ![t].todo = Tail(@), ![t].best = best, ![t].lost = lost]
                     /\ UNCHANGED store
              ELSE IF op[t].phase = "merging"
                THEN Commit(t, best, lost)
                ELSE Judged(t, best, op[t].remote) /\ UNCHANGED store
  /\ UNCHANGED <<shared, chainVars, row, view, reset, notices, marked>>

(* reconcileDirectChatReadCursorCloud: the row is read. *)
Pull(t) ==
  /\ op[t].phase = "pulling"
  /\ LET merge == Candidates(op[t].best, row)
     IN  IF merge.todo = <<>>
           THEN Judged(t, merge.best, row)
           ELSE op' = [op EXCEPT ![t].phase = "judging", ![t].remote = row, ![t].lost = {},
                                 ![t].best = merge.best, ![t].todo = merge.todo]
  /\ UNCHANGED <<shared, chainVars, store, row, view, reset, notices, marked, troubles>>

(* One upsert, of the cursor or first of the empty boundary of a new       *)
(* generation; a row the trigger refuses ends the call.                    *)
Push(t) ==
  /\ op[t].phase = "pushing"
  /\ LET best  == op[t].best
         opens == op[t].remote # NoRow /\ best.gen > op[t].remote.gen
         new   == IF opens THEN Empty(best.gen) ELSE best
     IN  IF ~RowAccepts(new)
           THEN UNCHANGED row /\ op' = [op EXCEPT ![t] = NoOp]
           ELSE row' = new /\ Judged(t, best, new)
  /\ UNCHANGED <<shared, chainVars, store, view, reset, notices, marked, troubles>>

-----------------------------------------------------------------------------
(* Resets *)

(* The checkpoint's block is on the chain: it lies above what is shown. *)
Agrees(t) ==
  /\ Len(view[t]) <= Len(born)
  /\ \A m \in DOMAIN view[t] : view[t][m] = born[m]

(* A call of t, if one runs, has been overtaken by a reset. *)
Overtaken(o) == IF o.phase \in {"queued", "merging"} THEN [o EXCEPT !.delta = @ + 1] ELSE o

(* The projection is of another branch: the cursor is reset, announced to  *)
(* the other tabs at once.                                                 *)
StartReset(t) ==
  /\ reset' = [reset EXCEPT ![t].phase = "queued"]
  /\ op' = [op EXCEPT ![t] = Overtaken(@)]
  /\ notices' = notices \cup (Browser(t) \ {t})
  /\ UNCHANGED view

(* The runtime reads the history: it grows, or its checkpoint's block is   *)
(* gone; so it seems also with a node that is behind, or when the block    *)
(* was replaced and no message with it.                                    *)
Sync(t) ==
  /\ reset[t].phase = "idle"
  /\ \/ /\ Agrees(t) /\ view[t] # born
        /\ view' = [view EXCEPT ![t] = born]
        /\ UNCHANGED <<op, reset, notices, troubles>>
     \/ ~Agrees(t) /\ StartReset(t) /\ UNCHANGED troubles
     \/ view[t] # <<>> /\ Agrees(t) /\ StartReset(t) /\ Trouble
  /\ UNCHANGED <<shared, chainVars, store, row, marked>>

(* A notice of another tab's reset arrives. *)
Notice(t) ==
  /\ t \in notices /\ notices' = notices \ {t}
  /\ op' = [op EXCEPT ![t] = Overtaken(@)]
  /\ UNCHANGED <<shared, chainVars, store, row, view, reset, marked, troubles>>

(* The batch is handed on and the projection starts over. *)
Settle(t) ==
  /\ reset' = [reset EXCEPT ![t] = NoReset]
  /\ view' = [view EXCEPT ![t] = <<>>]

(* Under the lock the next generation begins, empty, and is announced. *)
ResetStore(t) ==
  /\ reset[t].phase = "queued" /\ Unlocked(t)
  /\ Persist(t, Empty(store[t].gen + 1))
  /\ notices' = notices \cup (Browser(t) \ {t})
  /\ IF shared
       THEN Settle(t)
       ELSE reset' = [reset EXCEPT ![t].phase = "reading"] /\ UNCHANGED view
  /\ UNCHANGED <<shared, chainVars, row, op, marked, troubles>>

(* resetDirectChatReadCursorCloud reads the row's generation. *)
ResetReads(t) ==
  /\ reset[t].phase = "reading"
  /\ reset' = [reset EXCEPT ![t] =
        [phase |-> "writing", next |-> IF row = NoRow THEN 0 ELSE row.gen + 1]]
  /\ UNCHANGED <<shared, chainVars, store, row, view, op, notices, marked, troubles>>

(* It writes the generation after it, if the row accepts that. *)
ResetWrites(t) ==
  /\ reset[t].phase = "writing"
  /\ row' = IF RowAccepts(Empty(reset[t].next)) THEN Empty(reset[t].next) ELSE row
  /\ Settle(t)
  /\ UNCHANGED <<shared, chainVars, store, op, notices, marked, troubles>>

-----------------------------------------------------------------------------
(* The world *)

(* A read of the chain, the lock or the cloud rejects. *)
OpFails(t) ==
  /\ Trouble
  /\ op[t].phase # "idle" /\ op' = [op EXCEPT ![t] = NoOp]
  /\ UNCHANGED <<shared, chainVars, store, row, view, reset, notices, marked>>

(* The cloud's failure is only reported; the local half of a reset rejects *)
(* only when its store is closed, as a reload closes it.                   *)
ResetFails(t) ==
  /\ reset[t].phase \in {"reading", "writing"} /\ Settle(t)
  /\ UNCHANGED <<shared, chainVars, store, row, op, notices, marked, troubles>>

(* A reload forgets the projection and its checkpoint. *)
Reload(t) ==
  /\ Trouble
  /\ op' = [op EXCEPT ![t] = NoOp] /\ reset' = [reset EXCEPT ![t] = NoReset]
  /\ notices' = notices \ {t}
  /\ view' = [view EXCEPT ![t] = <<>>]
  /\ UNCHANGED <<shared, chainVars, store, row, marked>>

(* deleteChatReadCursorCloudWallet *)
Wipe ==
  /\ Trouble
  /\ row # NoRow /\ row' = NoRow
  /\ UNCHANGED <<shared, chainVars, store, view, op, reset, notices, marked>>

Post ==
  /\ Len(born) < MaxMessages /\ born' = Append(born, branch)
  /\ UNCHANGED <<shared, branch, store, row, view, op, reset, notices, marked, troubles>>

(* The messages from some m on move to other blocks, or are gone. *)
Reorg ==
  /\ branch < MaxReorgs /\ branch' = branch + 1
  /\ Trouble
  /\ \E m \in DOMAIN born, n \in 0..MaxMessages :
       /\ m - 1 + n <= Len(born)
       /\ born' = [i \in 1..(m - 1 + n) |-> IF i < m THEN born[i] ELSE branch + 1]
  /\ UNCHANGED <<shared, store, row, view, op, reset, notices, marked>>

CallStep(t) == Acquire(t) \/ ReadAnchor(t) \/ Pull(t) \/ Push(t)

CursorNext ==
  \/ Post \/ Reorg \/ Wipe
  \/ \E t \in Tabs : \/ CallStep(t) \/ Mark(t) \/ Load(t) \/ Sync(t) \/ Notice(t)
                     \/ ResetStore(t) \/ ResetReads(t) \/ ResetWrites(t)
                     \/ OpFails(t) \/ ResetFails(t) \/ Reload(t)

CursorSpec == CursorInit /\ [][CursorNext]_cursorVars

(* Calls are answered, the history is read and unread counts are taken on  *)
(* the App's timers; the queue of the tab and the browser's lock are first *)
(* come, first served.  Nobody has to mark, and nothing has to fail.       *)
FairCursorSpec ==
  /\ CursorSpec
  /\ \A t \in Tabs :
       /\ WF_cursorVars(CallStep(t)) /\ WF_cursorVars(Load(t))
       /\ WF_cursorVars(Sync(t) /\ UNCHANGED troubles)
       /\ SF_cursorVars(Acquire(t)) /\ SF_cursorVars(ResetStore(t))
       /\ WF_cursorVars(ResetReads(t)) /\ WF_cursorVars(ResetWrites(t))

-----------------------------------------------------------------------------
(* Type correctness. *)
CursorTypeOK ==
  /\ shared \in BOOLEAN
  /\ branch \in 0..MaxReorgs /\ born \in Seq(0..MaxReorgs) /\ Len(born) <= MaxMessages
  /\ store \in [Tabs -> Cursor] /\ row \in Cursor \cup {NoRow}
  /\ \A t \in Tabs :
       /\ view[t] \in Seq(0..MaxReorgs)
       /\ op[t].phase \in OpPhases /\ op[t].best \in Cursor
       /\ op[t].remote \in Cursor \cup {NoRow} /\ op[t].delta \in Nat /\ op[t].lost \subseteq Cursor
       /\ reset[t].phase \in ResetPhases
  /\ notices \subseteq Tabs /\ troubles \in 0..MaxTroubles

(* A cursor says a message was read only if a user saw it, in the block    *)
(* the cursor names, on one of the devices: no merge of generations, rows  *)
(* and boundaries makes a position up, or ties one to another's block.     *)
PositionWasSeen ==
  /\ \A t \in Tabs : store[t].id > 0 => <<store[t].id, store[t].branch>> \in marked
  /\ row # NoRow /\ row.id > 0 => <<row.id, row.branch>> \in marked

(* What a browser has stored is not lost to a late merge, to another tab   *)
(* or to the cloud: the generation never falls, and within one a position  *)
(* falls only when its block has left the chain, or when a node that was   *)
(* behind denied that very position to the merge that stored the lower one *)
(* (no answer tells the two apart, and the code persists either).          *)
PositionIsKept ==
  [][\A t \in Tabs :
       /\ store'[t].gen >= store[t].gen
       /\ store'[t].gen = store[t].gen /\ store'[t].id < store[t].id =>
            \/ ~Anchored(store[t])
            \/ \E u \in Browser(t) : op[u].phase = "merging" /\ store[t] \in op'[u].lost]_cursorVars

(* Once nothing fails any more and the chain keeps its blocks, every       *)
(* device and the row agree, whatever crossed on the way: what one has     *)
(* read the others show as read.                                           *)
DevicesAgree == <>[](shared \/ \A t \in Tabs : store[t] = row)
=============================================================================
