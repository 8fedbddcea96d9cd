------------------------- MODULE ReadCursors_proofs -------------------------
(***************************************************************************)
(* What the read cursors promise, for any number of tabs, messages,        *)
(* reorganisations and failures: the types, that a cursor names only what  *)
(* a user has seen, and that a stored position is not lost.                *)
(*                                                                         *)
(* A position is lost neither to another tab, since a merge begins from    *)
(* the stored cursor and nothing else is stored until its lock is free,    *)
(* nor to a late merge, since a block that has left the chain never comes  *)
(* back; only a node that denies a block of the chain can take it away.    *)
(***************************************************************************)
EXTENDS ReadCursors, SequenceTheorems, TLAPS

Calls  == [phase : OpPhases, cap : Nat, todo : Seq(Cursor), best : Cursor,
           remote : Cursor \cup {NoRow}, delta : Nat, again : BOOLEAN, lost : SUBSET Cursor]
Resets == [phase : ResetPhases, next : Nat]

(* Types, with those of the calls under way. *)
Typed ==
  /\ shared \in BOOLEAN
  /\ branch \in 0..MaxReorgs /\ born \in Seq(0..MaxReorgs) /\ Len(born) <= MaxMessages
  /\ store \in [Tabs -> Cursor] /\ row \in Cursor \cup {NoRow}
  /\ view \in [Tabs -> Seq(0..MaxReorgs)] /\ \A t \in Tabs : Len(view[t]) <= MaxMessages
  /\ op \in [Tabs -> Calls] /\ reset \in [Tabs -> Resets]
  /\ notices \subseteq Tabs /\ troubles \in 0..MaxTroubles

(* A merge has an anchor to read. *)
AnchorsLeft ==
  \A t \in Tabs : op[t].phase \in {"merging", "judging"} => op[t].todo # <<>>

(* A cursor, if there is one, names what a user has seen. *)
SeenIn(seen, c) == c # NoRow /\ c.id > 0 => <<c.id, c.branch>> \in seen
CallSeenIn(seen, o) ==
  /\ SeenIn(seen, o.best) /\ SeenIn(seen, o.remote)
  /\ \A i \in DOMAIN o.todo : SeenIn(seen, o.todo[i])
AllSeen ==
  /\ SeenIn(marked, row)
  /\ \A t \in Tabs : SeenIn(marked, store[t]) /\ CallSeenIn(marked, op[t])

(* A position was mined; while its branch is the chain's, it is there. *)
AtHome(m, b) == b \in Nat /\ b <= branch /\ (b = branch => m \in DOMAIN born /\ born[m] = b)
AllAtHome ==
  /\ \A m, b : <<m, b>> \in marked => AtHome(m, b)
  /\ \A t \in Tabs : \A m \in DOMAIN view[t] : AtHome(m, view[t][m])
  /\ \A m \in DOMAIN born : born[m] <= branch

(* Tabs of one browser have one storage and one lock. *)
OneStore == shared => \A t, u \in Tabs : store[t] = store[u]
OneHolder ==
  shared => \A t, u \in Tabs :
              op[t].phase = "merging" /\ op[u].phase = "merging" => t = u

(* A merge that holds the lock will not fall behind what is stored: the    *)
(* stored cursor is still to be judged, is reached, is off the chain, or   *)
(* was said to be.                                                         *)
Ahead(o, c) ==
  /\ o.best.gen >= c.gen
  /\ \A i \in DOMAIN o.todo : o.todo[i].gen = o.best.gen
  /\ o.best.gen = c.gen /\ o.best.id < c.id =>
       ~Anchored(c) \/ c \in o.lost \/ \E i \in DOMAIN o.todo : o.todo[i] = c
MergesKeep == \A t \in Tabs : op[t].phase = "merging" => Ahead(op[t], store[t])

CursorInv ==
  Typed /\ AnchorsLeft /\ AllSeen /\ AllAtHome /\ OneStore /\ OneHolder /\ MergesKeep

-----------------------------------------------------------------------------
(* Cursors, and the anchors a merge reads.                                 *)

(* An empty cursor names nothing. *)
LEMMA EmptyIsCursor ==
  ASSUME NEW g \in Nat
  PROVE  /\ Empty(g) \in Cursor /\ Empty(g).gen = g /\ Empty(g).id = 0
         /\ \A seen : SeenIn(seen, Empty(g))
  BY CursorAssumption DEF Empty, Cursor, SeenIn

(* No row is no cursor, and names nothing. *)
LEMMA NoRowIsNoCursor == NoRow \notin Cursor /\ \A seen : SeenIn(seen, NoRow)
<1>1. NoRow \notin Cursor
  BY DEF NoRow, Cursor
<1> QED  BY <1>1 DEF SeenIn

(* What a call does to another tab's: nothing. *)
LEMMA CallReplaced ==
  ASSUME op \in [Tabs -> Calls], NEW t \in Tabs, NEW o \in Calls, op' = [op EXCEPT ![t] = o]
  PROVE  /\ op' \in [Tabs -> Calls] /\ op'[t] = o
         /\ \A u \in Tabs : u # t => op'[u] = op[u]
  OBVIOUS

(* Anchors are read from the first on. *)
LEMMA TodoParts ==
  ASSUME NEW s \in Seq(Cursor), s # << >>
  PROVE  /\ Head(s) \in Cursor /\ Tail(s) \in Seq(Cursor)
         /\ \E i \in DOMAIN s : s[i] = Head(s)
         /\ \A j \in DOMAIN Tail(s) : \E i \in DOMAIN s : s[i] = Tail(s)[j]
         /\ \A i \in DOMAIN s : s[i] = Head(s) \/ \E j \in DOMAIN Tail(s) : Tail(s)[j] = s[i]
         /\ Len(s) > 1 => Tail(s) # << >>
         /\ ~(Len(s) > 1) => \A i \in DOMAIN s : s[i] = Head(s)
<1> DEFINE n == Len(s)
           r == Tail(s)
<1>1. n \in Nat /\ n # 0 /\ DOMAIN s = 1..n
  BY EmptySeq
<1>2. /\ Head(s) = s[1] /\ r \in Seq(Cursor) /\ Len(r) = n - 1
      /\ \A j \in 1..(n - 1) : r[j] = s[j + 1]
  BY HeadTailProperties
<1>3. DOMAIN r = 1..(n - 1)
  BY <1>2, LenProperties
<1>4. Head(s) \in Cursor
  BY HeadTailProperties
<1> HIDE DEF n, r
<1>5. /\ 1 \in 1..n
      /\ \A j \in 1..(n - 1) : j + 1 \in 1..n
      /\ \A i \in 1..n : i = 1 \/ (i - 1 \in 1..(n - 1) /\ (i - 1) + 1 = i)
      /\ n > 1 => n - 1 # 0
      /\ ~(n > 1) => \A i \in 1..n : i = 1
  BY ONLY <1>1
<1>6. n > 1 => r # << >>
  BY <1>2, <1>5
<1>7. \A i \in 1..n : s[i] = s[1] \/ \E j \in 1..(n - 1) : r[j] = s[i]
  BY <1>2, <1>5
<1>8. \A j \in 1..(n - 1) : \E i \in 1..n : s[i] = r[j]
  BY <1>2, <1>5
<1> QED  BY <1>1, <1>2, <1>3, <1>4, <1>5, <1>6, <1>7, <1>8 DEF n, r

(* A merge starts empty, in the newest generation, with the cursors of it  *)
(* still to be judged.                                                     *)
LEMMA CandidatesAre ==
  ASSUME NEW mine \in Cursor, NEW other \in Cursor \cup {NoRow}
  PROVE  /\ Candidates(mine, other).best = Empty(Candidates(mine, other).best.gen)
         /\ Candidates(mine, other).best.gen \in Nat
         /\ Candidates(mine, other).best.gen >= mine.gen
         /\ Candidates(mine, other).todo \in Seq(Cursor)
         /\ \A i \in DOMAIN Candidates(mine, other).todo :
              /\ Candidates(mine, other).todo[i] \in {mine, other}
              /\ Candidates(mine, other).todo[i].gen = Candidates(mine, other).best.gen
         /\ Candidates(mine, other).best.gen = mine.gen /\ mine.id > 0 =>
              \E i \in DOMAIN Candidates(mine, other).todo : Candidates(mine, other).todo[i] = mine
<1> DEFINE g == IF other # NoRow /\ other.gen > mine.gen THEN other.gen ELSE mine.gen
           Named(c) == c # NoRow /\ c.gen = g /\ c.id > 0
           a == IF Named(mine) THEN <<mine>> ELSE <<>>
           b == IF Named(other) /\ other # mine THEN <<other>> ELSE <<>>
           todo == a \o b
<1>1. Candidates(mine, other) = [best |-> Empty(g), todo |-> todo]
  BY DEF Candidates
<1>2. g \in Nat /\ g >= mine.gen /\ (Named(other) => other \in Cursor) /\ mine # NoRow
  BY NoRowIsNoCursor DEF Cursor
<1>3. Empty(g).gen = g
  BY <1>2, EmptyIsCursor
<1>4. /\ a \in Seq(Cursor) /\ \A i \in DOMAIN a : a[i] = mine /\ mine.gen = g
      /\ Named(mine) => 1 \in DOMAIN a /\ a[1] = mine
  <2>1. CASE Named(mine)
    BY <2>1
  <2>2. CASE ~Named(mine)
    BY <2>2
  <2> QED  BY <2>1, <2>2
<1>5. b \in Seq(Cursor) /\ \A i \in DOMAIN b : b[i] = other /\ other.gen = g
  <2>1. CASE Named(other) /\ other # mine
    BY <1>2, <2>1
  <2>2. CASE ~(Named(other) /\ other # mine)
    BY <2>2
  <2> QED  BY <2>1, <2>2
<1>6. g = mine.gen /\ mine.id > 0 => Named(mine)
  BY <1>2
<1> HIDE DEF g, Named, a, b
<1>7. /\ todo \in Seq(Cursor)
      /\ \A i \in DOMAIN todo : (\E j \in DOMAIN a : todo[i] = a[j]) \/ (\E j \in DOMAIN b : todo[i] = b[j])
      /\ \A j \in DOMAIN a : j \in DOMAIN todo /\ todo[j] = a[j]
  <2> DEFINE m == Len(a)
             n == Len(b)
  <2>1. /\ m \in Nat /\ n \in Nat /\ DOMAIN a = 1..m /\ DOMAIN b = 1..n
        /\ todo \in Seq(Cursor) /\ DOMAIN todo = 1..(m + n)
        /\ \A i \in 1..(m + n) : todo[i] = IF i <= m THEN a[i] ELSE b[i - m]
    <3>1. todo \in Seq(Cursor) /\ Len(todo) = m + n
      BY <1>4, <1>5, ConcatProperties
    <3>2. \A i \in 1..(m + n) : todo[i] = IF i <= m THEN a[i] ELSE b[i - m]
      BY <1>4, <1>5, ConcatProperties
    <3> QED  BY <1>4, <1>5, <3>1, <3>2, LenProperties
  <2> HIDE DEF m, n, todo
  <2>2. /\ \A i \in 1..(m + n) : (i <= m /\ i \in 1..m) \/ (~(i <= m) /\ i - m \in 1..n)
        /\ \A i \in 1..m : i \in 1..(m + n) /\ i <= m
    BY ONLY <2>1
  <2> QED  BY <2>1, <2>2
<1> HIDE DEF todo
<1>8. /\ Candidates(mine, other).best = Empty(g) /\ Candidates(mine, other).todo = todo
  BY <1>1
<1>9. \A i \in DOMAIN todo : todo[i] \in {mine, other} /\ todo[i].gen = g
  BY <1>4, <1>5, <1>7
<1> QED  BY <1>2, <1>3, <1>4, <1>6, <1>7, <1>8, <1>9

-----------------------------------------------------------------------------
(* The steps, by what they leave alone.                                    *)

(* What a tab's next call may be, with the stored cursors as they are. *)
Sound(t, o) ==
  /\ o.phase \in {"merging", "judging"} => o.todo # << >>
  /\ o.phase = "merging" =>
       (op[t].phase = "merging" \/ Unlocked(t)) /\ Ahead(o, store[t])

(* The rest of the state: what is typed, and what needs no more. *)
RestTyped ==
  /\ view \in [Tabs -> Seq(0..MaxReorgs)] /\ \A t \in Tabs : Len(view[t]) <= MaxMessages
  /\ reset \in [Tabs -> Resets] /\ notices \subseteq Tabs /\ troubles \in 0..MaxTroubles

(* More is seen. *)
LEMMA SeenStays ==
  ASSUME NEW seen, NEW more, seen \subseteq more
  PROVE  /\ \A c : SeenIn(seen, c) => SeenIn(more, c)
         /\ \A o : CallSeenIn(seen, o) => CallSeenIn(more, o)
  BY DEF SeenIn, CallSeenIn

(* A step that stores nothing: one call moves on, or none.                 *)
LEMMA CallKeeps ==
  ASSUME CursorInv, UNCHANGED <<shared, born, branch, store>>, RestTyped',
         op' = op \/ \E t \in Tabs, o \in Calls :
                       op' = [op EXCEPT ![t] = o] /\ CallSeenIn(marked', o) /\ Sound(t, o),
         row' \in Cursor \cup {NoRow}, SeenIn(marked', row'),
         marked \subseteq marked', \A m, b : <<m, b>> \in marked' => AtHome(m, b),
         \A t \in Tabs : \A m \in DOMAIN view'[t] : AtHome(m, view'[t][m])
  PROVE  CursorInv'
<1>1. Typed' /\ AnchorsLeft' /\ AllSeen' /\ OneHolder' /\ MergesKeep'
  <2>1. CASE op' = op
    <3>1. Typed'
      BY <2>1 DEF CursorInv, Typed, RestTyped
    <3>2. AllSeen'
      <4>1. \A t \in Tabs : SeenIn(marked', store[t]) /\ CallSeenIn(marked', op[t])
        BY SeenStays DEF CursorInv, AllSeen
      <4> QED  BY <2>1, <4>1 DEF AllSeen
    <3>3. AnchorsLeft' /\ OneHolder'
      BY <2>1 DEF CursorInv, AnchorsLeft, OneHolder
    <3>4. MergesKeep'
      BY <2>1 DEF CursorInv, MergesKeep, Ahead, Anchored
    <3> QED  BY <3>1, <3>2, <3>3, <3>4
  <2>2. CASE \E t \in Tabs, o \in Calls :
               op' = [op EXCEPT ![t] = o] /\ CallSeenIn(marked', o) /\ Sound(t, o)
    <3>1. PICK t \in Tabs, o \in Calls :
            op' = [op EXCEPT ![t] = o] /\ CallSeenIn(marked', o) /\ Sound(t, o)
      BY <2>2
    <3>2. op' \in [Tabs -> Calls] /\ op'[t] = o /\ \A u \in Tabs : u # t => op'[u] = op[u]
      BY <3>1, CallReplaced DEF CursorInv, Typed
    <3>3. Typed'
      BY <3>2 DEF CursorInv, Typed, RestTyped
    <3>4. AllSeen'
      <4>1. \A u \in Tabs : SeenIn(marked', store[u]) /\ CallSeenIn(marked', op[u])
        BY SeenStays DEF CursorInv, AllSeen
      <4>2. \A u \in Tabs : CallSeenIn(marked', op'[u])
        BY <3>1, <3>2, <4>1
      <4> QED  BY <4>1, <4>2 DEF AllSeen
    <3>5. AnchorsLeft'
      BY <3>1, <3>2 DEF CursorInv, AnchorsLeft, Sound
    <3>6. OneHolder'
      <4> SUFFICES ASSUME shared, NEW u \in Tabs, NEW v \in Tabs,
                          op'[u].phase = "merging", op'[v].phase = "merging"
                   PROVE  u = v
        BY DEF OneHolder
      <4>1. \A w \in Tabs : op'[w].phase = "merging" =>
              op[w].phase = "merging" \/ (w = t /\ \A x \in Tabs : op[x].phase # "merging")
        BY <3>1, <3>2 DEF Sound, Unlocked, Browser
      <4>2. \A x, y \in Tabs : op[x].phase = "merging" /\ op[y].phase = "merging" => x = y
        BY DEF CursorInv, OneHolder
      <4> QED  BY <4>1, <4>2
    <3>7. MergesKeep'
      <4>1. \A u \in Tabs : op'[u].phase = "merging" => Ahead(op'[u], store[u])
        BY <3>1, <3>2 DEF CursorInv, MergesKeep, Sound
      <4> QED  BY <4>1 DEF MergesKeep, Ahead, Anchored
    <3> QED  BY <3>3, <3>4, <3>5, <3>6, <3>7
  <2> QED  BY <2>1, <2>2
<1>2. AllAtHome'
  BY DEF CursorInv, AllAtHome, AtHome
<1>3. OneStore'
  BY DEF CursorInv, OneStore
<1> QED  BY <1>1, <1>2, <1>3 DEF CursorInv

(* A step that stores a cursor, in a browser where nobody merges.          *)
LEMMA StoreKeeps ==
  ASSUME CursorInv, UNCHANGED <<shared, born, branch, row, marked>>, RestTyped',
         NEW t \in Tabs, NEW c \in Cursor, SeenIn(marked, c), Persist(t, c),
         NEW o \in Calls, op' = [op EXCEPT ![t] = o], CallSeenIn(marked, o),
         o.phase \notin {"merging", "judging"} \/ (o = op[t] /\ o.phase # "merging"),
         \A u \in Browser(t) : u # t => op[u].phase # "merging",
         \A u \in Tabs : \A m \in DOMAIN view'[u] : AtHome(m, view'[u][m])
  PROVE  CursorInv'
<1>1. op' \in [Tabs -> Calls] /\ op'[t] = o /\ \A u \in Tabs : u # t => op'[u] = op[u]
  BY CallReplaced DEF CursorInv, Typed
<1>2. /\ store' \in [Tabs -> Cursor]
      /\ \A u \in Tabs : store'[u] = IF u \in Browser(t) THEN c ELSE store[u]
  BY DEF Persist, CursorInv, Typed
<1>3. Typed'
  BY <1>1, <1>2 DEF CursorInv, Typed, RestTyped
<1>4. AnchorsLeft'
  BY <1>1 DEF CursorInv, AnchorsLeft
<1>5. AllSeen'
  BY <1>1, <1>2 DEF CursorInv, AllSeen
<1>6. AllAtHome'
  BY DEF CursorInv, AllAtHome, AtHome
<1>7. OneStore'
  BY <1>2 DEF CursorInv, OneStore, Browser
<1>8. \A u \in Tabs : op'[u].phase = "merging" => u \notin Browser(t) /\ op[u].phase = "merging"
                                                  /\ op'[u] = op[u]
  BY <1>1
<1>9. OneHolder'
  BY <1>8 DEF CursorInv, OneHolder, Browser
<1>10. MergesKeep'
  <2>1. \A u \in Tabs : op'[u].phase = "merging" => Ahead(op'[u], store'[u])
    BY <1>2, <1>8 DEF CursorInv, MergesKeep
  <2> QED  BY <2>1 DEF MergesKeep, Ahead, Anchored
<1> QED  BY <1>3, <1>4, <1>5, <1>6, <1>7, <1>9, <1>10 DEF CursorInv

(* A position that is off the chain does not come back to it.              *)
LEMMA GoneStaysGone ==
  ASSUME CursorInv, NEW c \in Cursor, SeenIn(marked, c), ~Anchored(c),
         branch' \in {branch, branch + 1}, born' \in Seq(0..MaxReorgs),
         \A i \in DOMAIN born' :
           (i \in DOMAIN born /\ born'[i] = born[i]) \/ (i \notin DOMAIN born /\ born'[i] = branch)
             \/ born'[i] = branch + 1
  PROVE  ~Anchored(c)'
<1>1. /\ DOMAIN born = 1..Len(born) /\ DOMAIN born' = 1..Len(born') /\ branch \in Nat
      /\ c.id \in Nat /\ c.branch \in Nat
  BY LenProperties DEF CursorInv, Typed, Cursor
<1> SUFFICES ASSUME c.id \in DOMAIN born', born'[c.id] = c.branch
             PROVE  FALSE
  BY <1>1 DEF Anchored
<1>2. c.id > 0 /\ AtHome(c.id, c.branch)
  <2>1. c.id \in 1..Len(born')
    BY <1>1
  <2>2. c.id > 0
    BY <2>1
  <2>3. c # NoRow
    BY NoRowIsNoCursor
  <2> QED  BY <2>2, <2>3 DEF SeenIn, CursorInv, AllAtHome
<1>3. CASE c.id \in DOMAIN born /\ born'[c.id] = born[c.id]
  BY <1>1, <1>3 DEF Anchored
<1>4. CASE c.id \notin DOMAIN born /\ born'[c.id] = branch
  BY <1>2, <1>4 DEF AtHome
<1>5. CASE born'[c.id] = branch + 1
  BY <1>1, <1>2, <1>5 DEF AtHome
<1> QED  BY <1>3, <1>4, <1>5

-----------------------------------------------------------------------------
(* The steps of the chain.                                                 *)

(* A message is posted in the branch there is.                             *)
LEMMA PostIs ==
  ASSUME CursorInv, Post
  PROVE  /\ born' \in Seq(0..MaxReorgs) /\ Len(born') <= MaxMessages /\ branch' = branch
         /\ \A i \in DOMAIN born : i \in DOMAIN born' /\ born'[i] = born[i]
         /\ \A i \in DOMAIN born' : i \in DOMAIN born \/ born'[i] = branch
<1>1. born \in Seq(0..MaxReorgs) /\ branch \in 0..MaxReorgs /\ MaxMessages \in Nat
  BY CursorAssumption DEF CursorInv, Typed
<1>2. born' = Append(born, branch) /\ Len(born) < MaxMessages /\ branch' = branch
  BY DEF Post
<1> DEFINE n == Len(born)
<1>3. /\ n \in Nat /\ DOMAIN born = 1..n /\ born' \in Seq(0..MaxReorgs) /\ Len(born') = n + 1
      /\ DOMAIN born' = 1..(n + 1)
      /\ \A i \in 1..n : born'[i] = born[i]
      /\ born'[n + 1] = branch
  BY <1>1, <1>2
<1> HIDE DEF n
<1>4. /\ \A i \in 1..n : i \in 1..(n + 1)
      /\ \A i \in 1..(n + 1) : i \in 1..n \/ i = n + 1
  BY ONLY <1>3
<1>5. n + 1 <= MaxMessages
  <2>1. n < MaxMessages
    BY <1>2 DEF n
  <2> QED  BY ONLY <2>1, <1>1, <1>3
<1> QED  BY <1>2, <1>3, <1>4, <1>5

(* A reorganisation leaves a prefix, and begins a branch.                  *)
LEMMA ReorgIs ==
  ASSUME CursorInv, Reorg
  PROVE  /\ born' \in Seq(0..MaxReorgs) /\ Len(born') <= MaxMessages
         /\ branch' = branch + 1 /\ branch' \in 0..MaxReorgs
         /\ \A i \in DOMAIN born' :
              (i \in DOMAIN born /\ born'[i] = born[i]) \/ born'[i] = branch + 1
<1>1. /\ born \in Seq(0..MaxReorgs) /\ branch \in 0..MaxReorgs /\ MaxReorgs \in Nat
      /\ DOMAIN born = 1..Len(born) /\ Len(born) \in Nat /\ Len(born) <= MaxMessages
      /\ MaxMessages \in Nat
  BY CursorAssumption DEF CursorInv, Typed
<1>2. PICK m \in DOMAIN born, n \in 0..MaxMessages :
        /\ m - 1 + n <= Len(born)
        /\ born' = [i \in 1..(m - 1 + n) |-> IF i < m THEN born[i] ELSE branch + 1]
  BY DEF Reorg
<1>3. branch < MaxReorgs /\ branch' = branch + 1
  BY DEF Reorg
<1>4. m \in 1..Len(born) /\ branch + 1 \in 0..MaxReorgs /\ m - 1 + n \in Nat
  BY <1>1, <1>2, <1>3
<1>5. \A i \in 1..(m - 1 + n) : i < m => i \in 1..Len(born)
  BY <1>1, <1>4
<1>6. \A i \in 1..(m - 1 + n) : born'[i] = IF i < m THEN born[i] ELSE branch + 1
  BY <1>2
<1>7. \A i \in 1..(m - 1 + n) : born'[i] \in 0..MaxReorgs
  BY <1>1, <1>4, <1>5, <1>6, ElementOfSeq
<1>8. born' \in Seq(0..MaxReorgs) /\ Len(born') = m - 1 + n
  <2> DEFINE k == m - 1 + n
  <2>1. k \in Nat /\ born' \in [1..k -> 0..MaxReorgs]
    BY <1>2, <1>4, <1>7
  <2> HIDE DEF k
  <2>2. born' \in Seq(0..MaxReorgs) /\ DOMAIN born' = 1..k
    BY <2>1, SeqDef
  <2>3. born' \in Seq(0..MaxReorgs) /\ Len(born') = k
    BY <2>1, <2>2, LenProperties
  <2> QED  BY <2>3 DEF k
<1>9. DOMAIN born' = 1..(m - 1 + n)
  BY <1>2
<1>10. m - 1 + n <= MaxMessages
  BY <1>1, <1>2, <1>4
<1> QED  BY <1>1, <1>3, <1>4, <1>5, <1>6, <1>8, <1>9, <1>10

(* The chain moves under the tabs: what was off it stays off it.           *)
LEMMA ChainKeeps ==
  ASSUME CursorInv, Post \/ Reorg
  PROVE  CursorInv'
<1>1. /\ UNCHANGED <<shared, store, row, view, op, reset, notices, marked>>
      /\ branch \in 0..MaxReorgs /\ MaxReorgs \in Nat /\ troubles' \in 0..MaxTroubles
  BY CursorAssumption DEF Post, Reorg, Trouble, CursorInv, Typed
<1>2. /\ born' \in Seq(0..MaxReorgs) /\ Len(born') <= MaxMessages
      /\ branch' \in {branch, branch + 1} /\ branch' \in 0..MaxReorgs
      /\ \A i \in DOMAIN born' :
           (i \in DOMAIN born /\ born'[i] = born[i]) \/ (i \notin DOMAIN born /\ born'[i] = branch)
             \/ born'[i] = branch + 1
      /\ branch' = branch => \A i \in DOMAIN born : i \in DOMAIN born' /\ born'[i] = born[i]
      /\ branch' = branch => \A i \in DOMAIN born' : i \in DOMAIN born \/ born'[i] = branch
  <2>1. CASE Post
    BY <1>1, <2>1, PostIs
  <2>2. CASE Reorg
    BY <1>1, <2>2, ReorgIs
  <2> QED  BY <2>1, <2>2
<1>3. Typed'
  BY <1>1, <1>2 DEF CursorInv, Typed
<1>4. AnchorsLeft' /\ AllSeen' /\ OneStore' /\ OneHolder'
  BY <1>1 DEF CursorInv, AnchorsLeft, AllSeen, OneStore, OneHolder
<1>5. AllAtHome'
  <2>1. ASSUME NEW m, NEW b, AtHome(m, b) PROVE AtHome(m, b)'
    <3>1. CASE branch' = branch
      BY <1>2, <2>1, <3>1 DEF AtHome
    <3>2. CASE branch' = branch + 1
      BY <1>1, <2>1, <3>2 DEF AtHome
    <3> QED  BY <1>2, <3>1, <3>2
  <2>2. \A m, b : <<m, b>> \in marked' => AtHome(m, b)'
    BY <1>1, <2>1 DEF CursorInv, AllAtHome
  <2>3. ASSUME NEW t \in Tabs, NEW m \in DOMAIN view'[t] PROVE AtHome(m, view[t][m])'
    <3>1. PICK b : b = view[t][m]
      OBVIOUS
    <3>2. AtHome(m, b)'
      BY <1>1, <2>1, <2>3, <3>1 DEF CursorInv, AllAtHome
    <3> QED  BY <1>1, <3>1, <3>2 DEF AtHome
  <2>4. \A m \in DOMAIN born' : born'[m] <= branch'
    <3> SUFFICES ASSUME NEW m \in DOMAIN born' PROVE born'[m] <= branch'
      OBVIOUS
    <3>1. \A i \in DOMAIN born : born[i] <= branch /\ born[i] \in 0..MaxReorgs
      BY ElementOfSeq, LenProperties DEF CursorInv, AllAtHome, Typed
    <3>2. CASE branch' = branch
      BY <1>1, <1>2, <3>1, <3>2
    <3>3. CASE branch' = branch + 1
      BY <1>1, <1>2, <3>1, <3>3
    <3> QED  BY <1>2, <3>2, <3>3
  <2> QED  BY <2>2, <2>3, <2>4 DEF AllAtHome
<1>6. MergesKeep'
  <2> SUFFICES ASSUME NEW t \in Tabs, op'[t].phase = "merging"
               PROVE  Ahead(op[t], store[t])'
    BY DEF MergesKeep
  <2>1. PICK c \in Cursor : c = store[t]
    BY DEF CursorInv, Typed
  <2>2. ~Anchored(c) => ~Anchored(c)'
    BY <1>2, <2>1, GoneStaysGone DEF CursorInv, AllSeen
  <2>3. Ahead(op[t], c)
    BY <1>1, <2>1 DEF CursorInv, MergesKeep
  <2> QED  BY <1>1, <2>1, <2>2, <2>3 DEF Ahead, Anchored
<1> QED  BY <1>3, <1>4, <1>5, <1>6 DEF CursorInv

-----------------------------------------------------------------------------
(* The next call of a tab.                                                 *)

(* A call may move on: it is typed, sees what was seen, and is sound. *)
Moves(t, seen) ==
  \E o \in Calls : op' = [op EXCEPT ![t] = o] /\ CallSeenIn(seen, o) /\ Sound(t, o)

(* A call that is over. *)
LEMMA NoOpIs ==
  /\ NoOp \in Calls /\ NoOp.phase = "idle" /\ NoOp.best = Empty(0) /\ NoOp.remote = NoRow
  /\ NoOp.todo = << >> /\ NoOp.lost = {}
  /\ \A seen : CallSeenIn(seen, NoOp)
  /\ \A t : Sound(t, NoOp)
<1>1. NoOp \in Calls
  BY EmptySeq, EmptyIsCursor DEF NoOp, Calls, OpPhases
<1>2. /\ NoOp.phase = "idle" /\ NoOp.best = Empty(0) /\ NoOp.remote = NoRow /\ NoOp.todo = << >>
      /\ NoOp.lost = {}
  BY DEF NoOp
<1> QED  BY <1>1, <1>2, EmptyIsCursor, NoRowIsNoCursor DEF CallSeenIn, Sound

(* A call of the tab's queue. *)
LEMMA EnqueueIs ==
  ASSUME NEW t \in Tabs, NEW cap \in Nat, NEW todo \in Seq(Cursor), NEW again \in BOOLEAN,
         NEW seen, \A i \in DOMAIN todo : SeenIn(seen, todo[i]), Enqueue(t, cap, todo, again)
  PROVE  Moves(t, seen)
<1> DEFINE o == [NoOp EXCEPT !.phase = "queued", !.cap = cap, !.todo = todo, !.again = again]
<1>1. NoOp \in Calls /\ NoOp.best = Empty(0) /\ NoOp.remote = NoRow /\ "queued" \in OpPhases
  BY NoOpIs DEF OpPhases
<1>2. /\ o \in Calls /\ o.phase = "queued" /\ o.todo = todo
      /\ o.best = Empty(0) /\ o.remote = NoRow
  BY <1>1 DEF Calls
<1> HIDE DEF o
<1>3. CallSeenIn(seen, o) /\ Sound(t, o)
  BY <1>2, EmptyIsCursor, NoRowIsNoCursor DEF CallSeenIn, Sound
<1> QED  BY <1>2, <1>3 DEF Enqueue, Moves, o

(* What follows a merge into the browser's storage. *)
LEMMA MergedIs ==
  ASSUME CursorInv, NEW t \in Tabs, NEW c \in Cursor, NEW lost \in SUBSET Cursor,
         NEW seen, SeenIn(seen, c), Merged(t, c, lost)
  PROVE  \E o \in Calls : /\ op' = [op EXCEPT ![t] = o] /\ CallSeenIn(seen, o) /\ Sound(t, o)
                          /\ o.phase \notin {"merging", "judging"} /\ o.lost = lost
<1> DEFINE o == [NoOp EXCEPT !.phase = "pulling", !.cap = op[t].cap, !.best = c, !.lost = lost]
           e == [NoOp EXCEPT !.lost = lost]
<1>1. op[t] \in Calls /\ op[t].cap \in Nat
  BY DEF CursorInv, Typed, Calls
<1>2. op' = [op EXCEPT ![t] = IF shared \/ op[t].again THEN e ELSE o]
  BY DEF Merged
<1>3. /\ NoOp \in Calls /\ NoOp.phase = "idle" /\ NoOp.best = Empty(0)
      /\ NoOp.remote = NoRow /\ NoOp.todo = << >> /\ "pulling" \in OpPhases
  BY NoOpIs DEF OpPhases
<1>4. /\ o \in Calls /\ o.phase = "pulling" /\ o.todo = << >> /\ o.best = c /\ o.remote = NoRow
      /\ o.lost = lost
  BY <1>1, <1>3 DEF Calls
<1>5. /\ e \in Calls /\ e.phase = "idle" /\ e.todo = << >> /\ e.best = Empty(0)
      /\ e.remote = NoRow /\ e.lost = lost
  BY <1>3 DEF Calls
<1> HIDE DEF o, e
<1>6. CallSeenIn(seen, o) /\ Sound(t, o)
  BY <1>4, NoRowIsNoCursor DEF CallSeenIn, Sound
<1>7. CallSeenIn(seen, e) /\ Sound(t, e)
  BY <1>5, EmptyIsCursor, NoRowIsNoCursor DEF CallSeenIn, Sound
<1> QED  BY <1>2, <1>4, <1>5, <1>6, <1>7

(* What follows a merge with the row. *)
LEMMA JudgedIs ==
  ASSUME CursorInv, NEW t \in Tabs, NEW best \in Cursor, NEW remote \in Cursor \cup {NoRow},
         NEW seen, SeenIn(seen, best), SeenIn(seen, remote), Judged(t, best, remote)
  PROVE  Moves(t, seen)
<1> DEFINE o == [NoOp EXCEPT !.phase = "pushing", !.cap = op[t].cap, !.best = best,
                              !.remote = remote]
<1>1. op[t] \in Calls /\ op[t].cap \in Nat
  BY DEF CursorInv, Typed, Calls
<1>2. CASE best = remote
  <2>1. Enqueue(t, op[t].cap, <<best>>, TRUE)
    BY <1>2 DEF Judged
  <2>2. <<best>> \in Seq(Cursor) /\ \A i \in DOMAIN <<best>> : <<best>>[i] = best
    OBVIOUS
  <2> QED  BY <1>1, <2>1, <2>2, EnqueueIs
<1>3. CASE best # remote
  <2>1. op' = [op EXCEPT ![t] = o]
    BY <1>3 DEF Judged
  <2>2. NoOp \in Calls /\ NoOp.todo = << >> /\ "pushing" \in OpPhases
    BY NoOpIs DEF OpPhases
  <2>3. o \in Calls /\ o.phase = "pushing" /\ o.todo = << >> /\ o.best = best /\ o.remote = remote
    BY <1>1, <2>2 DEF Calls
  <2> HIDE DEF o
  <2>4. CallSeenIn(seen, o) /\ Sound(t, o)
    BY <2>3 DEF CallSeenIn, Sound
  <2> QED  BY <2>1, <2>3, <2>4 DEF Moves
<1> QED  BY <1>2, <1>3

(* A call that goes on, with other anchors and another best. *)
LEMMA GoesOn ==
  ASSUME CursorInv, NEW t \in Tabs, NEW p \in OpPhases, NEW b \in Cursor, NEW s \in Seq(Cursor),
         NEW r \in Cursor \cup {NoRow}, NEW l \in SUBSET Cursor,
         SeenIn(marked, b), SeenIn(marked, r), \A i \in DOMAIN s : SeenIn(marked, s[i]), s # << >>,
         op' = [op EXCEPT ![t] = [op[t] EXCEPT !.phase = p, !.best = b, !.todo = s, !.remote = r,
                                               !.lost = l]],
         p = "merging" =>
           /\ op[t].phase = "merging" \/ Unlocked(t)
           /\ b.gen >= store[t].gen
           /\ \A i \in DOMAIN s : s[i].gen = b.gen
           /\ b.gen = store[t].gen /\ b.id < store[t].id =>
                ~Anchored(store[t]) \/ store[t] \in l \/ \E i \in DOMAIN s : s[i] = store[t]
  PROVE  Moves(t, marked)
<1> DEFINE o == [op[t] EXCEPT !.phase = p, !.best = b, !.todo = s, !.remote = r, !.lost = l]
<1>1. op[t] \in Calls
  BY DEF CursorInv, Typed
<1>2. o \in Calls /\ o.phase = p /\ o.best = b /\ o.todo = s /\ o.remote = r /\ o.lost = l
  BY <1>1 DEF Calls
<1> HIDE DEF o
<1>3. CallSeenIn(marked, o) /\ Sound(t, o)
  BY <1>2 DEF CallSeenIn, Sound, Ahead
<1> QED  BY <1>2, <1>3 DEF Moves, o

(* The state beside the calls stays. *)
LEMMA RestStays ==
  ASSUME CursorInv, UNCHANGED <<view, reset, notices>>, troubles' \in 0..MaxTroubles
  PROVE  RestTyped' /\ \A t \in Tabs : \A m \in DOMAIN view'[t] : AtHome(m, view'[t][m])
  BY DEF CursorInv, Typed, RestTyped, AllAtHome

(* A step of a call that stores nothing. *)
LEMMA MovingKeeps ==
  ASSUME CursorInv, UNCHANGED <<shared, born, branch, store, view, reset, notices, marked>>,
         troubles' \in 0..MaxTroubles,
         row' \in Cursor \cup {NoRow}, SeenIn(marked, row'),
         op' = op \/ \E t \in Tabs : Moves(t, marked)
  PROVE  CursorInv'
<1>1. \A m, b : <<m, b>> \in marked' => AtHome(m, b)
  BY DEF CursorInv, AllAtHome
<1> QED  BY <1>1, RestStays, CallKeeps DEF Moves

-----------------------------------------------------------------------------
(* The steps of marks and loads.                                           *)

(* What is stored is no earlier than what was, or that is off the chain,   *)
(* or among what the merge was told is off it.                             *)
Follows(c, before, lost) ==
  /\ c.gen >= before.gen
  /\ c.gen = before.gen /\ c.id < before.id => ~Anchored(before) \/ before \in lost
Denied(t, c) == \E u \in Browser(t) : op[u].phase = "merging" /\ c \in op'[u].lost
PositionsKept ==
  \A t \in Tabs :
    /\ store'[t].gen >= store[t].gen
    /\ store'[t].gen = store[t].gen /\ store'[t].id < store[t].id =>
         ~Anchored(store[t]) \/ Denied(t, store[t])

(* A step that stores nothing keeps it. *)
LEMMA NothingStored == CursorInv /\ UNCHANGED store => PositionsKept
  BY DEF CursorInv, Typed, PositionsKept, Cursor

(* So does storing a cursor that follows the one of this tab. *)
LEMMA StoringKeeps ==
  ASSUME CursorInv, NEW t \in Tabs, NEW c \in Cursor, NEW lost,
         Follows(c, store[t], lost), Persist(t, c),
         lost = {} \/ (op[t].phase = "merging" /\ op'[t].lost = lost)
  PROVE  PositionsKept
<1>1. \A u \in Tabs : store'[u] = IF u \in Browser(t) THEN c ELSE store[u]
  BY DEF Persist
<1>2. \A u \in Browser(t) : store[u] = store[t] /\ t \in Browser(u)
  BY DEF CursorInv, OneStore, Browser
<1>3. \A u \in Tabs : store[u] \in Cursor
  BY DEF CursorInv, Typed
<1>4. \A d \in Cursor : d.gen \in Nat /\ d.id \in Int
  BY DEF Cursor
<1> SUFFICES ASSUME NEW u \in Tabs
             PROVE  /\ store'[u].gen >= store[u].gen
                    /\ store'[u].gen = store[u].gen /\ store'[u].id < store[u].id =>
                         ~Anchored(store[u]) \/ Denied(u, store[u])
  BY DEF PositionsKept
<1>5. CASE u \in Browser(t)
  <2>1. store'[u] = c /\ store[u] = store[t] /\ t \in Browser(u)
    BY <1>1, <1>2, <1>5
  <2>2. store[u] \in lost => Denied(u, store[u])
    BY <2>1 DEF Denied
  <2> QED  BY <2>1, <2>2 DEF Follows
<1>6. CASE u \notin Browser(t)
  <2>1. store'[u] = store[u]
    BY <1>1, <1>6
  <2> QED  BY <1>3, <1>4, <2>1
<1> QED  BY <1>5, <1>6

(* A merge ends: its result is stored, unless a reset has overtaken it. *)
LEMMA CommitKeeps ==
  ASSUME CursorInv, NEW t \in Tabs, NEW c \in Cursor, NEW lost \in SUBSET Cursor,
         SeenIn(marked, c), Follows(c, store[t], lost), Commit(t, c, lost),
         lost = {} \/ op[t].phase = "merging",
         UNCHANGED <<shared, chainVars, row, view, reset, notices, marked>>,
         troubles' \in 0..MaxTroubles,
         \A u \in Browser(t) : u # t => op[u].phase # "merging"
  PROVE  CursorInv' /\ PositionsKept
<1>1. /\ UNCHANGED <<born, branch>>
      /\ row \in Cursor \cup {NoRow} /\ SeenIn(marked, row)
      /\ op[t].delta \in Nat /\ store[t].gen \in Nat
  BY DEF chainVars, CursorInv, Typed, AllSeen, Calls, Cursor
<1>2. RestTyped' /\ \A u \in Tabs : \A m \in DOMAIN view'[u] : AtHome(m, view'[u][m])
  BY <1>1, RestStays
<1>3. CASE op[t].delta > 0
  <2>1. Merged(t, Boundary(t), {}) /\ UNCHANGED store
    BY <1>3 DEF Commit
  <2>2. Boundary(t) \in Cursor /\ SeenIn(marked, Boundary(t))
    BY <1>1, EmptyIsCursor DEF Boundary
  <2>3. Moves(t, marked)
    BY <2>1, <2>2, MergedIs DEF Moves
  <2> QED  BY <1>1, <2>1, <2>3, MovingKeeps, NothingStored
<1>4. CASE ~(op[t].delta > 0)
  <2>1. Merged(t, c, lost) /\ Persist(t, c)
    BY <1>4 DEF Commit
  <2>2. PICK o \in Calls : /\ op' = [op EXCEPT ![t] = o] /\ CallSeenIn(marked, o)
                           /\ o.phase \notin {"merging", "judging"} /\ o.lost = lost
    BY <2>1, MergedIs
  <2>3. op'[t].lost = lost
    BY <2>2, CallReplaced DEF CursorInv, Typed
  <2>4. PositionsKept
    BY <2>1, <2>3, StoringKeeps
  <2> QED  BY <1>1, <1>2, <2>1, <2>2, <2>4, StoreKeeps
<1> QED  BY <1>3, <1>4

(* A call takes the lock: it begins a merge, or is over at once.           *)
LEMMA AcquireKeeps ==
  ASSUME CursorInv, NEW t \in Tabs, Acquire(t)
  PROVE  CursorInv' /\ PositionsKept
<1> DEFINE other == IF op[t].todo = << >> THEN NoRow ELSE Head(op[t].todo)
           merge == Candidates(store[t], other)
<1>1. /\ op[t].phase = "queued" /\ Unlocked(t)
      /\ IF op[t].delta > 0 \/ merge.todo = << >>
           THEN Commit(t, merge.best, {})
           ELSE /\ op' = [op EXCEPT ![t].phase = "merging",
                                    ![t].best = merge.best, ![t].todo = merge.todo]
                /\ UNCHANGED store
      /\ UNCHANGED <<shared, chainVars, row, view, reset, notices, marked, troubles>>
  BY DEF Acquire
<1>2. /\ store[t] \in Cursor /\ op[t] \in Calls /\ op[t].todo \in Seq(Cursor)
      /\ SeenIn(marked, store[t]) /\ CallSeenIn(marked, op[t])
      /\ row \in Cursor \cup {NoRow} /\ SeenIn(marked, row) /\ troubles \in 0..MaxTroubles
  BY DEF CursorInv, Typed, AllSeen, Calls
<1>3. other \in Cursor \cup {NoRow} /\ SeenIn(marked, other)
  <2>1. CASE op[t].todo = << >>
    BY <2>1, NoRowIsNoCursor
  <2>2. CASE op[t].todo # << >>
    BY <1>2, <2>2, TodoParts DEF CallSeenIn
  <2> QED  BY <2>1, <2>2
<1> HIDE DEF other
<1>4. /\ merge.best = Empty(merge.best.gen) /\ merge.best.gen \in Nat
      /\ merge.best.gen >= store[t].gen
      /\ merge.todo \in Seq(Cursor)
      /\ \A i \in DOMAIN merge.todo : /\ merge.todo[i] \in {store[t], other}
                                      /\ merge.todo[i].gen = merge.best.gen
      /\ merge.best.gen = store[t].gen /\ store[t].id > 0 =>
           \E i \in DOMAIN merge.todo : merge.todo[i] = store[t]
  BY <1>2, <1>3, CandidatesAre
<1> HIDE DEF merge
<1>5. merge.best \in Cursor /\ merge.best.id = 0 /\ SeenIn(marked, merge.best)
  <2>1. PICK g \in Nat : merge.best = Empty(g)
    BY <1>4
  <2> QED  BY <2>1, EmptyIsCursor
<1>6. CASE op[t].delta > 0 \/ merge.todo = << >>
  <2>1. \A u \in Browser(t) : u # t => op[u].phase # "merging"
    BY <1>1 DEF Unlocked
  <2>2. CASE merge.todo = << >>
    <3>1. DOMAIN merge.todo = {}
      BY <2>2
    <3>2. Follows(merge.best, store[t], {})
      BY <1>2, <1>4, <1>5, <3>1 DEF Follows, Cursor
    <3> QED  BY <1>1, <1>2, <1>5, <1>6, <2>1, <3>2, CommitKeeps
  <2>3. CASE op[t].delta > 0
    <3>1. Merged(t, Boundary(t), {}) /\ UNCHANGED store
      BY <1>1, <2>3 DEF Commit
    <3>2. Boundary(t) \in Cursor /\ SeenIn(marked, Boundary(t))
      <4>1. store[t].gen + op[t].delta \in Nat
        BY SMTT(40), <1>2 DEF Cursor, Calls
      <4> QED  BY <4>1, EmptyIsCursor DEF Boundary
    <3>3. Moves(t, marked)
      BY <3>1, <3>2, MergedIs DEF Moves
    <3> QED  BY <1>1, <1>2, <3>1, <3>3, MovingKeeps, NothingStored DEF chainVars
  <2> QED  BY <1>6, <2>2, <2>3
<1>7. CASE ~(op[t].delta > 0 \/ merge.todo = << >>)
  <2> DEFINE o == [op[t] EXCEPT !.phase = "merging", !.best = merge.best, !.todo = merge.todo]
  <2>1. op' = [op EXCEPT ![t] = o] /\ UNCHANGED store
    <3>1. /\ op' = [op EXCEPT ![t].phase = "merging",
                              ![t].best = merge.best, ![t].todo = merge.todo]
          /\ UNCHANGED store
      BY <1>1, <1>7
    <3>2. op \in [Tabs -> Calls]
      BY DEF CursorInv, Typed
    <3> QED  BY <1>2, <3>1, <3>2 DEF Calls
  <2>2. /\ o \in Calls /\ o.phase = "merging" /\ o.best = merge.best /\ o.todo = merge.todo
        /\ o.remote = op[t].remote
    BY <1>2, <1>4, <1>5 DEF Calls, OpPhases
  <2> HIDE DEF o
  <2>3. CallSeenIn(marked, o)
    BY <1>2, <1>3, <1>4, <1>5, <2>2 DEF CallSeenIn
  <2>4. merge.best.gen = store[t].gen /\ merge.best.id < store[t].id =>
           \E i \in DOMAIN merge.todo : merge.todo[i] = store[t]
    BY <1>2, <1>4, <1>5 DEF Cursor
  <2>5. Sound(t, o)
    BY <1>1, <1>4, <1>7, <2>2, <2>4 DEF Sound, Ahead
  <2>6. Moves(t, marked)
    BY <2>1, <2>2, <2>3, <2>5 DEF Moves
  <2> QED  BY <1>1, <1>2, <2>1, <2>6, MovingKeeps, NothingStored DEF chainVars
<1> QED  BY <1>6, <1>7

(* One anchor is read, and the merge goes on, ends or is given up.         *)
LEMMA ReadAnchorKeeps ==
  ASSUME CursorInv, NEW t \in Tabs, ReadAnchor(t)
  PROVE  CursorInv' /\ PositionsKept
<1> DEFINE c == Head(op[t].todo)
           rest == Tail(op[t].todo)
           Best(f) == IF f /\ c.id > op[t].best.id THEN c ELSE op[t].best
           Lost(f) == IF Anchored(c) /\ ~f THEN op[t].lost \cup {c} ELSE op[t].lost
<1>0. PICK found \in BOOLEAN :
        /\ Answered(c, found)
        /\ IF found /\ c.id > op[t].cap
             THEN op' = [op EXCEPT ![t] = NoOp] /\ UNCHANGED store
           ELSE IF Len(op[t].todo) > 1
             THEN /\ op' = [op EXCEPT ![t].todo = rest, ![t].best = Best(found), ![t].lost = Lost(found)]
                  /\ UNCHANGED store
           ELSE IF op[t].phase = "merging"
             THEN Commit(t, Best(found), Lost(found))
             ELSE Judged(t, Best(found), op[t].remote) /\ UNCHANGED store
  BY DEF ReadAnchor
<1> DEFINE best == Best(found)
           lost == Lost(found)
           Over == found /\ c.id > op[t].cap
<1>1. /\ op[t].phase \in {"merging", "judging"}
      /\ IF Over
           THEN op' = [op EXCEPT ![t] = NoOp] /\ UNCHANGED store
         ELSE IF Len(op[t].todo) > 1
           THEN /\ op' = [op EXCEPT ![t].todo = rest, ![t].best = best, ![t].lost = lost]
                /\ UNCHANGED store
         ELSE IF op[t].phase = "merging"
           THEN Commit(t, best, lost)
           ELSE Judged(t, best, op[t].remote) /\ UNCHANGED store
      /\ UNCHANGED <<shared, chainVars, row, view, reset, notices, marked>>
  BY <1>0 DEF ReadAnchor
<1> HIDE DEF Over
<1>2. /\ store[t] \in Cursor /\ op[t] \in Calls /\ op \in [Tabs -> Calls]
      /\ SeenIn(marked, store[t]) /\ CallSeenIn(marked, op[t])
      /\ row \in Cursor \cup {NoRow} /\ SeenIn(marked, row) /\ troubles' \in 0..MaxTroubles
  <2>1. troubles \in 0..MaxTroubles /\ MaxTroubles \in Nat
    BY CursorAssumption DEF CursorInv, Typed
  <2>2. troubles' \in 0..MaxTroubles
    BY <1>0, <2>1 DEF Answered, Trouble
  <2> QED  BY <2>2 DEF CursorInv, Typed, AllSeen
<1>3. /\ op[t].todo \in Seq(Cursor) /\ op[t].best \in Cursor /\ op[t].remote \in Cursor \cup {NoRow}
      /\ op[t].phase \in OpPhases /\ op[t].lost \in SUBSET Cursor
      /\ SeenIn(marked, op[t].best) /\ SeenIn(marked, op[t].remote)
      /\ \A i \in DOMAIN op[t].todo : SeenIn(marked, op[t].todo[i])
  BY <1>2 DEF Calls, CallSeenIn
<1>4. op[t].todo # << >>
  BY <1>1 DEF CursorInv, AnchorsLeft
<1>5. /\ c \in Cursor /\ rest \in Seq(Cursor)
      /\ \E i \in DOMAIN op[t].todo : op[t].todo[i] = c
      /\ \A j \in DOMAIN rest : \E i \in DOMAIN op[t].todo : op[t].todo[i] = rest[j]
      /\ \A i \in DOMAIN op[t].todo : op[t].todo[i] = c \/ \E j \in DOMAIN rest : rest[j] = op[t].todo[i]
      /\ Len(op[t].todo) > 1 => rest # << >>
      /\ ~(Len(op[t].todo) > 1) => \A i \in DOMAIN op[t].todo : op[t].todo[i] = c
  BY <1>3, <1>4, TodoParts
<1> HIDE DEF c, rest
<1>6. /\ best \in Cursor /\ best \in {c, op[t].best} /\ best.id >= op[t].best.id
      /\ Anchored(c) => best.id >= c.id \/ c \in lost
      /\ lost \in SUBSET Cursor /\ op[t].lost \subseteq lost
  <2>1. c.id \in Nat /\ op[t].best.id \in Nat
    <3>1. \A d \in Cursor : d.id \in Nat
      BY CursorAssumption DEF Cursor
    <3> QED  BY <1>3, <1>5, <3>1
  <2>2. CASE found /\ c.id > op[t].best.id
    BY <1>3, <1>5, <2>1, <2>2
  <2>3. CASE found /\ ~(c.id > op[t].best.id)
    BY <1>3, <2>1, <2>3
  <2>4. CASE ~found
    BY <1>3, <1>5, <2>1, <2>4
  <2> QED  BY <2>2, <2>3, <2>4
<1> HIDE DEF best, lost
<1>7. SeenIn(marked, best) /\ \A j \in DOMAIN rest : SeenIn(marked, rest[j])
  BY <1>3, <1>5, <1>6
<1>8. op[t].phase = "merging" =>
        /\ best.gen = op[t].best.gen /\ best.gen >= store[t].gen
        /\ \A j \in DOMAIN rest : rest[j].gen = best.gen
        /\ best.gen = store[t].gen /\ best.id < store[t].id =>
             ~Anchored(store[t]) \/ store[t] \in lost \/ \E j \in DOMAIN rest : rest[j] = store[t]
  <2> SUFFICES ASSUME op[t].phase = "merging"
               PROVE  /\ best.gen = op[t].best.gen /\ best.gen >= store[t].gen
                      /\ \A j \in DOMAIN rest : rest[j].gen = best.gen
                      /\ best.gen = store[t].gen /\ best.id < store[t].id =>
                           ~Anchored(store[t]) \/ store[t] \in lost \/ \E j \in DOMAIN rest : rest[j] = store[t]
    OBVIOUS
  <2>1. Ahead(op[t], store[t])
    BY DEF CursorInv, MergesKeep
  <2>2. c.gen = op[t].best.gen /\ \A j \in DOMAIN rest : rest[j].gen = op[t].best.gen
    BY <1>5, <2>1 DEF Ahead
  <2>3. best.gen = op[t].best.gen /\ best.gen >= store[t].gen
    BY <1>6, <2>1, <2>2 DEF Ahead
  <2>4. ASSUME best.gen = store[t].gen, best.id < store[t].id
        PROVE  ~Anchored(store[t]) \/ store[t] \in lost \/ \E j \in DOMAIN rest : rest[j] = store[t]
    <3>1. op[t].best.id < store[t].id
      BY <1>2, <1>3, <1>6, <2>4 DEF Cursor
    <3>2. ~Anchored(store[t]) \/ store[t] \in op[t].lost \/ \E i \in DOMAIN op[t].todo : op[t].todo[i] = store[t]
      BY <2>1, <2>3, <2>4, <3>1 DEF Ahead
    <3>3. c = store[t] => ~Anchored(store[t]) \/ store[t] \in lost
      BY <1>2, <1>5, <1>6, <2>4 DEF Cursor
    <3> QED  BY <1>5, <1>6, <3>2, <3>3
  <2> QED  BY <2>2, <2>3, <2>4
<1>9. CASE Over
  <2>1. op' = [op EXCEPT ![t] = NoOp] /\ UNCHANGED store
    BY <1>1, <1>9
  <2>2. Moves(t, marked)
    BY <2>1, NoOpIs DEF Moves
  <2> QED  BY <1>1, <1>2, <2>1, <2>2, MovingKeeps, NothingStored DEF chainVars
<1>10. CASE ~Over /\ Len(op[t].todo) > 1
  <2>1. /\ op' = [op EXCEPT ![t].todo = rest, ![t].best = best, ![t].lost = lost]
        /\ UNCHANGED store
    BY <1>1, <1>10
  <2>2. op' = [op EXCEPT ![t] = [op[t] EXCEPT !.phase = op[t].phase, !.best = best,
                                              !.todo = rest, !.remote = op[t].remote,
                                              !.lost = lost]]
    BY <1>2, <2>1 DEF Calls
  <2>3. Moves(t, marked)
    BY <1>3, <1>5, <1>6, <1>7, <1>8, <1>10, <2>2, GoesOn
  <2> QED  BY <1>1, <1>2, <2>1, <2>3, MovingKeeps, NothingStored DEF chainVars
<1>11. CASE ~Over /\ ~(Len(op[t].todo) > 1) /\ op[t].phase = "merging"
  <2>1. Commit(t, best, lost)
    BY <1>1, <1>11
  <2>2. Follows(best, store[t], lost)
    <3>1. \A i \in DOMAIN op[t].todo : op[t].todo[i] = c
      BY <1>5, <1>11
    <3>2. Ahead(op[t], store[t])
      BY <1>11 DEF CursorInv, MergesKeep
    <3>3. ASSUME best.gen = store[t].gen, best.id < store[t].id
          PROVE  ~Anchored(store[t]) \/ store[t] \in lost
      <4>1. op[t].best.id < store[t].id
        BY <1>2, <1>3, <1>6, <3>3 DEF Cursor
      <4>2. ~Anchored(store[t]) \/ store[t] \in op[t].lost \/ c = store[t]
        BY <1>8, <1>11, <3>1, <3>2, <3>3, <4>1 DEF Ahead
      <4>3. c = store[t] => ~Anchored(store[t]) \/ store[t] \in lost
        BY <1>2, <1>5, <1>6, <3>3 DEF Cursor
      <4> QED  BY <1>6, <4>2, <4>3
    <3> QED  BY <1>8, <1>11, <3>3 DEF Follows
  <2>3. \A u \in Browser(t) : u # t => op[u].phase # "merging"
    BY <1>11 DEF CursorInv, OneHolder, Browser
  <2> QED  BY <1>1, <1>2, <1>6, <1>7, <1>11, <2>1, <2>2, <2>3, CommitKeeps
<1>12. CASE ~Over /\ ~(Len(op[t].todo) > 1) /\ op[t].phase # "merging"
  <2>1. Judged(t, best, op[t].remote) /\ UNCHANGED store
    BY <1>1, <1>12
  <2>2. Moves(t, marked)
    BY <1>3, <1>6, <1>7, <2>1, JudgedIs
  <2> QED  BY <1>1, <1>2, <2>1, <2>2, MovingKeeps, NothingStored DEF chainVars
<1> QED  BY <1>9, <1>10, <1>11, <1>12

(* The row is read: what it says is still to be judged, or it is settled. *)
LEMMA PullKeeps ==
  ASSUME CursorInv, NEW t \in Tabs, Pull(t)
  PROVE  CursorInv' /\ PositionsKept
<1> DEFINE merge == Candidates(op[t].best, row)
<1>1. /\ op[t].phase = "pulling"
      /\ IF merge.todo = << >>
           THEN Judged(t, merge.best, row)
           ELSE op' = [op EXCEPT ![t].phase = "judging", ![t].remote = row, ![t].lost = {},
                                 ![t].best = merge.best, ![t].todo = merge.todo]
      /\ UNCHANGED <<shared, chainVars, store, row, view, reset, notices, marked, troubles>>
  BY DEF Pull
<1>2. /\ op[t] \in Calls /\ op \in [Tabs -> Calls] /\ op[t].best \in Cursor
      /\ SeenIn(marked, op[t].best)
      /\ row \in Cursor \cup {NoRow} /\ SeenIn(marked, row) /\ troubles \in 0..MaxTroubles
  BY DEF CursorInv, Typed, AllSeen, Calls, CallSeenIn
<1>3. /\ merge.best = Empty(merge.best.gen) /\ merge.best.gen \in Nat
      /\ merge.todo \in Seq(Cursor)
      /\ \A i \in DOMAIN merge.todo : merge.todo[i] \in {op[t].best, row}
  BY <1>2, CandidatesAre
<1> HIDE DEF merge
<1>4. merge.best \in Cursor /\ SeenIn(marked, merge.best)
  <2>1. PICK g \in Nat : merge.best = Empty(g)
    BY <1>3
  <2> QED  BY <2>1, EmptyIsCursor
<1>5. \A i \in DOMAIN merge.todo : SeenIn(marked, merge.todo[i])
  BY <1>2, <1>3
<1>6. Moves(t, marked)
  <2>1. CASE merge.todo = << >>
    BY <1>1, <1>2, <1>4, <2>1, JudgedIs
  <2>2. CASE merge.todo # << >>
    <3> DEFINE o == [op[t] EXCEPT !.phase = "judging", !.remote = row, !.lost = {},
                                  !.best = merge.best, !.todo = merge.todo]
    <3>1. op' = [op EXCEPT ![t] = o]
      BY <1>1, <1>2, <2>2 DEF Calls
    <3>2. /\ o \in Calls /\ o.phase = "judging" /\ o.best = merge.best /\ o.todo = merge.todo
          /\ o.remote = row
      BY <1>2, <1>3, <1>4 DEF Calls, OpPhases
    <3> HIDE DEF o
    <3>3. CallSeenIn(marked, o) /\ Sound(t, o)
      BY <1>2, <1>4, <1>5, <2>2, <3>2 DEF CallSeenIn, Sound
    <3> QED  BY <3>1, <3>2, <3>3 DEF Moves
  <2> QED  BY <2>1, <2>2
<1> QED  BY <1>1, <1>2, <1>6, MovingKeeps, NothingStored DEF chainVars

(* The row takes the cursor, or the boundary of its generation. *)
LEMMA PushKeeps ==
  ASSUME CursorInv, NEW t \in Tabs, Push(t)
  PROVE  CursorInv' /\ PositionsKept
<1> DEFINE best == op[t].best
           opens == op[t].remote # NoRow /\ best.gen > op[t].remote.gen
           new == IF opens THEN Empty(best.gen) ELSE best
<1>1. /\ IF ~RowAccepts(new)
           THEN UNCHANGED row /\ op' = [op EXCEPT ![t] = NoOp]
           ELSE row' = new /\ Judged(t, best, new)
      /\ UNCHANGED <<shared, chainVars, store, view, reset, notices, marked, troubles>>
  BY DEF Push
<1>2. /\ best \in Cursor /\ SeenIn(marked, best) /\ best.gen \in Nat
      /\ row \in Cursor \cup {NoRow} /\ SeenIn(marked, row) /\ troubles \in 0..MaxTroubles
  BY DEF CursorInv, Typed, AllSeen, Calls, CallSeenIn, Cursor
<1> HIDE DEF best, opens
<1>3. new \in Cursor /\ SeenIn(marked, new)
  BY <1>2, EmptyIsCursor
<1> HIDE DEF new
<1>4. CASE ~RowAccepts(new)
  <2>1. UNCHANGED row /\ op' = [op EXCEPT ![t] = NoOp]
    BY <1>1, <1>4
  <2>2. Moves(t, marked)
    BY <2>1, NoOpIs DEF Moves
  <2> QED  BY <1>1, <1>2, <2>1, <2>2, MovingKeeps, NothingStored DEF chainVars
<1>5. CASE RowAccepts(new)
  <2>1. row' = new /\ Judged(t, best, new)
    BY <1>1, <1>5
  <2>2. Moves(t, marked)
    BY <1>2, <1>3, <2>1, JudgedIs
  <2> QED  BY <1>1, <1>2, <1>3, <2>1, <2>2, MovingKeeps, NothingStored DEF chainVars
<1> QED  BY <1>4, <1>5

(* A user has seen the position a mark names, and it is one of the chain   *)
(* as the tab read it.                                                     *)
LEMMA MarkKeeps ==
  ASSUME CursorInv, NEW t \in Tabs, Mark(t)
  PROVE  CursorInv' /\ PositionsKept
<1>1. UNCHANGED <<shared, born, branch, store, row, view, reset, notices, troubles>>
  BY DEF Mark, chainVars
<1>2. PICK m \in DOMAIN view[t] :
        /\ marked' = marked \cup {<<m, view[t][m]>>}
        /\ Enqueue(t, Len(born), <<[gen |-> store[t].gen, id |-> m, branch |-> view[t][m]]>>, FALSE)
  BY DEF Mark, Shown
<1> DEFINE c == [gen |-> store[t].gen, id |-> m, branch |-> view[t][m]]
<1>3. /\ view[t] \in Seq(0..MaxReorgs) /\ Len(view[t]) <= MaxMessages /\ MaxMessages \in Nat
      /\ store[t].gen \in Nat /\ Len(born) \in Nat
      /\ row \in Cursor \cup {NoRow} /\ SeenIn(marked, row) /\ troubles \in 0..MaxTroubles
  BY CursorAssumption, LenProperties DEF CursorInv, Typed, AllSeen, Cursor
<1>4. m \in 0..MaxMessages /\ view[t][m] \in 0..MaxReorgs
  <2>1. PICK s \in Seq(0..MaxReorgs) : s = view[t]
    BY <1>3
  <2>2. m \in 1..Len(s) /\ Len(s) \in Nat /\ s[m] \in 0..MaxReorgs
    BY <2>1, LenProperties, ElementOfSeq
  <2>3. Len(s) <= MaxMessages
    BY <1>3, <2>1
  <2>4. m \in 0..MaxMessages
    BY ONLY <1>3, <2>2, <2>3
  <2> QED  BY <2>1, <2>2, <2>4
<1>5. c \in Cursor /\ c.id = m /\ c.branch = view[t][m]
  BY <1>3, <1>4 DEF Cursor
<1> HIDE DEF c
<1>6. SeenIn(marked', c)
  BY <1>2, <1>5 DEF SeenIn
<1>7. <<c>> \in Seq(Cursor) /\ \A i \in DOMAIN <<c>> : <<c>>[i] = c
  BY <1>5
<1>8. Enqueue(t, Len(born), <<c>>, FALSE)
  BY <1>2 DEF c
<1>9. Moves(t, marked')
  BY <1>3, <1>6, <1>7, <1>8, EnqueueIs
<1>10. \A k, b : <<k, b>> \in marked' => AtHome(k, b)
  <2>1. AtHome(m, view[t][m])
    BY DEF CursorInv, AllAtHome
  <2>2. \A k, b : <<k, b>> \in marked => AtHome(k, b)
    BY DEF CursorInv, AllAtHome
  <2> QED  BY <1>2, <2>1, <2>2
<1>11. RestTyped' /\ \A u \in Tabs : \A k \in DOMAIN view'[u] : AtHome(k, view'[u][k])
  BY <1>1, <1>3, RestStays
<1>12. SeenIn(marked', row') /\ row' \in Cursor \cup {NoRow} /\ marked \subseteq marked'
  BY <1>1, <1>2, <1>3, SeenStays
<1> QED  BY <1>1, <1>9, <1>10, <1>11, <1>12, CallKeeps, NothingStored DEF Moves

(* An unread count is asked for. *)
LEMMA LoadKeeps ==
  ASSUME CursorInv, NEW t \in Tabs, Load(t)
  PROVE  CursorInv' /\ PositionsKept
<1>1. /\ Enqueue(t, Len(born), << >>, FALSE)
      /\ UNCHANGED <<shared, chainVars, store, row, view, reset, notices, marked, troubles>>
  BY DEF Load
<1>2. /\ Len(born) \in Nat /\ << >> \in Seq(Cursor) /\ DOMAIN << >> = {}
      /\ row \in Cursor \cup {NoRow} /\ SeenIn(marked, row) /\ troubles \in 0..MaxTroubles
  BY EmptySeq, LenProperties DEF CursorInv, Typed, AllSeen
<1>3. Moves(t, marked)
  BY <1>1, <1>2, EnqueueIs
<1> QED  BY <1>1, <1>2, <1>3, MovingKeeps, NothingStored DEF chainVars

-----------------------------------------------------------------------------
(* The steps of resets, and of the world.                                  *)

(* A call that a reset overtakes goes on with what it has. *)
LEMMA OvertakenIs ==
  ASSUME CursorInv, NEW t \in Tabs
  PROVE  /\ Overtaken(op[t]) \in Calls /\ CallSeenIn(marked, Overtaken(op[t]))
         /\ Sound(t, Overtaken(op[t]))
<1> DEFINE o == Overtaken(op[t])
<1>1. op[t] \in Calls /\ op[t].delta + 1 \in Nat /\ CallSeenIn(marked, op[t])
  BY DEF CursorInv, Typed, Calls, AllSeen
<1>2. o = op[t] \/ o = [op[t] EXCEPT !.delta = op[t].delta + 1]
  BY DEF Overtaken
<1>3. /\ o \in Calls /\ o.phase = op[t].phase /\ o.best = op[t].best
      /\ o.todo = op[t].todo /\ o.remote = op[t].remote /\ o.lost = op[t].lost
  BY <1>1, <1>2 DEF Calls
<1> HIDE DEF o
<1>4. CallSeenIn(marked, o) /\ Sound(t, o)
  BY <1>1, <1>3 DEF CallSeenIn, Sound, Ahead, CursorInv, AnchorsLeft, MergesKeep
<1> QED  BY <1>3, <1>4 DEF o

(* A call is overtaken, or given up: nothing is stored.                    *)
LEMMA CallGivenUp ==
  ASSUME CursorInv, NEW t \in Tabs,
         op' = op \/ op' = [op EXCEPT ![t] = NoOp] \/ op' = [op EXCEPT ![t] = Overtaken(op[t])],
         UNCHANGED <<shared, born, branch, store, marked>>, RestTyped',
         row' \in Cursor \cup {NoRow}, SeenIn(marked, row'),
         \A u \in Tabs : \A m \in DOMAIN view'[u] : AtHome(m, view'[u][m])
  PROVE  CursorInv' /\ PositionsKept
<1>1. op' = op \/ Moves(t, marked)
  BY NoOpIs, OvertakenIs DEF Moves
<1>2. \A m, b : <<m, b>> \in marked' => AtHome(m, b)
  BY DEF CursorInv, AllAtHome
<1> QED  BY <1>1, <1>2, CallKeeps, NothingStored DEF Moves

(* A tab that has read the chain, or starts over, shows what was mined. *)
LEMMA ViewReplaced ==
  ASSUME CursorInv, NEW t \in Tabs, NEW s \in {born, << >>}, view' = [view EXCEPT ![t] = s]
  PROVE  /\ view' \in [Tabs -> Seq(0..MaxReorgs)] /\ \A u \in Tabs : Len(view'[u]) <= MaxMessages
         /\ \A u \in Tabs : \A m \in DOMAIN view'[u] : AtHome(m, view'[u][m])
<1>1. /\ view \in [Tabs -> Seq(0..MaxReorgs)] /\ s \in Seq(0..MaxReorgs)
      /\ \A u \in Tabs : Len(view[u]) <= MaxMessages
      /\ MaxMessages \in Nat
  BY CursorAssumption, EmptySeq DEF CursorInv, Typed
<1>2. Len(s) <= MaxMessages /\ \A m \in DOMAIN s : AtHome(m, s[m])
  <2>1. CASE s = born
    <3>1. \A m \in DOMAIN born : born[m] \in Nat /\ born[m] <= branch
      <4>1. \A m \in DOMAIN born : born[m] \in 0..MaxReorgs
        BY ElementOfSeq, LenProperties DEF CursorInv, Typed
      <4> QED  BY <4>1, CursorAssumption DEF CursorInv, AllAtHome
    <3>2. Len(born) <= MaxMessages
      BY DEF CursorInv, Typed
    <3> QED  BY <2>1, <3>1, <3>2 DEF AtHome
  <2>2. CASE s = << >>
    <3>1. Len(s) = 0 /\ DOMAIN s = {}
      BY <2>2, EmptySeq
    <3> QED  BY <1>1, <3>1
  <2> QED  BY <2>1, <2>2
<1>3. view'[t] = s /\ \A u \in Tabs : u # t => view'[u] = view[u]
  BY <1>1
<1>4. \A u \in Tabs : u # t => \A m \in DOMAIN view[u] : AtHome(m, view[u][m])
  BY DEF CursorInv, AllAtHome
<1> QED  BY <1>1, <1>2, <1>3, <1>4

(* A reset settles: the tab's projection starts over. *)
LEMMA SettleIs ==
  ASSUME CursorInv, NEW t \in Tabs, Settle(t), notices' \subseteq Tabs, troubles' \in 0..MaxTroubles
  PROVE  RestTyped' /\ \A u \in Tabs : \A m \in DOMAIN view'[u] : AtHome(m, view'[u][m])
<1>1. reset' \in [Tabs -> Resets]
  <2>1. NoReset \in Resets
    BY DEF NoReset, Resets, ResetPhases
  <2> QED  BY <2>1 DEF Settle, CursorInv, Typed
<1>2. view' = [view EXCEPT ![t] = << >>]
  BY DEF Settle
<1> QED  BY <1>1, <1>2, ViewReplaced DEF RestTyped

(* What a reset's phase may be. *)
LEMMA ResetMoves ==
  ASSUME CursorInv, NEW t \in Tabs, NEW p \in ResetPhases, NEW n \in Nat,
         \/ reset' = [reset EXCEPT ![t].phase = p]
         \/ reset' = [reset EXCEPT ![t] = [phase |-> p, next |-> n]]
  PROVE  reset' \in [Tabs -> Resets]
<1>1. reset \in [Tabs -> Resets]
  BY DEF CursorInv, Typed
<1>2. CASE reset' = [reset EXCEPT ![t].phase = p]
  <2>1. [reset[t] EXCEPT !.phase = p] \in Resets
    BY <1>1 DEF Resets
  <2>2. reset' = [reset EXCEPT ![t] = [reset[t] EXCEPT !.phase = p]]
    BY <1>1, <1>2
  <2> QED  BY <1>1, <2>1, <2>2
<1>3. CASE reset' = [reset EXCEPT ![t] = [phase |-> p, next |-> n]]
  <2>1. [phase |-> p, next |-> n] \in Resets
    BY DEF Resets
  <2> QED  BY <1>1, <1>3, <2>1
<1> QED  BY <1>2, <1>3

(* The history is read, or is of another branch. *)
LEMMA SyncKeeps ==
  ASSUME CursorInv, NEW t \in Tabs, Sync(t)
  PROVE  CursorInv' /\ PositionsKept
<1>1. /\ UNCHANGED <<shared, born, branch, store, row, marked>>
      /\ row \in Cursor \cup {NoRow} /\ SeenIn(marked, row)
      /\ view \in [Tabs -> Seq(0..MaxReorgs)] /\ \A u \in Tabs : Len(view[u]) <= MaxMessages
      /\ reset \in [Tabs -> Resets] /\ notices \subseteq Tabs
      /\ \A u \in Tabs : \A m \in DOMAIN view[u] : AtHome(m, view[u][m])
  BY DEF Sync, chainVars, CursorInv, Typed, AllSeen, AllAtHome
<1>2. troubles' \in 0..MaxTroubles
  BY CursorAssumption DEF Sync, Trouble, CursorInv, Typed
<1>3. CASE view' = [view EXCEPT ![t] = born] /\ UNCHANGED <<op, reset, notices>>
  <2>1. RestTyped' /\ \A u \in Tabs : \A m \in DOMAIN view'[u] : AtHome(m, view'[u][m])
    BY <1>1, <1>2, <1>3, ViewReplaced DEF RestTyped
  <2> QED  BY <1>1, <1>3, <2>1, CallGivenUp
<1>4. CASE StartReset(t)
  <2>1. /\ reset' = [reset EXCEPT ![t].phase = "queued"]
        /\ op' = [op EXCEPT ![t] = Overtaken(@)]
        /\ notices' = notices \cup (Browser(t) \ {t})
        /\ UNCHANGED view
    BY <1>4 DEF StartReset
  <2>2. reset' \in [Tabs -> Resets]
    BY <2>1, ResetMoves DEF ResetPhases
  <2>3. RestTyped' /\ \A u \in Tabs : \A m \in DOMAIN view'[u] : AtHome(m, view'[u][m])
    BY <1>1, <1>2, <2>1, <2>2 DEF RestTyped, Browser
  <2>4. op' = [op EXCEPT ![t] = Overtaken(op[t])]
    BY <2>1
  <2> QED  BY <1>1, <2>3, <2>4, CallGivenUp
<1> QED  BY <1>3, <1>4 DEF Sync

(* A notice overtakes the call of the tab it comes to. *)
LEMMA NoticeKeeps ==
  ASSUME CursorInv, NEW t \in Tabs, Notice(t)
  PROVE  CursorInv' /\ PositionsKept
<1>1. /\ UNCHANGED <<shared, born, branch, store, row, view, reset, marked, troubles>>
      /\ notices' \subseteq notices /\ op' = [op EXCEPT ![t] = Overtaken(op[t])]
      /\ row \in Cursor \cup {NoRow} /\ SeenIn(marked, row)
  BY DEF Notice, chainVars, CursorInv, Typed, AllSeen
<1>2. RestTyped' /\ \A u \in Tabs : \A m \in DOMAIN view'[u] : AtHome(m, view'[u][m])
  BY <1>1 DEF RestTyped, CursorInv, Typed, AllAtHome
<1> QED  BY <1>1, <1>2, CallGivenUp

(* The next generation begins, while nobody merges into the storage. *)
LEMMA ResetStoreKeeps ==
  ASSUME CursorInv, NEW t \in Tabs, ResetStore(t)
  PROVE  CursorInv' /\ PositionsKept
<1>1. /\ Unlocked(t) /\ Persist(t, Empty(store[t].gen + 1))
      /\ UNCHANGED <<shared, born, branch, row, op, marked, troubles>>
      /\ notices' = notices \cup (Browser(t) \ {t})
      /\ op[t] \in Calls /\ CallSeenIn(marked, op[t]) /\ op \in [Tabs -> Calls]
      /\ store[t].gen \in Nat /\ store[t].gen + 1 \in Nat
      /\ notices' \subseteq Tabs /\ troubles' \in 0..MaxTroubles
  BY DEF ResetStore, chainVars, CursorInv, Typed, AllSeen, Cursor, Browser
<1>2. RestTyped' /\ \A u \in Tabs : \A m \in DOMAIN view'[u] : AtHome(m, view'[u][m])
  <2>1. CASE shared
    <3>1. Settle(t)
      BY <2>1 DEF ResetStore
    <3> QED  BY <1>1, <3>1, SettleIs
  <2>2. CASE ~shared
    <3>1. reset' = [reset EXCEPT ![t].phase = "reading"] /\ UNCHANGED view
      BY <2>2 DEF ResetStore
    <3>2. reset' \in [Tabs -> Resets]
      BY <3>1, ResetMoves DEF ResetPhases
    <3> QED  BY <1>1, <3>1, <3>2 DEF RestTyped, CursorInv, Typed, AllAtHome
  <2> QED  BY <2>1, <2>2
<1>3. PICK c \in Cursor : /\ c = Empty(store[t].gen + 1) /\ SeenIn(marked, c)
                          /\ c.gen = store[t].gen + 1
  BY <1>1, EmptyIsCursor
<1>4. Follows(c, store[t], {})
  BY <1>1, <1>3 DEF Follows
<1>5. Persist(t, c)
  BY <1>1, <1>3
<1>6. op' = [op EXCEPT ![t] = op[t]]
  BY <1>1
<1>7. t \in Browser(t)
  BY DEF Browser
<1>8. op[t].phase # "merging" /\ \A u \in Browser(t) : op[u].phase # "merging"
  BY <1>1, <1>7 DEF Unlocked
<1>9. CursorInv'
  BY <1>1, <1>2, <1>3, <1>5, <1>6, <1>8, StoreKeeps
<1> QED  BY <1>3, <1>4, <1>5, <1>9, StoringKeeps

(* The row of the next generation, or a reset that is given up. *)
LEMMA ResetCloudKeeps ==
  ASSUME CursorInv, NEW t \in Tabs, ResetReads(t) \/ ResetWrites(t) \/ ResetFails(t)
  PROVE  CursorInv' /\ PositionsKept
<1>1. /\ UNCHANGED <<shared, born, branch, store, op, notices, marked, troubles>>
      /\ row \in Cursor \cup {NoRow} /\ SeenIn(marked, row)
      /\ notices \subseteq Tabs /\ troubles \in 0..MaxTroubles
      /\ reset \in [Tabs -> Resets]
  BY DEF ResetReads, ResetWrites, ResetFails, chainVars, CursorInv, Typed, AllSeen
<1>2. row' = row \/ \E n \in Nat : row' = Empty(n)
  <2>1. reset[t].next \in Nat
    BY <1>1 DEF Resets
  <2> QED  BY <2>1 DEF ResetReads, ResetWrites, ResetFails
<1>3. row' \in Cursor \cup {NoRow} /\ SeenIn(marked, row')
  BY <1>1, <1>2, EmptyIsCursor
<1>4. RestTyped' /\ \A u \in Tabs : \A m \in DOMAIN view'[u] : AtHome(m, view'[u][m])
  <2>1. CASE ResetReads(t)
    <3> DEFINE n == IF row = NoRow THEN 0 ELSE row.gen + 1
    <3>1. reset' = [reset EXCEPT ![t] = [phase |-> "writing", next |-> n]] /\ UNCHANGED view
      BY <2>1 DEF ResetReads
    <3>2. n \in Nat
      BY <1>1 DEF Cursor
    <3> HIDE DEF n
    <3>3. reset' \in [Tabs -> Resets]
      BY <3>1, <3>2, ResetMoves DEF ResetPhases
    <3> QED  BY <1>1, <3>1, <3>3 DEF RestTyped, CursorInv, Typed, AllAtHome
  <2>2. CASE ResetWrites(t) \/ ResetFails(t)
    <3>1. Settle(t)
      BY <2>2 DEF ResetWrites, ResetFails
    <3> QED  BY <1>1, <3>1, SettleIs
  <2> QED  BY <2>1, <2>2
<1> QED  BY <1>1, <1>3, <1>4, CallGivenUp

(* A call fails, a page reloads, a row is wiped. *)
LEMMA TroubleKeeps ==
  ASSUME CursorInv, NEW t \in Tabs, OpFails(t) \/ Reload(t) \/ Wipe
  PROVE  CursorInv' /\ PositionsKept
<1>1. /\ UNCHANGED <<shared, born, branch, store, marked>>
      /\ row' \in {row, NoRow} /\ row \in Cursor \cup {NoRow} /\ SeenIn(marked, row)
      /\ op' = op \/ op' = [op EXCEPT ![t] = NoOp]
      /\ notices' \subseteq Tabs
  BY DEF OpFails, Reload, Wipe, chainVars, CursorInv, Typed, AllSeen
<1>2. troubles' \in 0..MaxTroubles
  BY CursorAssumption DEF OpFails, Reload, Wipe, Trouble, CursorInv, Typed
<1>3. RestTyped' /\ \A u \in Tabs : \A m \in DOMAIN view'[u] : AtHome(m, view'[u][m])
  <2>1. CASE Reload(t)
    <3>1. Settle(t)
      BY <2>1 DEF Reload, Settle
    <3> QED  BY <1>1, <1>2, <3>1, SettleIs
  <2>2. CASE OpFails(t) \/ Wipe
    <3>1. UNCHANGED <<view, reset, notices>>
      BY <2>2 DEF OpFails, Wipe
    <3> QED  BY <1>2, <3>1, RestStays
  <2> QED  BY <2>1, <2>2
<1>4. row' \in Cursor \cup {NoRow} /\ SeenIn(marked, row')
  BY <1>1, NoRowIsNoCursor
<1> QED  BY <1>1, <1>3, <1>4, CallGivenUp

-----------------------------------------------------------------------------
(* The theorems.                                                           *)

(* A step keeps the invariant, and what is stored. *)
LEMMA StepKeeps == CursorInv /\ [CursorNext]_cursorVars => CursorInv' /\ PositionsKept
<1> SUFFICES ASSUME CursorInv, [CursorNext]_cursorVars
             PROVE  CursorInv' /\ PositionsKept
  OBVIOUS
<1>1. CASE Post \/ Reorg
  <2>1. UNCHANGED store
    BY <1>1 DEF Post, Reorg
  <2> QED  BY <1>1, <2>1, ChainKeeps, NothingStored
<1>2. CASE Wipe
  <2>1. CASE Tabs = {}
    <3>1. PositionsKept
      BY <2>1 DEF PositionsKept
    <3>2. /\ UNCHANGED <<shared, born, branch, store, view, op, reset, notices, marked>>
          /\ row' = NoRow /\ troubles' \in 0..MaxTroubles
      BY <1>2, CursorAssumption DEF Wipe, Trouble, chainVars, CursorInv, Typed
    <3> QED  BY <3>1, <3>2, NoRowIsNoCursor, MovingKeeps
  <2>2. CASE Tabs # {}
    BY <1>2, <2>2, TroubleKeeps
  <2> QED  BY <2>1, <2>2
<1>3. ASSUME NEW t \in Tabs, CallStep(t)
      PROVE  CursorInv' /\ PositionsKept
  BY <1>3, AcquireKeeps, ReadAnchorKeeps, PullKeeps, PushKeeps DEF CallStep
<1>4. ASSUME NEW t \in Tabs, Mark(t) \/ Load(t) \/ Sync(t) \/ Notice(t)
      PROVE  CursorInv' /\ PositionsKept
  BY <1>4, MarkKeeps, LoadKeeps, SyncKeeps, NoticeKeeps
<1>5. ASSUME NEW t \in Tabs, ResetStore(t) \/ ResetReads(t) \/ ResetWrites(t) \/ ResetFails(t)
      PROVE  CursorInv' /\ PositionsKept
  BY <1>5, ResetStoreKeeps, ResetCloudKeeps
<1>6. ASSUME NEW t \in Tabs, OpFails(t) \/ Reload(t)
      PROVE  CursorInv' /\ PositionsKept
  BY <1>6, TroubleKeeps
<1>7. CASE UNCHANGED cursorVars
  <2>1. /\ UNCHANGED <<shared, born, branch, store, row, view, op, reset, notices, marked, troubles>>
        /\ row \in Cursor \cup {NoRow} /\ SeenIn(marked, row) /\ troubles \in 0..MaxTroubles
    BY <1>7 DEF cursorVars, CursorInv, Typed, AllSeen
  <2> QED  BY <2>1, MovingKeeps, NothingStored
<1> QED  BY <1>1, <1>2, <1>3, <1>4, <1>5, <1>6, <1>7 DEF CursorNext

(* Nothing has been seen, nothing is stored. *)
LEMMA BeginsSound == CursorInit => CursorInv
<1> SUFFICES ASSUME CursorInit PROVE CursorInv
  OBVIOUS
<1>1. Empty(0) \in Cursor /\ \A seen : SeenIn(seen, Empty(0))
  BY EmptyIsCursor
<1>2. << >> \in Seq(0..MaxReorgs) /\ Len(<< >>) = 0 /\ \A s \in Seq(0..MaxReorgs) : s = << >> => DOMAIN s = {}
  BY EmptySeq
<1>3. Typed
  <2>1. NoReset \in Resets
    BY DEF NoReset, Resets, ResetPhases
  <2> QED  BY <1>1, <1>2, <2>1, NoOpIs, CursorAssumption DEF CursorInit, Typed
<1>4. \A t \in Tabs : op[t] = NoOp /\ store[t] = Empty(0) /\ view[t] = << >>
  BY DEF CursorInit
<1>5. AnchorsLeft /\ OneHolder /\ MergesKeep /\ OneStore
  BY <1>4, NoOpIs DEF AnchorsLeft, OneHolder, MergesKeep, OneStore
<1>6. AllSeen
  BY <1>1, <1>4, NoOpIs, NoRowIsNoCursor DEF AllSeen, CursorInit
<1>7. AllAtHome
  BY <1>2, <1>4 DEF AllAtHome, CursorInit
<1> QED  BY <1>3, <1>5, <1>6, <1>7 DEF CursorInv

(* The state is typed, whatever crosses on the way. *)
THEOREM CursorTypeCorrect == CursorSpec => []CursorTypeOK
<1>1. CursorInv => CursorTypeOK
  BY DEF CursorInv, Typed, CursorTypeOK, Calls, Resets
<1>2. CursorInv /\ [CursorNext]_cursorVars => CursorInv'
  BY StepKeeps
<1> QED  BY <1>1, <1>2, BeginsSound, PTL DEF CursorSpec

(* A cursor, in a browser or in the row, names only what a user has seen   *)
(* in the block it names.                                                  *)
THEOREM PositionsWereSeen == CursorSpec => []PositionWasSeen
<1>1. CursorInv => PositionWasSeen
  <2> SUFFICES ASSUME CursorInv PROVE PositionWasSeen
    OBVIOUS
  <2>1. \A t \in Tabs : store[t] # NoRow
    BY NoRowIsNoCursor DEF CursorInv, Typed
  <2> QED  BY <2>1 DEF CursorInv, AllSeen, SeenIn, PositionWasSeen
<1>2. CursorInv /\ [CursorNext]_cursorVars => CursorInv'
  BY StepKeeps
<1> QED  BY <1>1, <1>2, BeginsSound, PTL DEF CursorSpec

(* What a browser has stored is not lost to a late merge or another tab:   *)
(* the generation never falls, and a position only with its block, or when *)
(* a node denies that block to the merge that stores the lower one.        *)
THEOREM PositionsStay == CursorSpec => PositionIsKept
<1>1. CursorInv /\ [CursorNext]_cursorVars => CursorInv'
  BY StepKeeps
<1>2. CursorInv /\ [CursorNext]_cursorVars =>
        [\A t \in Tabs :
           /\ store'[t].gen >= store[t].gen
           /\ store'[t].gen = store[t].gen /\ store'[t].id < store[t].id =>
                \/ ~Anchored(store[t])
                \/ \E u \in Browser(t) : op[u].phase = "merging" /\ store[t] \in op'[u].lost]_cursorVars
  BY StepKeeps DEF PositionsKept, Denied
<1> QED  BY <1>1, <1>2, BeginsSound, PTL DEF CursorSpec, PositionIsKept
=============================================================================
