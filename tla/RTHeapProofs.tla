---------------------------- MODULE RTHeapProofs ----------------------------
(***************************************************************************)
(* Proofs about the array heaps of rt_scheduler.c (module RTHeap), for     *)
(* every MAX_QUEUE, every set of descriptors and every set of keys.        *)
(*                                                                         *)
(* The sift loops of enqueue_thread and dequeue_thread and the             *)
(* TOBE_REMOVED retry of dequeue_thread are functions of the turn count    *)
(* in RTHeap.  Each is proved correct by a loop invariant, shown for every *)
(* turn by induction over the turns, and by a bound on the turns after     *)
(* which the loop has exited.                                              *)
(***************************************************************************)
EXTENDS RTHeap, TLAPS, NaturalsInduction, WellFoundedInduction

\* queue->threads
Arrays == [Slots -> Items \cup {NoItem}]

\* Slots 0..m-1 hold descriptors.
ItemsBelow(b, m) == \A i \in 0..m-1 : b[i] \in Items

\* Slots 0..m-1 of b are in heap order.
Ordered(b, m) == \A i \in 1..m-1 : key[b[Parent(i)]] <= key[b[i]]

-----------------------------------------------------------------------------
(* Constants, indices and induction.                                       *)

LEMMA CapPos == Cap \in Nat /\ Cap > 0
  BY HeapAssumption DEF HeapAssumption

LEMMA KeyNat ==
    ASSUME key \in [Items -> Keys], NEW x \in Items
    PROVE  key[x] \in Nat
  BY HeapAssumption DEF HeapAssumption

\* The parent of a node other than the root is a smaller node, and the
\* children of p are the two nodes whose parent is p.
LEMMA ParentFacts ==
    ASSUME NEW i \in Nat \ {0}
    PROVE  /\ Parent(i) \in Nat
           /\ Parent(i) < i
           /\ i = Left(Parent(i)) \/ i = Right(Parent(i))
  BY DEF Parent, Left, Right

LEMMA ChildFacts ==
    ASSUME NEW p \in Nat
    PROVE  /\ Left(p) \in Nat \ {0} /\ Right(p) \in Nat \ {0}
           /\ Parent(Left(p)) = p /\ Parent(Right(p)) = p
           /\ Left(p) > p /\ Right(p) = Left(p) + 1
  BY DEF Parent, Left, Right

LEMMA RootParent == Parent(0) = 0
  BY DEF Parent

\* Induction over the naturals, stated for a set so that the provers can
\* instantiate it.
LEMMA NatSetInduction ==
    ASSUME NEW S, 0 \in S, \A n \in Nat : n \in S => n + 1 \in S
    PROVE  Nat \subseteq S
<1> SUFFICES ASSUME Nat \ S # {} PROVE FALSE
  OBVIOUS
<1>1. \E m \in Nat \ S : \A y \in Nat \ S : ~(<<y, m>> \in OpToRel(<, Nat))
  BY WFMin, NatLessThanWellFounded
<1>2. PICK m \in Nat \ S : \A y \in Nat \ S : ~(y < m)
  BY <1>1 DEF OpToRel
<1>3. m # 0 /\ m - 1 \in Nat /\ m - 1 < m
  BY <1>2
<1>4. m - 1 \in S
  BY <1>2, <1>3
<1> QED
  BY <1>3, <1>4, <1>2

-----------------------------------------------------------------------------
(* The loops unfolded: turn n + 1 is one turn from turn n.                 *)

LEMMA SiftUpRunDef ==
    ASSUME NEW a, NEW pos, NEW t
    PROVE  /\ SiftUpRun(a, pos, t)[0] = [arr |-> a, pos |-> pos]
           /\ \A n \in Nat : SiftUpRun(a, pos, t)[n + 1]
                               = SiftUpTurn(SiftUpRun(a, pos, t)[n], t)
<1> DEFINE f0 == [arr |-> a, pos |-> pos]
           D(v, i) == SiftUpTurn(v, t)
           f == CHOOSE g : g = [i \in Nat |-> IF i = 0 THEN f0 ELSE D(g[i - 1], i)]
<1>1. SiftUpRun(a, pos, t) = f
  BY DEF SiftUpRun
<1>2. \A i \in Nat : f[i] = IF i = 0 THEN f0 ELSE D(f[i - 1], i)
  <2> HIDE DEF f0, D, f
  <2> SUFFICES NatInductiveDefConclusion(f, f0, D)
    BY DEF NatInductiveDefConclusion
  <2> SUFFICES NatInductiveDefHypothesis(f, f0, D)
    BY NatInductiveDef
  <2> QED
    BY DEF NatInductiveDefHypothesis, f
<1> QED
  BY <1>1, <1>2

LEMMA SiftDownRunDef ==
    ASSUME NEW a, NEW n0, NEW m, NEW last
    PROVE  /\ SiftDownRun(a, n0, m, last)[0]
                = [arr |-> a, now |-> n0, done |-> FALSE]
           /\ \A k \in Nat : SiftDownRun(a, n0, m, last)[k + 1]
                = SiftDownTurn(SiftDownRun(a, n0, m, last)[k], m, last)
<1> DEFINE f0 == [arr |-> a, now |-> n0, done |-> FALSE]
           D(v, i) == SiftDownTurn(v, m, last)
           f == CHOOSE g : g = [i \in Nat |-> IF i = 0 THEN f0 ELSE D(g[i - 1], i)]
<1>1. SiftDownRun(a, n0, m, last) = f
  BY DEF SiftDownRun
<1>2. \A i \in Nat : f[i] = IF i = 0 THEN f0 ELSE D(f[i - 1], i)
  <2> HIDE DEF f0, D, f
  <2> SUFFICES NatInductiveDefConclusion(f, f0, D)
    BY DEF NatInductiveDefConclusion
  <2> SUFFICES NatInductiveDefHypothesis(f, f0, D)
    BY NatInductiveDef
  <2> QED
    BY DEF NatInductiveDefHypothesis, f
<1>3. \A k \in Nat : k + 1 \in Nat /\ k + 1 # 0 /\ (k + 1) - 1 = k
  OBVIOUS
<1>4. f[0] = f0 /\ \A k \in Nat : f[k + 1] = D(f[k], k + 1)
  BY <1>2, <1>3, Zenon
<1> QED
  BY <1>1, <1>4, Zenon

LEMMA DequeueRunDef ==
    ASSUME NEW a, NEW m
    PROVE  /\ DequeueRun(a, m)[0]
                = [arr |-> a, size |-> m, out |-> NoItem, done |-> FALSE]
           /\ \A k \in Nat : DequeueRun(a, m)[k + 1]
                = DequeueTurn(DequeueRun(a, m)[k])
<1> DEFINE f0 == [arr |-> a, size |-> m, out |-> NoItem, done |-> FALSE]
           D(v, i) == DequeueTurn(v)
           f == CHOOSE g : g = [i \in Nat |-> IF i = 0 THEN f0 ELSE D(g[i - 1], i)]
<1>1. DequeueRun(a, m) = f
  BY DEF DequeueRun
<1>2. \A i \in Nat : f[i] = IF i = 0 THEN f0 ELSE D(f[i - 1], i)
  <2> HIDE DEF f0, D, f
  <2> SUFFICES NatInductiveDefConclusion(f, f0, D)
    BY DEF NatInductiveDefConclusion
  <2> SUFFICES NatInductiveDefHypothesis(f, f0, D)
    BY NatInductiveDef
  <2> QED
    BY DEF NatInductiveDefHypothesis, f
<1>3. \A k \in Nat : k + 1 \in Nat /\ k + 1 # 0 /\ (k + 1) - 1 = k
  OBVIOUS
<1>4. f[0] = f0 /\ \A k \in Nat : f[k + 1] = D(f[k], k + 1)
  BY <1>2, <1>3, Zenon
<1> QED
  BY <1>1, <1>4, Zenon
-----------------------------------------------------------------------------
(* The sift-up of enqueue_thread.                                          *)

\* The guard of the while loop of enqueue_thread.
UpMoves(v, t) == key[v.arr[Parent(v.pos)]] > key[t] /\ v.pos # Parent(v.pos)

\* The array the loop's variables stand for: t written at pos.
UpView(v, t) == [v.arr EXCEPT ![v.pos] = t]

\* The invariant of the while loop of enqueue_thread on a heap of N
\* entries, the new entry t last: with t at pos the entries are in heap
\* order except between pos and its parent, and the parent of pos is no
\* greater than the children of pos (which the next turn makes its
\* grandchildren).
UpInv(v, t, N) ==
    /\ v.arr \in Arrays
    /\ v.pos \in 0..N-1
    /\ ItemsBelow(v.arr, N)
    /\ \A i \in 1..N-1 :
          i # v.pos => key[UpView(v, t)[Parent(i)]] <= key[UpView(v, t)[i]]
    /\ v.pos # 0 =>
          \A c \in 1..N-1 :
             Parent(c) = v.pos => key[v.arr[Parent(v.pos)]] <= key[v.arr[c]]

\* Every turn that moves an entry lowers pos: after n turns a loop still
\* moving has pos at most p0 - n.
UpBound(v, t, n, p0) == UpMoves(v, t) => v.pos + n <= p0

LEMMA UpInit ==
    ASSUME key \in [Items -> Keys], NEW t \in Items, NEW b \in Arrays,
           NEW m \in 0..Cap-1, ItemsBelow(b, m), Ordered(b, m)
    PROVE  /\ UpInv([arr |-> [b EXCEPT ![m] = t], pos |-> m], t, m + 1)
           /\ UpBound([arr |-> [b EXCEPT ![m] = t], pos |-> m], t, 0, m)
<1> PICK v : v = [arr |-> [b EXCEPT ![m] = t], pos |-> m]
  OBVIOUS
<1>1. UpView(v, t) = [b EXCEPT ![m] = t]
  BY DEF UpView
<1>2. v.arr \in Arrays /\ v.pos \in 0..m /\ ItemsBelow(v.arr, m + 1)
  BY CapPos DEF Arrays, ItemsBelow, Slots
<1>3. ASSUME NEW i \in 1..m, i # m
      PROVE  key[UpView(v, t)[Parent(i)]] <= key[UpView(v, t)[i]]
  <2>1. Parent(i) \in 0..m-1 /\ i \in 1..m-1
    BY <1>3, ParentFacts
  <2>2. key[b[Parent(i)]] <= key[b[i]]
    BY <2>1 DEF Ordered
  <2>3. Parent(i) # m /\ i # m /\ Parent(i) \in Slots /\ i \in Slots
    BY <2>1, CapPos DEF Slots
  <2> QED
    BY <1>1, <2>3, <2>2 DEF Arrays
<1>4. ASSUME NEW c \in 1..m, Parent(c) = m PROVE FALSE
  BY <1>4, ParentFacts
<1> QED
  BY <1>2, <1>3, <1>4 DEF UpInv, UpBound

LEMMA UpTurn ==
    ASSUME key \in [Items -> Keys], NEW t \in Items, NEW N \in 1..Cap,
           NEW v, UpInv(v, t, N)
    PROVE  UpInv(SiftUpTurn(v, t), t, N)
<1>1. CASE ~UpMoves(v, t)
  BY <1>1 DEF SiftUpTurn, UpMoves
<1>2. CASE UpMoves(v, t)
  <2>a. PICK p : p = v.pos
    OBVIOUS
  <2>b. PICK q : q = Parent(p)
    OBVIOUS
  <2>1. p \in 1..N-1 /\ q \in 0..p-1 /\ (p = Left(q) \/ p = Right(q))
    BY <1>2, <2>a, <2>b, RootParent, ParentFacts DEF UpInv, UpMoves
  <2>2. v.arr \in Arrays /\ ItemsBelow(v.arr, N)
    BY DEF UpInv
  <2>3. v.arr[q] \in Items /\ key[v.arr[q]] > key[t]
    BY <1>2, <2>1, <2>2, <2>a, <2>b DEF ItemsBelow, UpMoves
  <2>c. PICK w : w = SiftUpTurn(v, t)
    OBVIOUS
  <2>4. w = [arr |-> [v.arr EXCEPT ![p] = v.arr[q]], pos |-> q]
    BY <1>2, <2>a, <2>b, <2>c DEF SiftUpTurn, UpMoves
  <2>5. N - 1 < Cap /\ 0..N-1 \subseteq Slots
    BY CapPos DEF Slots
  <2>6. /\ \A i \in 0..N-1 : UpView(w, t)[i] =
                IF i = q THEN t ELSE IF i = p THEN v.arr[q] ELSE v.arr[i]
        /\ \A i \in 0..N-1 : UpView(v, t)[i] = IF i = p THEN t ELSE v.arr[i]
    BY <2>1, <2>2, <2>4, <2>5, <2>a DEF UpView, Arrays
  <2>7. w.arr \in Arrays /\ w.pos \in 0..N-1 /\ ItemsBelow(w.arr, N)
    BY <2>1, <2>2, <2>3, <2>4, <2>5 DEF Arrays, ItemsBelow
  <2>8. ASSUME NEW i \in 1..N-1, i # q
        PROVE  key[UpView(w, t)[Parent(i)]] <= key[UpView(w, t)[i]]
    <3>0. Parent(i) \in 0..i-1 /\ key[t] \in Nat
      BY ParentFacts, KeyNat
    <3>1. CASE i = p
      BY <3>1, <2>3, <2>6, <2>1, <2>b, <3>0, KeyNat
    <3>2. CASE i # p /\ Parent(i) = p
      <4>1. key[v.arr[q]] <= key[v.arr[i]]
        BY <3>2, <2>a, <2>b, <2>1 DEF UpInv
      <4> QED
        BY <4>1, <3>2, <3>0, <2>6, <2>1
    <3>3. CASE i # p /\ Parent(i) = q
      <4>1. key[UpView(v, t)[Parent(i)]] <= key[UpView(v, t)[i]]
        BY <3>3, <2>a DEF UpInv
      <4>2. v.arr[i] \in Items
        BY <2>2 DEF ItemsBelow
      <4> QED
        BY <4>1, <4>2, <3>3, <3>0, <2>6, <2>3, <2>1, KeyNat
    <3>4. CASE i # p /\ Parent(i) # p /\ Parent(i) # q
      <4>1. key[UpView(v, t)[Parent(i)]] <= key[UpView(v, t)[i]]
        BY <3>4, <2>a DEF UpInv
      <4> QED
        BY <4>1, <3>4, <3>0, <2>6, <2>1, <2>8
    <3> QED
      BY <3>1, <3>2, <3>3, <3>4
  <2>9. ASSUME q # 0, NEW c \in 1..N-1, Parent(c) = q
        PROVE  key[w.arr[Parent(q)]] <= key[w.arr[c]]
    <3>0. Parent(q) \in 0..q-1 /\ q \in 1..N-1
      BY <2>9, <2>1, ParentFacts
    <3>1. key[v.arr[Parent(q)]] <= key[v.arr[q]]
      <4>1. key[UpView(v, t)[Parent(q)]] <= key[UpView(v, t)[q]]
        BY <3>0, <2>1, <2>a DEF UpInv
      <4> QED
        BY <4>1, <3>0, <2>6, <2>1
    <3>2. w.arr[Parent(q)] = v.arr[Parent(q)]
      BY <3>0, <2>4, <2>1, <2>2, <2>5 DEF Arrays
    <3>3. CASE c = p
      <4>1. w.arr[p] = v.arr[q]
        BY <2>4, <2>2, <2>1, <2>5 DEF Arrays
      <4> QED
        BY <3>1, <3>2, <3>3, <4>1
    <3>4. CASE c # p
      <4>1. key[v.arr[q]] <= key[v.arr[c]]
        <5>1. key[UpView(v, t)[Parent(c)]] <= key[UpView(v, t)[c]]
          BY <3>4, <2>a, <2>9 DEF UpInv
        <5> QED
          BY <5>1, <3>4, <2>9, <2>6, <2>1
      <4>2. /\ v.arr[Parent(q)] \in Items /\ v.arr[q] \in Items
            /\ v.arr[c] \in Items
        BY <3>0, <2>2 DEF ItemsBelow
      <4>3. w.arr[c] = v.arr[c]
        BY <3>4, <2>4, <2>2, <2>1, <2>5 DEF Arrays
      <4> QED
        BY <3>1, <3>2, <4>1, <4>2, <4>3, KeyNat
    <3> QED
      BY <3>3, <3>4
  <2>10. w.pos = q
    BY <2>4
  <2>11. \A i \in 1..N-1 :
            i # w.pos => key[UpView(w, t)[Parent(i)]] <= key[UpView(w, t)[i]]
    BY <2>8, <2>10
  <2>12. w.pos # 0 =>
            \A c \in 1..N-1 :
               Parent(c) = w.pos => key[w.arr[Parent(w.pos)]] <= key[w.arr[c]]
    BY <2>9, <2>10
  <2> QED
    BY <2>7, <2>11, <2>12, <2>c, Zenon DEF UpInv
<1> QED
  BY <1>1, <1>2

LEMMA UpTurnBound ==
    ASSUME key \in [Items -> Keys], NEW t \in Items, NEW N \in 1..Cap,
           NEW v, UpInv(v, t, N), NEW n \in Nat, NEW p0 \in Nat,
           UpBound(v, t, n, p0)
    PROVE  UpBound(SiftUpTurn(v, t), t, n + 1, p0)
<1>1. CASE ~UpMoves(v, t)
  BY <1>1 DEF SiftUpTurn, UpBound, UpMoves
<1>2. CASE UpMoves(v, t)
  <2>1. v.pos \in 1..N-1
    BY <1>2, RootParent DEF UpInv, UpMoves
  <2>2. Parent(v.pos) + 1 <= v.pos /\ Parent(v.pos) \in Nat
    BY <2>1, ParentFacts
  <2>3. SiftUpTurn(v, t).pos = Parent(v.pos)
    BY <1>2 DEF SiftUpTurn, UpMoves
  <2> QED
    <3>1. v.pos + n <= p0
      BY <1>2 DEF UpBound
    <3> QED
      BY <3>1, <2>1, <2>2, <2>3 DEF UpBound
<1> QED
  BY <1>1, <1>2
\* Every turn of the while loop of enqueue_thread keeps its invariant and
\* its bound.
LEMMA UpRun ==
    ASSUME key \in [Items -> Keys], NEW t \in Items, NEW b \in Arrays,
           NEW m \in 0..Cap-1, ItemsBelow(b, m), Ordered(b, m)
    PROVE  \A n \in Nat :
              /\ UpInv(SiftUpRun([b EXCEPT ![m] = t], m, t)[n], t, m + 1)
              /\ UpBound(SiftUpRun([b EXCEPT ![m] = t], m, t)[n], t, n, m)
<1>a. PICK s : s = SiftUpRun([b EXCEPT ![m] = t], m, t)
  OBVIOUS
<1>b. PICK S : S = {n \in Nat : UpInv(s[n], t, m + 1) /\ UpBound(s[n], t, n, m)}
  OBVIOUS
<1>c. PICK a0 : a0 = [b EXCEPT ![m] = t]
  OBVIOUS
<1>1. s[0] = [arr |-> [b EXCEPT ![m] = t], pos |-> m]
      /\ \A n \in Nat : s[n + 1] = SiftUpTurn(s[n], t)
  <2>1. /\ SiftUpRun(a0, m, t)[0] = [arr |-> a0, pos |-> m]
        /\ \A n \in Nat : SiftUpRun(a0, m, t)[n + 1]
                            = SiftUpTurn(SiftUpRun(a0, m, t)[n], t)
    BY SiftUpRunDef
  <2> QED
    BY <2>1, <1>a, <1>c
<1>2. 0 \in S
  BY <1>1, <1>b, UpInit
<1>3. ASSUME NEW n \in Nat, n \in S PROVE n + 1 \in S
  <2>1. UpInv(s[n], t, m + 1) /\ UpBound(s[n], t, n, m)
    BY <1>3, <1>b
  <2>2. m + 1 \in 1..Cap
    BY CapPos
  <2>3. UpInv(SiftUpTurn(s[n], t), t, m + 1)
    BY <2>1, <2>2, UpTurn
  <2>4. UpBound(SiftUpTurn(s[n], t), t, n + 1, m)
    BY <2>1, <2>2, UpTurnBound
  <2> QED
    BY <2>3, <2>4, <1>1, <1>b
<1>4. Nat \subseteq S
  BY <1>2, <1>3, NatSetInduction
<1> QED
  BY <1>4, <1>a, <1>b

\* enqueue_thread's sift-up of a new entry t written at slot m of a heap
\* of m entries yields a heap of m + 1 entries.
LEMMA SiftUpCorrect ==
    ASSUME key \in [Items -> Keys], NEW t \in Items, NEW b \in Arrays,
           NEW m \in 0..Cap-1, ItemsBelow(b, m), Ordered(b, m)
    PROVE  /\ SiftUp([b EXCEPT ![m] = t], m, t) \in Arrays
           /\ ItemsBelow(SiftUp([b EXCEPT ![m] = t], m, t), m + 1)
           /\ Ordered(SiftUp([b EXCEPT ![m] = t], m, t), m + 1)
<1>a. PICK r : r = SiftUpRun([b EXCEPT ![m] = t], m, t)[Cap]
  OBVIOUS
<1>1. SiftUp([b EXCEPT ![m] = t], m, t) = UpView(r, t)
  BY <1>a DEF SiftUp, UpView
<1>2. UpInv(r, t, m + 1) /\ UpBound(r, t, Cap, m)
  BY <1>a, UpRun, CapPos
<1>3. ~UpMoves(r, t)
  BY <1>2, CapPos DEF UpBound, UpInv
<1>4. r.arr \in Arrays /\ r.pos \in 0..m /\ ItemsBelow(r.arr, m + 1)
  BY <1>2 DEF UpInv
<1>5. 0..m \subseteq Slots
  BY CapPos DEF Slots
<1>6. \A i \in 0..m : UpView(r, t)[i] = IF i = r.pos THEN t ELSE r.arr[i]
  BY <1>4, <1>5 DEF UpView, Arrays
<1>7. UpView(r, t) \in Arrays /\ ItemsBelow(UpView(r, t), m + 1)
  BY <1>4, <1>5, <1>6 DEF UpView, Arrays, ItemsBelow
<1>8. ASSUME NEW i \in 1..m
      PROVE  key[UpView(r, t)[Parent(i)]] <= key[UpView(r, t)[i]]
  <2>1. CASE i # r.pos
    BY <2>1, <1>2 DEF UpInv
  <2>2. CASE i = r.pos
    <3>1. Parent(i) \in 0..i-1 /\ Parent(i) # i
      BY ParentFacts
    <3>2. ~(key[r.arr[Parent(i)]] > key[t])
      BY <2>2, <3>1, <1>3 DEF UpMoves
    <3>3. r.arr[Parent(i)] \in Items
      BY <3>1, <1>4 DEF ItemsBelow
    <3> QED
      BY <2>2, <3>1, <3>2, <3>3, <1>6, KeyNat
  <2> QED
    BY <2>1, <2>2
<1>9. Ordered(UpView(r, t), m + 1)
  BY <1>8 DEF Ordered
<1> QED
  BY <1>1, <1>7, <1>9
-----------------------------------------------------------------------------
(* The sift-down of dequeue_thread.                                        *)

\* The loop of dequeue_thread goes on: it has not broken out and now has a
\* left child among the n entries.
DnCont(v, n) == ~v.done /\ Left(v.now) < n

\* The invariant of the for loop of dequeue_thread moving last down a heap
\* of n entries (slot n still holds last): now is a hole; heap order holds
\* on every edge off the hole; the parent of the hole is no greater than
\* last or the children of the hole; and once the loop has broken out,
\* last is no greater than the children of the hole.
DnInv(v, n, last) ==
    /\ v.arr \in Arrays
    /\ v.now \in 0..n
    /\ v.done \in BOOLEAN
    /\ ItemsBelow(v.arr, n + 1)
    /\ v.arr[n] = last
    /\ \A i \in 1..n-1 :
          Parent(i) # v.now /\ i # v.now =>
             key[v.arr[Parent(i)]] <= key[v.arr[i]]
    /\ v.now # 0 => key[v.arr[Parent(v.now)]] <= key[last]
    /\ v.now # 0 =>
          \A c \in 1..n-1 :
             Parent(c) = v.now => key[v.arr[Parent(v.now)]] <= key[v.arr[c]]
    /\ v.done =>
          \A c \in 1..n-1 : Parent(c) = v.now => key[last] <= key[v.arr[c]]

\* now rises at every turn that goes on: after k turns a loop still going
\* on has now >= k.
DnBound(v, n, k) == DnCont(v, n) => v.now >= k

\* The child the loop picks is a child of now among slots 1..n and holds
\* the least key of the children of now there.
LEMMA ChildMin ==
    ASSUME key \in [Items -> Keys], NEW b \in Arrays, NEW n \in 0..Cap-1,
           ItemsBelow(b, n + 1), NEW i \in Nat, Left(i) < n
    PROVE  /\ Child(b, i) \in 1..n
           /\ Parent(Child(b, i)) = i
           /\ Child(b, i) >= Left(i)
           /\ \A c \in 1..n : Parent(c) = i => key[b[Child(b, i)]] <= key[b[c]]
<1>1. Left(i) \in 1..n-1 /\ Right(i) \in 1..n /\ Right(i) = Left(i) + 1
      /\ Parent(Left(i)) = i /\ Parent(Right(i)) = i
  BY ChildFacts
<1>2. b[Left(i)] \in Items /\ b[Right(i)] \in Items
  BY <1>1 DEF ItemsBelow
<1>3. key[b[Left(i)]] \in Nat /\ key[b[Right(i)]] \in Nat
  BY <1>2, KeyNat
<1>4. ASSUME NEW c \in 1..n, Parent(c) = i PROVE c = Left(i) \/ c = Right(i)
  BY <1>4, ParentFacts
<1> QED
  BY <1>1, <1>3, <1>4 DEF Child

LEMMA DnInit ==
    ASSUME key \in [Items -> Keys], NEW b \in Arrays, NEW n \in 0..Cap-1,
           ItemsBelow(b, n + 1), Ordered(b, n + 1)
    PROVE  /\ DnInv([arr |-> b, now |-> 0, done |-> FALSE], n, b[n])
           /\ DnBound([arr |-> b, now |-> 0, done |-> FALSE], n, 0)
<1>1. ASSUME NEW i \in 1..n-1 PROVE key[b[Parent(i)]] <= key[b[i]]
  BY DEF Ordered
<1> QED
  BY <1>1 DEF DnInv, DnBound, DnCont

LEMMA DnTurn ==
    ASSUME key \in [Items -> Keys], NEW n \in 0..Cap-1, NEW last \in Items,
           NEW v, DnInv(v, n, last)
    PROVE  DnInv(SiftDownTurn(v, n, last), n, last)
<1>0. v.arr \in Arrays /\ v.now \in 0..n /\ ItemsBelow(v.arr, n + 1)
      /\ v.arr[n] = last /\ 0..n \subseteq Slots
  BY CapPos DEF DnInv, Slots
<1>1. CASE ~DnCont(v, n)
  BY <1>1 DEF SiftDownTurn, DnCont
<1>a. PICK h : h = v.now
  OBVIOUS
<1>b. PICK ch : ch = Child(v.arr, h)
  OBVIOUS
<1>2. CASE DnCont(v, n) /\ key[last] > key[v.arr[ch]]
  <2>1. /\ ch \in 1..n /\ Parent(ch) = h /\ ch >= Left(h) /\ Left(h) < n
        /\ \A c \in 1..n : Parent(c) = h => key[v.arr[ch]] <= key[v.arr[c]]
    BY <1>0, <1>2, <1>a, <1>b, ChildMin DEF DnCont
  <2>2. ch # n
    BY <1>2, <1>0, KeyNat
  <2>3. h < Left(h) /\ h \in 0..n-1 /\ ch \in 1..n-1 /\ ch # h
    BY <2>1, <2>2, <1>0, <1>a, ChildFacts
  <2>4. SiftDownTurn(v, n, last)
          = [arr |-> [v.arr EXCEPT ![h] = v.arr[ch]], now |-> ch, done |-> FALSE]
    BY <1>2, <1>a, <1>b DEF SiftDownTurn, DnCont
  <2>c. PICK w : w = SiftDownTurn(v, n, last)
    OBVIOUS
  <2>5. \A j \in 0..n : w.arr[j] = IF j = h THEN v.arr[ch] ELSE v.arr[j]
    BY <2>4, <2>c, <2>3, <1>0 DEF Arrays
  <2>6. w.arr \in Arrays /\ w.now \in 0..n /\ w.done \in BOOLEAN
        /\ ItemsBelow(w.arr, n + 1) /\ w.arr[n] = last
    BY <2>4, <2>c, <2>3, <2>5, <1>0 DEF Arrays, ItemsBelow
  <2>7. ASSUME NEW i \in 1..n-1, Parent(i) # ch, i # ch
        PROVE  key[w.arr[Parent(i)]] <= key[w.arr[i]]
    <3>0. Parent(i) \in 0..i-1
      BY ParentFacts
    <3>1. CASE i = h
      <4>1. key[v.arr[Parent(h)]] <= key[v.arr[ch]]
        BY <3>1, <2>1, <2>3, <1>a DEF DnInv
      <4> QED
        BY <4>1, <3>1, <3>0, <2>5
    <3>2. CASE i # h /\ Parent(i) = h
      BY <3>2, <2>1, <2>5, <3>0
    <3>3. CASE i # h /\ Parent(i) # h
      <4>1. key[v.arr[Parent(i)]] <= key[v.arr[i]]
        BY <3>3, <1>a DEF DnInv
      <4> QED
        BY <4>1, <3>3, <3>0, <2>5
    <3> QED
      BY <3>1, <3>2, <3>3
  <2>8. key[w.arr[Parent(ch)]] <= key[last]
    BY <2>1, <2>5, <2>3, <1>2, <1>0, KeyNat DEF ItemsBelow
  <2>9. ASSUME NEW c \in 1..n-1, Parent(c) = ch
        PROVE  key[w.arr[Parent(ch)]] <= key[w.arr[c]]
    <3>0. Parent(c) < c
      BY ParentFacts
    <3>1. c > ch /\ c # h
      BY <3>0, <2>9, <2>3, <2>1, <1>0 DEF Left
    <3>a. \A i \in 1..n-1 : Parent(i) # h /\ i # h =>
             key[v.arr[Parent(i)]] <= key[v.arr[i]]
      BY <1>a DEF DnInv
    <3>b. Parent(c) # h
      BY <2>9, <2>3
    <3>2. key[v.arr[ch]] <= key[v.arr[c]]
      BY <3>a, <3>b, <3>1, <2>9
    <3> QED
      BY <3>1, <3>2, <2>1, <2>5, <2>3
  <2>10. w.now = ch /\ ~w.done
    BY <2>4, <2>c
  <2> QED
    BY <2>6, <2>7, <2>8, <2>9, <2>10, <2>c DEF DnInv
<1>3. CASE DnCont(v, n) /\ ~(key[last] > key[v.arr[ch]])
  <2>1. /\ ch \in 1..n /\ Parent(ch) = h
        /\ \A c \in 1..n : Parent(c) = h => key[v.arr[ch]] <= key[v.arr[c]]
    BY <1>0, <1>3, <1>a, <1>b, ChildMin DEF DnCont
  <2>2. SiftDownTurn(v, n, last) = [v EXCEPT !.done = TRUE]
    BY <1>3, <1>a, <1>b DEF SiftDownTurn, DnCont
  <2>3. key[last] <= key[v.arr[ch]] /\ key[v.arr[ch]] \in Nat
    BY <1>3, <2>1, <1>0, KeyNat DEF ItemsBelow
  <2>4. \A c \in 1..n-1 : Parent(c) = h => key[last] <= key[v.arr[c]]
    BY <2>1, <2>3, <1>0, KeyNat DEF ItemsBelow
  <2> QED
    BY <2>2, <2>4, <1>a DEF DnInv
<1> QED
  BY <1>1, <1>2, <1>3

LEMMA DnTurnBound ==
    ASSUME key \in [Items -> Keys], NEW n \in 0..Cap-1, NEW last \in Items,
           NEW v, DnInv(v, n, last), NEW k \in Nat, DnBound(v, n, k)
    PROVE  DnBound(SiftDownTurn(v, n, last), n, k + 1)
<1>1. CASE ~DnCont(v, n)
  BY <1>1 DEF SiftDownTurn, DnBound, DnCont
<1>2. CASE DnCont(v, n)
  <2>1. v.now >= k /\ v.now \in Nat /\ Left(v.now) < n
    BY <1>2 DEF DnBound, DnInv, DnCont
  <2>2. Child(v.arr, v.now) \in Nat /\ Child(v.arr, v.now) >= Left(v.now)
        /\ Left(v.now) > v.now
    BY <2>1, ChildMin, ChildFacts DEF DnInv
  <2>3. \/ SiftDownTurn(v, n, last).now = Child(v.arr, v.now)
        \/ SiftDownTurn(v, n, last).done
    BY <1>2 DEF SiftDownTurn, DnCont
  <2> QED
    BY <2>1, <2>2, <2>3 DEF DnBound, DnCont, Left
<1> QED
  BY <1>1, <1>2
LEMMA DnRun ==
    ASSUME key \in [Items -> Keys], NEW b \in Arrays, NEW n \in 0..Cap-1,
           ItemsBelow(b, n + 1), Ordered(b, n + 1)
    PROVE  \A k \in Nat :
              /\ DnInv(SiftDownRun(b, 0, n, b[n])[k], n, b[n])
              /\ DnBound(SiftDownRun(b, 0, n, b[n])[k], n, k)
<1>a. PICK s : s = SiftDownRun(b, 0, n, b[n])
  OBVIOUS
<1>b. PICK S : S = {k \in Nat : DnInv(s[k], n, b[n]) /\ DnBound(s[k], n, k)}
  OBVIOUS
<1>c. PICK last : last = b[n]
  OBVIOUS
<1>0. last \in Items
  BY <1>c DEF ItemsBelow
<1>1. s[0] = [arr |-> b, now |-> 0, done |-> FALSE]
      /\ \A k \in Nat : s[k + 1] = SiftDownTurn(s[k], n, last)
  <2>1. /\ SiftDownRun(b, 0, n, last)[0] = [arr |-> b, now |-> 0, done |-> FALSE]
        /\ \A k \in Nat : SiftDownRun(b, 0, n, last)[k + 1]
                            = SiftDownTurn(SiftDownRun(b, 0, n, last)[k], n, last)
    BY SiftDownRunDef
  <2> QED
    BY <2>1, <1>a, <1>c
<1>2. 0 \in S
  BY <1>1, <1>b, DnInit
<1>3. ASSUME NEW k \in Nat, k \in S PROVE k + 1 \in S
  <2>1. DnInv(s[k], n, last) /\ DnBound(s[k], n, k)
    BY <1>3, <1>b, <1>c
  <2>2. DnInv(SiftDownTurn(s[k], n, last), n, last)
    BY <2>1, <1>0, DnTurn
  <2>3. DnBound(SiftDownTurn(s[k], n, last), n, k + 1)
    BY <2>1, <1>0, DnTurnBound
  <2> QED
    BY <2>2, <2>3, <1>1, <1>b, <1>c
<1>4. Nat \subseteq S
  BY <1>2, <1>3, NatSetInduction
<1> QED
  BY <1>4, <1>a, <1>b

\* dequeue_thread's sift-down of the last entry from the root of a heap of
\* n + 1 entries yields a heap of its first n entries.
LEMMA SiftDownCorrect ==
    ASSUME key \in [Items -> Keys], NEW b \in Arrays, NEW n \in 0..Cap-1,
           ItemsBelow(b, n + 1), Ordered(b, n + 1)
    PROVE  /\ SiftDown(b, 0, n, b[n]) \in Arrays
           /\ ItemsBelow(SiftDown(b, 0, n, b[n]), n)
           /\ Ordered(SiftDown(b, 0, n, b[n]), n)
<1>a. PICK r : r = SiftDownRun(b, 0, n, b[n])[Cap]
  OBVIOUS
<1>c. PICK last : last = b[n]
  OBVIOUS
<1>1. SiftDown(b, 0, n, b[n]) = [r.arr EXCEPT ![r.now] = last]
  BY <1>a, <1>c DEF SiftDown
<1>2. DnInv(r, n, last) /\ DnBound(r, n, Cap)
  BY <1>a, <1>c, DnRun, CapPos
<1>3. ~DnCont(r, n)
  <2>1. r.now \in Nat
    BY <1>2 DEF DnInv
  <2> QED
    BY <1>2, <2>1, CapPos DEF DnBound, DnCont, Left
<1>4. r.arr \in Arrays /\ r.now \in 0..n /\ ItemsBelow(r.arr, n + 1)
      /\ last \in Items
  BY <1>2, <1>c DEF DnInv, ItemsBelow
<1>5. 0..n \subseteq Slots
  BY CapPos DEF Slots
<1>d. PICK R : R = [r.arr EXCEPT ![r.now] = last]
  OBVIOUS
<1>6. \A i \in 0..n : R[i] = IF i = r.now THEN last ELSE r.arr[i]
  BY <1>d, <1>4, <1>5 DEF Arrays
<1>7. R \in Arrays /\ ItemsBelow(R, n)
  BY <1>d, <1>4, <1>5, <1>6 DEF Arrays, ItemsBelow
<1>8. ASSUME NEW i \in 1..n-1 PROVE key[R[Parent(i)]] <= key[R[i]]
  <2>0. Parent(i) \in 0..i-1
    BY ParentFacts
  <2>1. CASE i = r.now
    <3>1. key[r.arr[Parent(i)]] <= key[last]
      BY <2>1, <1>2 DEF DnInv
    <3> QED
      BY <3>1, <2>0, <2>1, <1>6
  <2>2. CASE i # r.now /\ Parent(i) = r.now
    <3>1. r.done
      <4>1. i \in {Left(r.now), Right(r.now)}
        BY <2>2, ParentFacts
      <4> QED
        BY <4>1, <1>3, <1>4 DEF DnCont, Left, Right
    <3>2. key[last] <= key[r.arr[i]]
      BY <3>1, <2>2, <1>2 DEF DnInv
    <3> QED
      BY <3>2, <2>0, <2>2, <1>6
  <2>3. CASE i # r.now /\ Parent(i) # r.now
    <3>1. key[r.arr[Parent(i)]] <= key[r.arr[i]]
      BY <2>3, <1>2 DEF DnInv
    <3> QED
      BY <3>1, <2>0, <2>3, <1>6
  <2> QED
    BY <2>1, <2>2, <2>3
<1>9. Ordered(R, n)
  BY <1>8 DEF Ordered
<1> QED
  BY <1>1, <1>d, <1>7, <1>9
-----------------------------------------------------------------------------
(* The calls of dequeue_thread.                                            *)

\* What holds of the variables before and after every call of
\* dequeue_thread: the first size slots hold descriptors in heap order.
DqInv(v) ==
    /\ v.arr \in Arrays
    /\ v.size \in 0..Cap
    /\ ItemsBelow(v.arr, v.size)
    /\ Ordered(v.arr, v.size)
    /\ v.out \in Items \cup {NoItem}

LEMMA DqTurn ==
    ASSUME key \in [Items -> Keys], NEW v, DqInv(v)
    PROVE  DqInv(DequeueTurn(v))
<1>1. CASE v.done
  BY <1>1 DEF DequeueTurn
<1>2. CASE ~v.done /\ v.size < 1
  <2>1. DequeueTurn(v) = [v EXCEPT !.out = NoItem, !.done = TRUE]
    BY <1>2 DEF DequeueTurn
  <2> QED
    BY <2>1 DEF DqInv
<1>3. CASE ~v.done /\ ~(v.size < 1)
  <2>a. PICK n : n = v.size - 1
    OBVIOUS
  <2>1. n \in 0..Cap-1 /\ v.size = n + 1
    BY <1>3, <2>a, CapPos DEF DqInv
  <2>2. /\ SiftDown(v.arr, 0, n, v.arr[n]) \in Arrays
        /\ ItemsBelow(SiftDown(v.arr, 0, n, v.arr[n]), n)
        /\ Ordered(SiftDown(v.arr, 0, n, v.arr[n]), n)
    BY <2>1, SiftDownCorrect DEF DqInv
  <2>3. v.arr[0] \in Items
    BY <2>1 DEF DqInv, ItemsBelow
  <2>4. DequeueTurn(v)
          = [arr  |-> SiftDown(v.arr, 0, n, v.arr[n]), size |-> n,
             out  |-> v.arr[0], done |-> v.arr[0] \notin removed]
    BY <1>3, <2>a DEF DequeueTurn
  <2> QED
    BY <2>1, <2>2, <2>3, <2>4, CapPos DEF DqInv
<1> QED
  BY <1>1, <1>2, <1>3

\* Every call of dequeue_thread, the retries after TOBE_REMOVED roots
\* included, leaves a heap in order.
LEMMA DqRun ==
    ASSUME key \in [Items -> Keys], NEW a \in Arrays, NEW m \in 0..Cap,
           ItemsBelow(a, m), Ordered(a, m)
    PROVE  \A k \in Nat : DqInv(DequeueRun(a, m)[k])
<1>a. PICK s : s = DequeueRun(a, m)
  OBVIOUS
<1>b. PICK S : S = {k \in Nat : DqInv(s[k])}
  OBVIOUS
<1>1. s[0] = [arr |-> a, size |-> m, out |-> NoItem, done |-> FALSE]
      /\ \A k \in Nat : s[k + 1] = DequeueTurn(s[k])
  BY <1>a, DequeueRunDef
<1>2. 0 \in S
  BY <1>1, <1>b DEF DqInv
<1>3. ASSUME NEW k \in Nat, k \in S PROVE k + 1 \in S
  BY <1>3, <1>1, <1>b, DqTurn
<1>4. Nat \subseteq S
  BY <1>2, <1>3, NatSetInduction
<1> QED
  BY <1>4, <1>a, <1>b
-----------------------------------------------------------------------------
(* Heap order of the three heaps.                                          *)

\* The inductive invariant: HeapOrdered needs TypeOK (the first size slots
\* hold descriptors with keys) to be preserved, and nothing more: the loop
\* invariants above carry the rest through each call.
IInv == TypeOK /\ HeapOrdered

LEMMA IInvFacts ==
    ASSUME IInv
    PROVE  /\ arr \in Arrays /\ size \in 0..Cap /\ key \in [Items -> Keys]
           /\ ItemsBelow(arr, size) /\ Ordered(arr, size)
BY DEF IInv, TypeOK, HeapOrdered, Arrays, ItemsBelow, Ordered

LEMMA InitIInv == Init => IInv
<1> SUFFICES ASSUME Init PROVE IInv
  OBVIOUS
<1> QED
  BY CapPos DEF Init, IInv, TypeOK, HeapOrdered, Slots

LEMMA EnqueueIInv ==
    ASSUME IInv, NEW t \in Items, EnqueueThread(t)
    PROVE  IInv'
<1>0. arr \in Arrays /\ size \in 0..Cap /\ key \in [Items -> Keys]
      /\ ItemsBelow(arr, size) /\ Ordered(arr, size)
  BY IInvFacts
<1>1. CASE size = Cap
  BY <1>1 DEF EnqueueThread, IInv, TypeOK, HeapOrdered
<1>2. CASE size # Cap
  <2>1. size \in 0..Cap-1
    BY <1>0, <1>2, CapPos
  <2>2. /\ arr' \in Arrays /\ ItemsBelow(arr', size + 1)
        /\ Ordered(arr', size + 1)
        /\ size' = size + 1 /\ UNCHANGED <<key, removed, out>>
    BY <1>0, <1>2, <2>1, SiftUpCorrect DEF EnqueueThread
  <2>3. TypeOK'
    <3>1. size' \in 0..Cap
      BY <2>1, <2>2, CapPos
    <3> QED
      BY <3>1, <2>2 DEF IInv, TypeOK, Arrays, ItemsBelow
  <2>4. HeapOrdered'
    BY <2>2 DEF HeapOrdered, Ordered
  <2> QED
    BY <2>3, <2>4 DEF IInv
<1> QED
  BY <1>1, <1>2

LEMMA DequeueIInv ==
    ASSUME IInv, DequeueThread
    PROVE  IInv'
<1>0. arr \in Arrays /\ size \in 0..Cap /\ key \in [Items -> Keys]
      /\ ItemsBelow(arr, size) /\ Ordered(arr, size)
  BY IInvFacts
<1>a. PICK r : r = DequeueRun(arr, size)[Cap + 1]
  OBVIOUS
<1>1. DqInv(r)
  BY <1>0, <1>a, DqRun, CapPos
<1>2. arr' = r.arr /\ size' = r.size /\ out' = r.out
      /\ UNCHANGED <<key, removed>>
  BY <1>a DEF DequeueThread, DequeueArr
<1> QED
  BY <1>0, <1>1, <1>2
  DEF DqInv, IInv, TypeOK, HeapOrdered, Arrays, ItemsBelow, Ordered

LEMMA ExitIInv ==
    ASSUME IInv, NEW t \in Items, Exit(t)
    PROVE  IInv'
BY DEF Exit, IInv, TypeOK, HeapOrdered

\* A rewrite of a key that no queued entry carries leaves every key the
\* heap compares as it was.
LEMMA RekeyIInv ==
    ASSUME RekeyQueued = {}, IInv, NEW t \in Items, NEW k \in Keys,
           Rekey(t, k)
    PROVE  IInv'
<1>0. arr \in Arrays /\ size \in 0..Cap /\ key \in [Items -> Keys]
      /\ ItemsBelow(arr, size) /\ Ordered(arr, size)
  BY IInvFacts
<1>1. \A i \in 0..size-1 : arr[i] # t
  BY DEF Rekey, Queued
<1>2. key' = [key EXCEPT ![t] = k] /\ UNCHANGED <<arr, size, removed, out>>
  BY DEF Rekey
<1>3. key' \in [Items -> Keys]
  BY <1>0, <1>2
<1>4. \A i \in 0..size-1 : key'[arr[i]] = key[arr[i]]
  BY <1>0, <1>1, <1>2 DEF ItemsBelow
<1>5. ASSUME NEW i \in 1..size-1
      PROVE  key'[arr[Parent(i)]] <= key'[arr[i]]
  <2>1. Parent(i) \in 0..size-1
    BY <1>0, ParentFacts
  <2> QED
    BY <2>1, <1>0, <1>4 DEF Ordered
<1> QED
  BY <1>2, <1>3, <1>5 DEF IInv, TypeOK, HeapOrdered

LEMMA NextIInv ==
    ASSUME RekeyQueued = {}, IInv, [Next]_vars
    PROVE  IInv'
<1>1. CASE \E t \in Items : EnqueueThread(t)
  BY <1>1, EnqueueIInv
<1>2. CASE DequeueThread
  BY <1>2, DequeueIInv
<1>3. CASE \E t \in Items : Exit(t)
  BY <1>3, ExitIInv
<1>4. CASE \E t \in Items, k \in Keys : Rekey(t, k)
  BY <1>4, RekeyIInv
<1>5. CASE UNCHANGED vars
  BY <1>5 DEF vars, IInv, TypeOK, HeapOrdered
<1> QED
  BY <1>1, <1>2, <1>3, <1>4, <1>5 DEF Next

\* Heap order (HeapOrdered) of runnable, pending and aperiodic holds after
\* every sequence of enqueue_thread, dequeue_thread (its sift-downs, its
\* TOBE_REMOVED retries and its read of slot size included), rt_thread_exit
\* and key rewrites, for every MAX_QUEUE and set of keys, as long as no key
\* is rewritten while its thread is queued (update_periodic rewrites the
\* deadline of a thread it has just dequeued).
THEOREM HeapOrder ==
    ASSUME RekeyQueued = {}
    PROVE  Spec => []HeapOrdered
<1>1. Init => IInv
  BY InitIInv
<1>2. IInv /\ [Next]_vars => IInv'
  BY NextIInv
<1>3. IInv => HeapOrdered
  BY DEF IInv
<1> QED
  BY <1>1, <1>2, <1>3, PTL DEF Spec
-----------------------------------------------------------------------------
(* Type correctness of the three heaps, whatever keys are rewritten.       *)

\* The part of the sift-up loop invariant that does not rest on heap order:
\* pos stays among the N entries and they stay descriptors.
UpTy(v, N) ==
    /\ v.arr \in Arrays
    /\ v.pos \in 0..N-1
    /\ ItemsBelow(v.arr, N)

LEMMA UpTyTurn ==
    ASSUME NEW t, NEW N \in 1..Cap, NEW v, UpTy(v, N)
    PROVE  UpTy(SiftUpTurn(v, t), N)
<1>0. v.arr \in Arrays /\ v.pos \in 0..N-1 /\ ItemsBelow(v.arr, N)
      /\ 0..N-1 \subseteq Slots
  BY CapPos DEF UpTy, Slots
<1>1. Parent(v.pos) \in 0..N-1
  <2>1. CASE v.pos = 0
    BY <2>1, <1>0, RootParent
  <2>2. CASE v.pos # 0
    BY <2>2, <1>0, ParentFacts
  <2> QED
    BY <2>1, <2>2
<1>2. v.arr[Parent(v.pos)] \in Items
  BY <1>0, <1>1 DEF ItemsBelow
<1>3. [v.arr EXCEPT ![v.pos] = v.arr[Parent(v.pos)]] \in Arrays
      /\ ItemsBelow([v.arr EXCEPT ![v.pos] = v.arr[Parent(v.pos)]], N)
  BY <1>0, <1>2 DEF Arrays, ItemsBelow
<1> QED
  BY <1>1, <1>3, <1>0 DEF SiftUpTurn, UpTy

\* enqueue_thread's sift-up writes descriptors only into the first m + 1
\* slots.
LEMMA SiftUpType ==
    ASSUME NEW t \in Items, NEW b \in Arrays, NEW m \in 0..Cap-1,
           ItemsBelow(b, m)
    PROVE  /\ SiftUp([b EXCEPT ![m] = t], m, t) \in Arrays
           /\ ItemsBelow(SiftUp([b EXCEPT ![m] = t], m, t), m + 1)
<1>a. PICK s : s = SiftUpRun([b EXCEPT ![m] = t], m, t)
  OBVIOUS
<1>b. PICK S : S = {n \in Nat : UpTy(s[n], m + 1)}
  OBVIOUS
<1>c. PICK a0 : a0 = [b EXCEPT ![m] = t]
  OBVIOUS
<1>0. m + 1 \in 1..Cap /\ m \in Slots
  BY CapPos DEF Slots
<1>1. s[0] = [arr |-> a0, pos |-> m]
      /\ \A n \in Nat : s[n + 1] = SiftUpTurn(s[n], t)
  <2>1. /\ SiftUpRun(a0, m, t)[0] = [arr |-> a0, pos |-> m]
        /\ \A n \in Nat : SiftUpRun(a0, m, t)[n + 1]
                            = SiftUpTurn(SiftUpRun(a0, m, t)[n], t)
    BY SiftUpRunDef
  <2> QED
    BY <2>1, <1>a, <1>c
<1>2. 0 \in S
  <2>1. a0 \in Arrays /\ ItemsBelow(a0, m + 1)
    BY <1>0, <1>c DEF Arrays, ItemsBelow
  <2> QED
    BY <2>1, <1>1, <1>b DEF UpTy
<1>3. ASSUME NEW n \in Nat, n \in S PROVE n + 1 \in S
  BY <1>3, <1>0, <1>1, <1>b, UpTyTurn
<1>4. UpTy(s[Cap], m + 1)
  BY <1>2, <1>3, <1>b, NatSetInduction, CapPos
<1>5. SiftUp(a0, m, t) = [s[Cap].arr EXCEPT ![s[Cap].pos] = t]
  BY <1>a, <1>c DEF SiftUp
<1>6. 0..m \subseteq Slots
  BY CapPos DEF Slots
<1>d. PICK r : r = s[Cap]
  OBVIOUS
<1>7. r.arr \in Arrays /\ r.pos \in 0..m /\ ItemsBelow(r.arr, m + 1)
  BY <1>4, <1>d DEF UpTy
<1>8. /\ [r.arr EXCEPT ![r.pos] = t] \in Arrays
      /\ ItemsBelow([r.arr EXCEPT ![r.pos] = t], m + 1)
  BY <1>6, <1>7 DEF Arrays, ItemsBelow
<1> QED
  BY <1>5, <1>8, <1>c, <1>d

\* The part of the sift-down loop invariant that does not rest on heap
\* order.
DnTy(v, n) ==
    /\ v.arr \in Arrays
    /\ v.now \in 0..n
    /\ ItemsBelow(v.arr, n + 1)

LEMMA DnTyTurn ==
    ASSUME key \in [Items -> Keys], NEW n \in 0..Cap-1, NEW last,
           NEW v, DnTy(v, n)
    PROVE  DnTy(SiftDownTurn(v, n, last), n)
<1>0. v.arr \in Arrays /\ v.now \in 0..n /\ ItemsBelow(v.arr, n + 1)
      /\ 0..n \subseteq Slots
  BY CapPos DEF DnTy, Slots
<1>1. CASE DnCont(v, n)
  <2>a. PICK ch : ch = Child(v.arr, v.now)
    OBVIOUS
  <2>1. ch \in 1..n
    BY <1>0, <1>1, <2>a, ChildMin DEF DnCont
  <2>2. v.arr[ch] \in Items
    BY <1>0, <2>1 DEF ItemsBelow
  <2>3. [v.arr EXCEPT ![v.now] = v.arr[ch]] \in Arrays
        /\ ItemsBelow([v.arr EXCEPT ![v.now] = v.arr[ch]], n + 1)
    BY <1>0, <2>2 DEF Arrays, ItemsBelow
  <2> QED
    BY <1>0, <1>1, <2>a, <2>1, <2>3 DEF SiftDownTurn, DnTy, DnCont
<1>2. CASE ~DnCont(v, n)
  BY <1>2 DEF SiftDownTurn, DnCont
<1> QED
  BY <1>1, <1>2

\* dequeue_thread's sift-down leaves descriptors in the first n slots.
LEMMA SiftDownType ==
    ASSUME key \in [Items -> Keys], NEW b \in Arrays, NEW n \in 0..Cap-1,
           ItemsBelow(b, n + 1)
    PROVE  /\ SiftDown(b, 0, n, b[n]) \in Arrays
           /\ ItemsBelow(SiftDown(b, 0, n, b[n]), n)
<1>a. PICK last : last = b[n]
  OBVIOUS
<1>b. PICK s : s = SiftDownRun(b, 0, n, last)
  OBVIOUS
<1>c. PICK S : S = {k \in Nat : DnTy(s[k], n)}
  OBVIOUS
<1>0. last \in Items /\ 0..n \subseteq Slots
  BY <1>a, CapPos DEF ItemsBelow, Slots
<1>1. s[0] = [arr |-> b, now |-> 0, done |-> FALSE]
      /\ \A k \in Nat : s[k + 1] = SiftDownTurn(s[k], n, last)
  BY <1>b, SiftDownRunDef
<1>2. 0 \in S
  BY <1>1, <1>c DEF DnTy
<1>3. ASSUME NEW k \in Nat, k \in S PROVE k + 1 \in S
  BY <1>3, <1>1, <1>c, DnTyTurn
<1>4. DnTy(s[Cap], n)
  BY <1>2, <1>3, <1>c, NatSetInduction, CapPos
<1>5. SiftDown(b, 0, n, last) = [s[Cap].arr EXCEPT ![s[Cap].now] = last]
  BY <1>b DEF SiftDown
<1> QED
  BY <1>0, <1>4, <1>5, <1>a DEF DnTy, Arrays, ItemsBelow
\* The part of DqInv that does not rest on heap order.
DqTy(v) ==
    /\ v.arr \in Arrays
    /\ v.size \in 0..Cap
    /\ ItemsBelow(v.arr, v.size)
    /\ v.out \in Items \cup {NoItem}

LEMMA DqTyTurn ==
    ASSUME key \in [Items -> Keys], NEW v, DqTy(v)
    PROVE  DqTy(DequeueTurn(v))
<1>1. CASE v.done
  BY <1>1 DEF DequeueTurn
<1>2. CASE ~v.done /\ v.size < 1
  <2>1. DequeueTurn(v) = [v EXCEPT !.out = NoItem, !.done = TRUE]
    BY <1>2 DEF DequeueTurn
  <2> QED
    BY <2>1 DEF DqTy
<1>3. CASE ~v.done /\ ~(v.size < 1)
  <2>a. PICK n : n = v.size - 1
    OBVIOUS
  <2>1. n \in 0..Cap-1 /\ v.size = n + 1
    BY <1>3, <2>a, CapPos DEF DqTy
  <2>2. /\ SiftDown(v.arr, 0, n, v.arr[n]) \in Arrays
        /\ ItemsBelow(SiftDown(v.arr, 0, n, v.arr[n]), n)
    BY <2>1, SiftDownType DEF DqTy
  <2>3. v.arr[0] \in Items
    BY <2>1 DEF DqTy, ItemsBelow
  <2>4. DequeueTurn(v)
          = [arr  |-> SiftDown(v.arr, 0, n, v.arr[n]), size |-> n,
             out  |-> v.arr[0], done |-> v.arr[0] \notin removed]
    BY <1>3, <2>a DEF DequeueTurn
  <2> QED
    BY <2>1, <2>2, <2>3, <2>4, CapPos DEF DqTy
<1> QED
  BY <1>1, <1>2, <1>3

LEMMA DqTyRun ==
    ASSUME key \in [Items -> Keys], NEW a \in Arrays, NEW m \in 0..Cap,
           ItemsBelow(a, m)
    PROVE  \A k \in Nat : DqTy(DequeueRun(a, m)[k])
<1>a. PICK s : s = DequeueRun(a, m)
  OBVIOUS
<1>b. PICK S : S = {k \in Nat : DqTy(s[k])}
  OBVIOUS
<1>1. s[0] = [arr |-> a, size |-> m, out |-> NoItem, done |-> FALSE]
      /\ \A k \in Nat : s[k + 1] = DequeueTurn(s[k])
  BY <1>a, DequeueRunDef
<1>2. 0 \in S
  BY <1>1, <1>b DEF DqTy
<1>3. ASSUME NEW k \in Nat, k \in S PROVE k + 1 \in S
  BY <1>3, <1>1, <1>b, DqTyTurn
<1>4. Nat \subseteq S
  BY <1>2, <1>3, NatSetInduction
<1> QED
  BY <1>4, <1>a, <1>b

LEMMA TypeFacts ==
    ASSUME TypeOK
    PROVE  /\ arr \in Arrays /\ size \in 0..Cap /\ key \in [Items -> Keys]
           /\ ItemsBelow(arr, size)
BY DEF TypeOK, Arrays, ItemsBelow

LEMMA NextTypeOK ==
    ASSUME TypeOK, [Next]_vars
    PROVE  TypeOK'
<1>0. arr \in Arrays /\ size \in 0..Cap /\ key \in [Items -> Keys]
      /\ ItemsBelow(arr, size)
  BY TypeFacts
<1>1. ASSUME NEW t \in Items, EnqueueThread(t) PROVE TypeOK'
  <2>1. CASE size = Cap
    BY <1>1, <2>1 DEF EnqueueThread, TypeOK
  <2>2. CASE size # Cap
    <3>1. size \in 0..Cap-1 /\ size + 1 \in 0..Cap
      BY <1>0, <2>2, CapPos
    <3>2. /\ arr' \in Arrays /\ ItemsBelow(arr', size + 1)
          /\ size' = size + 1 /\ UNCHANGED <<key, removed, out>>
      BY <1>0, <1>1, <2>2, <3>1, SiftUpType DEF EnqueueThread
    <3> QED
      BY <3>1, <3>2 DEF TypeOK, Arrays, ItemsBelow
  <2> QED
    BY <2>1, <2>2
<1>2. ASSUME DequeueThread PROVE TypeOK'
  <2>a. PICK r : r = DequeueRun(arr, size)[Cap + 1]
    OBVIOUS
  <2>1. DqTy(r)
    BY <1>0, <2>a, DqTyRun, CapPos
  <2>2. arr' = r.arr /\ size' = r.size /\ out' = r.out
        /\ UNCHANGED <<key, removed>>
    BY <1>2, <2>a DEF DequeueThread, DequeueArr
  <2> QED
    BY <2>1, <2>2 DEF DqTy, TypeOK, Arrays, ItemsBelow
<1>3. ASSUME NEW t \in Items, Exit(t) PROVE TypeOK'
  BY <1>3 DEF Exit, TypeOK
<1>4. ASSUME NEW t \in Items, NEW k \in Keys, Rekey(t, k) PROVE TypeOK'
  BY <1>0, <1>4 DEF Rekey, TypeOK
<1>5. CASE UNCHANGED vars
  BY <1>5 DEF vars, TypeOK
<1> QED
  BY <1>1, <1>2, <1>3, <1>4, <1>5 DEF Next

\* TypeOK of runnable, pending and aperiodic: whatever keys the callers
\* rewrite, queued or not, the first size slots of queue->threads hold
\* descriptors, size stays within 0..MAX_QUEUE, and dequeue_thread returns
\* a descriptor or NULL, for every MAX_QUEUE: enqueue_thread's sift-up and
\* dequeue_thread's sift-down never move an unwritten slot into the heap.
THEOREM HeapTypeCorrect == Spec => []TypeOK
<1>1. Init => TypeOK
  BY CapPos DEF Init, TypeOK, Slots
<1>2. TypeOK /\ [Next]_vars => TypeOK'
  BY NextTypeOK
<1> QED
  BY <1>1, <1>2, PTL DEF Spec
-----------------------------------------------------------------------------
(* What dequeue_thread returns.                                            *)

\* The descriptors in the first n slots.
HeapEntries(b, n) == {b[i] : i \in 0..n-1}

\* In a heap in order, the root has the least key: every slot is reached
\* from the root through parents, none of which has a greater key.
LEMMA RootLeast ==
    ASSUME key \in [Items -> Keys], NEW b \in Arrays, NEW n \in 0..Cap,
           ItemsBelow(b, n), Ordered(b, n)
    PROVE  \A i \in 0..n-1 : key[b[0]] <= key[b[i]]
<1>a. PICK S : S = {j \in Nat : \A i \in 0..j : i < n => key[b[0]] <= key[b[i]]}
  OBVIOUS
<1>0. \A i \in 0..n-1 : key[b[i]] \in Nat
  BY KeyNat DEF ItemsBelow
<1>1. 0 \in S
  BY <1>a, <1>0
<1>2. ASSUME NEW j \in Nat, j \in S PROVE j + 1 \in S
  <2>1. SUFFICES ASSUME j + 1 < n PROVE key[b[0]] <= key[b[j + 1]]
    BY <1>2, <1>a
  <2>2. Parent(j + 1) \in 0..j
    BY ParentFacts
  <2>3. key[b[0]] <= key[b[Parent(j + 1)]]
    BY <1>2, <1>a, <2>1, <2>2
  <2>4. key[b[Parent(j + 1)]] <= key[b[j + 1]]
    BY <2>1 DEF Ordered
  <2> QED
    BY <2>1, <2>2, <2>3, <2>4, <1>0
<1>3. Nat \subseteq S
  BY <1>1, <1>2, NatSetInduction
<1> QED
  BY <1>3, <1>a
\* The loop of dequeue_thread loses no entry of the heap b it started from
\* other than the root: each of b[1..n] is last or sits in a slot of the
\* first n other than the hole, and the hole stays below n.
DnKeep(v, n, last, b) ==
    /\ n = 0 \/ v.now < n
    /\ \A i \in 1..n :
          b[i] = last \/ \E j \in 0..n-1 : j # v.now /\ v.arr[j] = b[i]

LEMMA DnKeepTurn ==
    ASSUME key \in [Items -> Keys], NEW n \in 0..Cap-1, NEW last \in Items,
           NEW b, NEW v, DnInv(v, n, last), DnKeep(v, n, last, b)
    PROVE  DnKeep(SiftDownTurn(v, n, last), n, last, b)
<1>0. v.arr \in Arrays /\ v.now \in 0..n /\ ItemsBelow(v.arr, n + 1)
      /\ v.arr[n] = last /\ 0..n \subseteq Slots
  BY CapPos DEF DnInv, Slots
<1>a. PICK h : h = v.now
  OBVIOUS
<1>b. PICK ch : ch = Child(v.arr, h)
  OBVIOUS
<1>1. CASE DnCont(v, n) /\ key[last] > key[v.arr[ch]]
  <2>1. ch \in 1..n /\ ch >= Left(h) /\ Left(h) < n
    BY <1>0, <1>1, <1>a, <1>b, ChildMin DEF DnCont
  <2>2. ch # n
    BY <1>1, <1>0, KeyNat
  <2>3. h < ch /\ h \in 0..n-1 /\ ch \in 1..n-1
    BY <2>1, <2>2, <1>0, <1>a DEF Left
  <2>c. PICK w : w = SiftDownTurn(v, n, last)
    OBVIOUS
  <2>4. w = [arr |-> [v.arr EXCEPT ![h] = v.arr[ch]], now |-> ch, done |-> FALSE]
    BY <1>1, <1>a, <1>b, <2>c DEF SiftDownTurn, DnCont
  <2>5. \A j \in 0..n : w.arr[j] = IF j = h THEN v.arr[ch] ELSE v.arr[j]
    BY <2>4, <2>3, <1>0 DEF Arrays
  <2>6. ASSUME NEW i \in 1..n, b[i] # last
        PROVE  \E j \in 0..n-1 : j # ch /\ w.arr[j] = b[i]
    <3>1. PICK j \in 0..n-1 : j # h /\ v.arr[j] = b[i]
      BY <2>6, <1>a DEF DnKeep
    <3>2. CASE j = ch
      BY <3>1, <3>2, <2>3, <2>5
    <3>3. CASE j # ch
      BY <3>1, <3>3, <2>5
    <3> QED
      BY <3>2, <3>3
  <2>7. w.now = ch /\ ch < n
    BY <2>3, <2>4
  <2>8. \A i \in 1..n :
          b[i] = last \/ \E j \in 0..n-1 : j # w.now /\ w.arr[j] = b[i]
    BY <2>6, <2>7
  <2>9. DnKeep(w, n, last, b)
    BY <2>7, <2>8 DEF DnKeep
  <2> QED
    BY <2>9, <2>c
<1>2. CASE ~(DnCont(v, n) /\ key[last] > key[v.arr[ch]])
  <2>1. SiftDownTurn(v, n, last).arr = v.arr
        /\ SiftDownTurn(v, n, last).now = v.now
    BY <1>2, <1>a, <1>b DEF SiftDownTurn, DnCont
  <2> QED
    BY <2>1 DEF DnKeep
<1> QED
  BY <1>1, <1>2

\* dequeue_thread's sift-down of a heap of n + 1 entries keeps every entry
\* but the root among the first n slots.
LEMMA SiftDownKeeps ==
    ASSUME key \in [Items -> Keys], NEW b \in Arrays, NEW n \in 0..Cap-1,
           ItemsBelow(b, n + 1), Ordered(b, n + 1)
    PROVE  \A i \in 1..n : b[i] \in HeapEntries(SiftDown(b, 0, n, b[n]), n)
<1>a. PICK last : last = b[n]
  OBVIOUS
<1>b. PICK s : s = SiftDownRun(b, 0, n, last)
  OBVIOUS
<1>c. PICK S : S = {k \in Nat : DnKeep(s[k], n, last, b)}
  OBVIOUS
<1>0. last \in Items /\ 0..n \subseteq Slots
  BY <1>a, CapPos DEF ItemsBelow, Slots
<1>1. s[0] = [arr |-> b, now |-> 0, done |-> FALSE]
      /\ \A k \in Nat : s[k + 1] = SiftDownTurn(s[k], n, last)
  BY <1>b, SiftDownRunDef
<1>d. \A k \in Nat : DnInv(s[k], n, last)
  BY <1>a, <1>b, DnRun
<1>2. 0 \in S
  BY <1>1, <1>c, <1>a DEF DnKeep
<1>3. ASSUME NEW k \in Nat, k \in S PROVE k + 1 \in S
  BY <1>3, <1>1, <1>c, <1>d, <1>0, DnKeepTurn
<1>4. DnKeep(s[Cap], n, last, b) /\ DnInv(s[Cap], n, last)
  BY <1>2, <1>3, <1>c, <1>d, NatSetInduction, CapPos
<1>e. PICK r : r = s[Cap]
  OBVIOUS
<1>5. SiftDown(b, 0, n, last) = [r.arr EXCEPT ![r.now] = last]
  BY <1>b, <1>e DEF SiftDown
<1>6. r.arr \in Arrays /\ r.now \in 0..n
  BY <1>4, <1>e DEF DnInv
<1>7. ASSUME NEW i \in 1..n
      PROVE  \E j \in 0..n-1 : [r.arr EXCEPT ![r.now] = last][j] = b[i]
  <2>1. r.now \in 0..n-1
    BY <1>4, <1>6, <1>e DEF DnKeep
  <2>2. CASE b[i] = last
    BY <2>1, <2>2, <1>6, <1>0 DEF Arrays
  <2>3. CASE b[i] # last
    <3>1. PICK j \in 0..n-1 : j # r.now /\ r.arr[j] = b[i]
      BY <2>3, <1>4, <1>e DEF DnKeep
    <3> QED
      BY <3>1, <1>6, <1>0 DEF Arrays
  <2> QED
    BY <2>2, <2>3
<1> QED
  BY <1>5, <1>7, <1>a DEF HeapEntries
\* What dequeue_thread returns from a heap of the m entries of a: NULL only
\* when every entry is TOBE_REMOVED; otherwise a descriptor that is not
\* TOBE_REMOVED and has the least key of the live entries.
DqResult(o, a, m) ==
    /\ o = NoItem => \A i \in 0..m-1 : a[i] \in removed
    /\ o # NoItem =>
          /\ o \notin removed
          /\ \A i \in 0..m-1 : a[i] \notin removed => key[o] <= key[a[i]]

\* The invariant of the calls of dequeue_thread from the heap a of m
\* entries: until one returns, every live entry of a is still in the heap;
\* once one has returned, its result is DqResult.
DqKeep(v, a, m) ==
    /\ ~v.done =>
          \A i \in 0..m-1 : a[i] \notin removed => a[i] \in HeapEntries(v.arr, v.size)
    /\ v.done => DqResult(v.out, a, m)

\* Every call that does not return removes an entry.
DqBound(v, m, k) == ~v.done => v.size + k <= m

LEMMA DqKeepTurn ==
    ASSUME key \in [Items -> Keys], NEW a, NEW m, NEW v, DqInv(v),
           DqKeep(v, a, m)
    PROVE  DqKeep(DequeueTurn(v), a, m)
<1>0. v.arr \in Arrays /\ v.size \in 0..Cap /\ ItemsBelow(v.arr, v.size)
      /\ Ordered(v.arr, v.size)
  BY DEF DqInv
<1>1. CASE v.done
  BY <1>1 DEF DequeueTurn
<1>2. CASE ~v.done /\ v.size < 1
  <2>1. DequeueTurn(v) = [v EXCEPT !.out = NoItem, !.done = TRUE]
    BY <1>2 DEF DequeueTurn
  <2>2. HeapEntries(v.arr, v.size) = {}
    BY <1>0, <1>2 DEF HeapEntries
  <2>3. \A i \in 0..m-1 : a[i] \in removed
    BY <1>2, <2>2 DEF DqKeep
  <2> QED
    BY <2>1, <2>3 DEF DqKeep, DqResult
<1>3. CASE ~v.done /\ ~(v.size < 1)
  <2>a. PICK n : n = v.size - 1
    OBVIOUS
  <2>1. n \in 0..Cap-1 /\ v.size = n + 1
    BY <1>3, <2>a, <1>0, CapPos
  <2>2. DequeueTurn(v)
          = [arr  |-> SiftDown(v.arr, 0, n, v.arr[n]), size |-> n,
             out  |-> v.arr[0], done |-> v.arr[0] \notin removed]
    BY <1>3, <2>a DEF DequeueTurn
  <2>3. ASSUME NEW i \in 0..m-1, a[i] \notin removed
        PROVE  \E j \in 0..n : v.arr[j] = a[i]
    BY <2>3, <1>3, <2>1 DEF DqKeep, HeapEntries
  <2>b. ItemsBelow(v.arr, n + 1) /\ Ordered(v.arr, n + 1)
    BY <1>0, <2>1
  <2>c. PICK w : w = DequeueTurn(v)
    OBVIOUS
  <2>d. w.arr = SiftDown(v.arr, 0, n, v.arr[n]) /\ w.size = n
        /\ w.out = v.arr[0] /\ w.done = (v.arr[0] \notin removed)
    BY <2>2, <2>c
  <2>4. CASE v.arr[0] \in removed
    <3>1. ASSUME NEW i \in 0..m-1, a[i] \notin removed
          PROVE  a[i] \in HeapEntries(SiftDown(v.arr, 0, n, v.arr[n]), n)
      <4>1. PICK j \in 0..n : v.arr[j] = a[i]
        BY <2>3, <3>1
      <4>2. j \in 1..n
        BY <4>1, <3>1, <2>4
      <4>3. \A k \in 1..n : v.arr[k] \in HeapEntries(SiftDown(v.arr, 0, n, v.arr[n]), n)
        BY <1>0, <2>1, <2>b, SiftDownKeeps
      <4> QED
        BY <4>1, <4>2, <4>3
    <3>2. ~w.done
      BY <2>d, <2>4
    <3>3. \A i \in 0..m-1 : a[i] \notin removed => a[i] \in HeapEntries(w.arr, w.size)
      BY <3>1, <2>d
    <3> QED
      BY <3>2, <3>3, <2>c DEF DqKeep
  <2>5. CASE v.arr[0] \notin removed
    <3>1. v.arr[0] \in Items /\ v.arr[0] # NoItem
      BY <2>1, <1>0, HeapAssumption DEF ItemsBelow, HeapAssumption
    <3>2. \A j \in 0..n : key[v.arr[0]] <= key[v.arr[j]]
      BY <1>0, <2>1, <2>b, RootLeast
    <3>3. \A i \in 0..m-1 : a[i] \notin removed => key[v.arr[0]] <= key[a[i]]
      BY <2>3, <3>2
    <3>4. DqResult(v.arr[0], a, m)
      BY <3>1, <3>3, <2>5 DEF DqResult
    <3>5. w.done /\ w.out = v.arr[0]
      BY <2>d, <2>5
    <3> QED
      BY <3>4, <3>5, <2>c DEF DqKeep
  <2> QED
    BY <2>4, <2>5
<1> QED
  BY <1>1, <1>2, <1>3

LEMMA DqBoundTurn ==
    ASSUME NEW m \in Int, NEW v, DqInv(v), NEW k \in Nat, DqBound(v, m, k)
    PROVE  DqBound(DequeueTurn(v), m, k + 1)
<1>1. CASE v.done
  BY <1>1 DEF DequeueTurn, DqBound
<1>2. CASE ~v.done /\ v.size < 1
  BY <1>2 DEF DequeueTurn, DqBound
<1>3. CASE ~v.done /\ ~(v.size < 1)
  <2>1. v.size \in Nat /\ v.size + k <= m
    BY <1>3 DEF DqInv, DqBound
  <2>2. DequeueTurn(v).size = v.size - 1
    BY <1>3 DEF DequeueTurn
  <2> QED
    BY <2>1, <2>2 DEF DqBound
<1> QED
  BY <1>1, <1>2, <1>3
\* dequeue_thread on a heap in order: its Cap + 1 calls reach a return,
\* and what it returns is DqResult.
LEMMA DequeueArrResult ==
    ASSUME key \in [Items -> Keys], NEW a \in Arrays, NEW m \in 0..Cap,
           ItemsBelow(a, m), Ordered(a, m)
    PROVE  DqResult(DequeueArr(a, m).out, a, m)
<1>a. PICK s : s = DequeueRun(a, m)
  OBVIOUS
<1>b. PICK S : S = {k \in Nat : DqKeep(s[k], a, m) /\ DqBound(s[k], m, k)}
  OBVIOUS
<1>0. m \in Int /\ Cap \in Nat
  BY CapPos
<1>1. s[0] = [arr |-> a, size |-> m, out |-> NoItem, done |-> FALSE]
      /\ \A k \in Nat : s[k + 1] = DequeueTurn(s[k])
  BY <1>a, DequeueRunDef
<1>c. \A k \in Nat : DqInv(s[k])
  BY <1>a, DqRun
<1>2. 0 \in S
  BY <1>0, <1>1, <1>b DEF DqKeep, DqBound, HeapEntries
<1>3. ASSUME NEW k \in Nat, k \in S PROVE k + 1 \in S
  <2>1. DqKeep(s[k + 1], a, m)
    BY <1>3, <1>1, <1>b, <1>c, DqKeepTurn
  <2>2. DqBound(s[k + 1], m, k + 1)
    BY <1>3, <1>0, <1>1, <1>b, <1>c, DqBoundTurn
  <2> QED
    BY <2>1, <2>2, <1>b
<1>4. Nat \subseteq S
  BY <1>2, <1>3, NatSetInduction
<1>d. PICK r : r = s[Cap + 1]
  OBVIOUS
<1>5. DqKeep(r, a, m) /\ DqBound(r, m, Cap + 1) /\ DqInv(r)
  BY <1>4, <1>b, <1>c, <1>d, <1>0
<1>6. r.done
  BY <1>5, <1>0 DEF DqBound, DqInv
<1>7. DequeueArr(a, m).out = r.out
  BY <1>a, <1>d DEF DequeueArr
<1> QED
  BY <1>5, <1>6, <1>7 DEF DqKeep

\* dequeue_thread returns NULL only when every entry of the heap is
\* TOBE_REMOVED, and otherwise a descriptor that is not TOBE_REMOVED and
\* has the least key of the live entries.
DequeueLeast == DqResult(out', arr, size)

\* The dequeue of runnable, pending and aperiodic hands the caller a live
\* thread of least key, skipping every TOBE_REMOVED root on its way: the
\* retries of dequeue_thread neither lose a live entry nor stop at a
\* removed one, for every MAX_QUEUE, as long as no key is rewritten while
\* its thread is queued.
THEOREM DequeueReturnsLeast ==
    ASSUME RekeyQueued = {}
    PROVE  Spec => [][DequeueThread => DequeueLeast]_vars
<1>1. Init => IInv
  BY InitIInv
<1>2. IInv /\ [Next]_vars => IInv'
  BY NextIInv
<1>3. IInv => [DequeueThread => DequeueLeast]_vars
  <2> SUFFICES ASSUME IInv, DequeueThread PROVE DequeueLeast
    OBVIOUS
  <2>1. arr \in Arrays /\ size \in 0..Cap /\ key \in [Items -> Keys]
        /\ ItemsBelow(arr, size) /\ Ordered(arr, size)
    BY IInvFacts
  <2>2. DqResult(DequeueArr(arr, size).out, arr, size)
    BY <2>1, DequeueArrResult
  <2>3. out' = DequeueArr(arr, size).out
    BY DEF DequeueThread
  <2> QED
    BY <2>2, <2>3 DEF DequeueLeast
<1> QED
  BY <1>1, <1>2, <1>3, PTL DEF Spec

====
