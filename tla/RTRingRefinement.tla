-------------------------- MODULE RTRingRefinement --------------------------
(***************************************************************************)
(* Proof that each ring of rt_scheduler.c implements the bounded FIFO of   *)
(* RingQueue when there are fewer descriptors than MAX_QUEUE slots.        *)
(*                                                                         *)
(* The refinement mapping is the one of RTRing: the abstract fifo is       *)
(* Entries(q), the size slots from head.  It rests on two facts about the  *)
(* code.  A ring never holds a descriptor twice: enqueue_thread puts a     *)
(* thread on the waiting ring only when it is on no queue, and             *)
(* rt_thread_exit puts a thread on the exited ring only once, when it      *)
(* marks it TOBE_REMOVED.  So with fewer descriptors than slots a ring is  *)
(* never full, and the head == tail test of dequeue_thread means empty.    *)
(* A full ring (hazard of README) breaks the refinement, and the theorem   *)
(* does not claim it for that case.                                        *)
(***************************************************************************)
EXTENDS RTRingProofs, SequenceTheorems, FiniteSetTheorems

-----------------------------------------------------------------------------
(* The entries of a ring as a sequence.                                    *)

LEMMA EntriesSeq ==
    ASSUME Shape, NEW q \in Rings
    PROVE  /\ Entries(q) \in Seq(Items \cup {NoItem})
           /\ Len(Entries(q)) = size[q]
<1>1. size[q] \in Nat /\ head[q] \in Slots
      /\ slots[q] \in [Slots -> Items \cup {NoItem}]
  BY CapPos DEF Shape, Slots
<1>2. \A i \in 1..size[q] : (head[q] + i - 1) % Cap \in Slots
  <2> SUFFICES ASSUME NEW i \in 1..size[q]
               PROVE  (head[q] + i - 1) % Cap \in Slots
    OBVIOUS
  <2>1. head[q] + i - 1 \in Int
    BY <1>1 DEF Slots
  <2> QED
    BY <2>1, ModDef
<1>3. Entries(q) \in [1..size[q] -> Items \cup {NoItem}]
  BY <1>1, <1>2 DEF Entries
<1>4. Entries(q) \in Seq(Items \cup {NoItem})
  BY <1>1, <1>3, SeqDef
<1>5. DOMAIN Entries(q) = 1..Len(Entries(q)) /\ Len(Entries(q)) \in Nat
  BY <1>4, LenProperties
<1> QED
  BY <1>1, <1>3, <1>4, <1>5

\* Different offsets from a slot below MAX_QUEUE name different slots.
LEMMA ModOffsetInj ==
    ASSUME NEW h \in Int, NEW a \in Slots, NEW b \in Slots,
           (h + a) % Cap = (h + b) % Cap
    PROVE  a = b
<1>1. (h + a) % Cap \in Slots /\ (h + a) \div Cap \in Int
      /\ h + a = Cap * ((h + a) \div Cap) + ((h + a) % Cap)
  BY ModDef DEF Slots
<1>2. (h + b) % Cap \in Slots /\ (h + b) \div Cap \in Int
      /\ h + b = Cap * ((h + b) \div Cap) + ((h + b) % Cap)
  BY ModDef DEF Slots
<1>3. a - b = Cap * ((h + a) \div Cap - (h + b) \div Cap)
  BY <1>1, <1>2, CapPos DEF Slots
<1>4. (h + a) \div Cap - (h + b) \div Cap = 0
  BY <1>1, <1>2, <1>3, MulZero, CapPos DEF Slots
<1> QED
  BY <1>3, <1>4, CapPos DEF Slots

-----------------------------------------------------------------------------
(* The invariant behind the refinement.                                    *)

\* Fewer descriptors than MAX_QUEUE slots.
FewItems == IsFiniteSet(Items) /\ Cardinality(Items) < Cap

\* Every entry of a ring is a descriptor.
EntriesOK == \A q \in Rings : Range(Entries(q)) \subseteq Items

\* No ring holds a descriptor twice.
NoDup == \A q \in Rings : IsInjective(Entries(q))

\* Every entry of the exited ring is TOBE_REMOVED.
ExitedRemoved == Range(Entries("exited")) \subseteq removed

RInv == IInv /\ EntriesOK /\ NoDup /\ ExitedRemoved

\* With fewer descriptors than slots, a ring without duplicates is never full.
LEMMA NotFull ==
    ASSUME FewItems, Shape, EntriesOK, NoDup, NEW q \in Rings
    PROVE  size[q] < Cap
<1>1. size[q] \in 0..Cap
  BY DEF Shape
<1> SUFFICES ASSUME size[q] = Cap PROVE FALSE
  BY <1>1, CapPos
<1>2. IsFiniteSet(1..Cap) /\ Cardinality(1..Cap) = Cap
  BY CapPos, FS_Interval
<1>3. Entries(q) \in [1..Cap -> Items]
  BY DEF EntriesOK, Entries, Range
<1>5. \A f \in [1..Cap -> Items] :
        \E x, y \in 1..Cap : x # y /\ f[x] = f[y]
  <2> SUFFICES ASSUME NEW f \in [1..Cap -> Items]
               PROVE  \E x, y \in 1..Cap : x # y /\ f[x] = f[y]
    OBVIOUS
  <2> QED
    BY <1>2, CapPos, FS_PigeonHole DEF FewItems
<1>6. \E x, y \in 1..Cap : x # y /\ Entries(q)[x] = Entries(q)[y]
  BY <1>3, <1>5
<1> QED
  BY <1>6 DEF NoDup, IsInjective, Entries

-----------------------------------------------------------------------------
(* Range and injectivity of the sequences the ring operations produce.     *)

LEMMA AppendRange ==
    ASSUME NEW S, NEW s \in Seq(S), NEW t \in S
    PROVE  /\ Range(Append(s, t)) = Range(s) \cup {t}
           /\ IsInjective(s) /\ t \notin Range(s) => IsInjective(Append(s, t))
<1>1. /\ Len(Append(s, t)) = Len(s) + 1
      /\ \A i \in 1..Len(s) : Append(s, t)[i] = s[i]
      /\ Append(s, t)[Len(s) + 1] = t
      /\ Append(s, t) \in Seq(S)
  BY AppendProperties
<1>2. DOMAIN Append(s, t) = 1..Len(s) + 1 /\ DOMAIN s = 1..Len(s)
      /\ Len(s) \in Nat
  BY <1>1, LenProperties
<1>3. Range(Append(s, t)) = Range(s) \cup {t}
  BY <1>1, <1>2 DEF Range
<1>4. ASSUME IsInjective(s), t \notin Range(s) PROVE IsInjective(Append(s, t))
  BY <1>1, <1>2, <1>4 DEF IsInjective, Range
<1> QED
  BY <1>3, <1>4

LEMMA SubSeqRange ==
    ASSUME NEW S, NEW s \in Seq(S), NEW m \in 1..Len(s) + 1
    PROVE  /\ Range(SubSeq(s, m, Len(s))) \subseteq Range(s)
           /\ IsInjective(s) => IsInjective(SubSeq(s, m, Len(s)))
<1>1. Len(s) \in Nat /\ DOMAIN s = 1..Len(s)
  BY LenProperties
<1>2. \A i \in m..Len(s) : s[i] \in S
  BY <1>1, ElementOfSeq
<1>3. /\ SubSeq(s, m, Len(s)) \in Seq(S)
      /\ Len(SubSeq(s, m, Len(s))) = IF m <= Len(s) THEN Len(s) - m + 1 ELSE 0
      /\ \A i \in 1..Len(s) - m + 1 : SubSeq(s, m, Len(s))[i] = s[m + i - 1]
  BY <1>1, <1>2, SubSeqProperties
<1>4. DOMAIN SubSeq(s, m, Len(s)) = 1..Len(s) - m + 1
  BY <1>1, <1>3, LenProperties
<1>5. \A i \in 1..Len(s) - m + 1 : m + i - 1 \in 1..Len(s)
  BY <1>1
<1>6. Range(SubSeq(s, m, Len(s))) \subseteq Range(s)
  BY <1>1, <1>3, <1>4, <1>5 DEF Range
<1>7. ASSUME IsInjective(s) PROVE IsInjective(SubSeq(s, m, Len(s)))
  BY <1>1, <1>3, <1>4, <1>5, <1>7 DEF IsInjective
<1> QED
  BY <1>6, <1>7

\* A ring branch of enqueue_thread on a ring that is not full appends the
\* descriptor at tail and leaves the other ring alone.
LEMMA EntriesAppend ==
    ASSUME Shape, NEW q \in Rings, NEW t \in Items, size[q] < Cap,
           RingEnqueue(q, t), head' = head
    PROVE  /\ Entries(q)' = Append(Entries(q), t)
           /\ \A p \in Rings \ {q} : Entries(p)' = Entries(p)
<1>1. /\ size' = [size EXCEPT ![q] = @ + 1]
      /\ slots' = [slots EXCEPT ![q][tail[q]] = t]
  BY CapPos DEF RingEnqueue
<1>2. size[q] \in 0..Cap - 1 /\ head[q] \in Slots /\ tail[q] \in Slots
      /\ tail[q] = (head[q] + size[q]) % Cap
  BY CapPos DEF Shape, RingInv
<1>3. Entries(q) \in Seq(Items \cup {NoItem}) /\ Len(Entries(q)) = size[q]
  BY EntriesSeq
<1>4. /\ Append(Entries(q), t) \in Seq(Items \cup {NoItem})
      /\ Len(Append(Entries(q), t)) = size[q] + 1
      /\ \A i \in 1..size[q] : Append(Entries(q), t)[i] = Entries(q)[i]
      /\ Append(Entries(q), t)[size[q] + 1] = t
  BY <1>3, AppendProperties
<1>5. DOMAIN Append(Entries(q), t) = 1..size[q] + 1
  BY <1>4, LenProperties
<1>6. \A i \in 1..size[q] : (head[q] + i - 1) % Cap # tail[q]
  <2> SUFFICES ASSUME NEW i \in 1..size[q],
                      (head[q] + (i - 1)) % Cap = (head[q] + size[q]) % Cap
               PROVE  FALSE
    BY <1>2
  <2>1. i - 1 \in Slots /\ size[q] \in Slots /\ head[q] \in Int
    BY <1>2, CapPos DEF Slots
  <2> QED
    BY <2>1, ModOffsetInj
<1>7. Entries(q)' = [i \in 1..size[q] + 1 |->
                       slots'[q][(head[q] + i - 1) % Cap]]
  BY <1>1 DEF Entries, Shape
<1>8. \A i \in 1..size[q] + 1 :
        slots'[q][(head[q] + i - 1) % Cap] = Append(Entries(q), t)[i]
  <2> SUFFICES ASSUME NEW i \in 1..size[q] + 1
               PROVE  slots'[q][(head[q] + i - 1) % Cap]
                        = Append(Entries(q), t)[i]
    OBVIOUS
  <2>0. (head[q] + i - 1) % Cap \in Slots
    BY <1>2, ModDef DEF Slots
  <2>1. CASE i <= size[q]
    <3>1. slots'[q][(head[q] + i - 1) % Cap]
            = slots[q][(head[q] + i - 1) % Cap]
      BY <1>1, <1>6, <2>0, <2>1 DEF Shape
    <3>2. Entries(q)[i] = slots[q][(head[q] + i - 1) % Cap]
      BY <2>1 DEF Entries
    <3> QED
      BY <3>1, <3>2, <1>4, <2>1
  <2>2. CASE i = size[q] + 1
    <3>1. (head[q] + i - 1) % Cap = tail[q]
      BY <1>2, <2>2
    <3>2. slots'[q][tail[q]] = t
      BY <1>1, <1>2 DEF Shape
    <3> QED
      BY <3>1, <3>2, <1>4, <2>2
  <2>3. i <= size[q] \/ i = size[q] + 1
    BY <1>2, CapPos
  <2> QED
    BY <2>1, <2>2, <2>3, Zenon
<1>9. \A p \in Rings \ {q} : Entries(p)' = Entries(p)
  BY <1>1 DEF Entries, Shape
<1>10. Append(Entries(q), t)
         = [i \in 1..size[q] + 1 |-> Append(Entries(q), t)[i]]
  BY <1>4, <1>5, LenProperties
<1> QED
  BY <1>7, <1>8, <1>9, <1>10

\* The positions of the live entries of ring q, and the first of them: the
\* LivePositions and the choice of Take in RingQueue, on Entries(q).
LivePos(q) == {i \in 1..Len(Entries(q)) : Entries(q)[i] \notin removed}

FirstLive(q) == CHOOSE i \in LivePos(q) : \A j \in LivePos(q) : i <= j

\* On a ring that is not full the slots the skip loop of dequeue_thread may
\* visit are the entries: offset i from head is entry i + 1.
LEMMA LiveCorrespond ==
    ASSUME Shape, NEW q \in Rings, size[q] < Cap
    PROVE  /\ Span(q, head[q]) = size[q]
           /\ \A i \in 0..size[q] - 1 :
                 slots[q][(head[q] + i) % Cap] = Entries(q)[i + 1]
           /\ \A i \in Int : i \in LiveOffsets(q, head[q]) <=> i + 1 \in LivePos(q)
<1>1. size[q] \in 0..Cap - 1 /\ head[q] \in Slots
  BY CapPos DEF Shape
<1>2. Span(q, head[q]) = size[q]
  <2>1. Span(q, head[q]) = size[q] % Cap
    BY SpanSize
  <2>2. size[q] % Cap = size[q]
    BY <1>1, SizeMod, CapPos
  <2> QED
    BY <2>1, <2>2
<1>3. Len(Entries(q)) = size[q]
  BY EntriesSeq
<1>4. \A i \in 0..size[q] - 1 :
         slots[q][(head[q] + i) % Cap] = Entries(q)[i + 1]
  <2> SUFFICES ASSUME NEW i \in 0..size[q] - 1
               PROVE  slots[q][(head[q] + i) % Cap] = Entries(q)[i + 1]
    OBVIOUS
  <2>1. head[q] + (i + 1) - 1 = head[q] + i
    BY <1>1 DEF Slots
  <2>2. Entries(q)[i + 1] = slots[q][(head[q] + (i + 1) - 1) % Cap]
    BY <1>1 DEF Entries
  <2> QED
    BY <2>1, <2>2
<1> QED
  BY <1>1, <1>2, <1>3, <1>4 DEF LiveOffsets, LivePos

\* dequeue_thread on a ring that is not full does what Take does: it drops
\* the entries up to the first live one and returns that one, or empties
\* the ring and returns NULL when none is live.
LEMMA EntriesDequeue ==
    ASSUME Shape, out \in [Rings -> Items \cup {NoItem}], NEW q \in Rings,
           size[q] < Cap, DequeueThread(q)
    PROVE  /\ LivePos(q) = {} => /\ Entries(q)' = << >>
                                 /\ out'[q] = NoItem
           /\ LivePos(q) # {} =>
                 /\ out'[q] = Entries(q)[FirstLive(q)]
                 /\ Entries(q)' = SubSeq(Entries(q), FirstLive(q) + 1,
                                         Len(Entries(q)))
           /\ \A p \in Rings \ {q} : Entries(p)' = Entries(p) /\ out'[p] = out[p]
<1>a. PICK h : h = head[q]
  OBVIOUS
<1>b. PICK n : n = size[q]
  OBVIOUS
<1>c. PICK r : r = DequeueRing(q, h, n)
  OBVIOUS
<1> USE <1>a, <1>b
<1>1. n \in 0..Cap - 1 /\ h \in Slots /\ tail[q] \in Slots
      /\ slots[q] \in [Slots -> Items \cup {NoItem}]
  BY CapPos DEF Shape
<1>2. /\ Span(q, h) = n
      /\ \A i \in 0..n - 1 : slots[q][(h + i) % Cap] = Entries(q)[i + 1]
      /\ \A i \in Int : i \in LiveOffsets(q, h) <=> i + 1 \in LivePos(q)
  BY LiveCorrespond
<1>3. Entries(q) \in Seq(Items \cup {NoItem}) /\ Len(Entries(q)) = n
  BY EntriesSeq
<1>4. /\ head' = [head EXCEPT ![q] = r.head]
      /\ size' = [size EXCEPT ![q] = r.size]
      /\ out' = [out EXCEPT ![q] = r.out]
      /\ UNCHANGED <<slots, tail, removed>>
  BY <1>c DEF DequeueThread
<1>5. Entries(q)' = [i \in 1..r.size |-> slots[q][(r.head + i - 1) % Cap]]
  BY <1>4 DEF Entries, Shape
<1>6. \A p \in Rings \ {q} : Entries(p)' = Entries(p) /\ out'[p] = out[p]
  BY <1>4 DEF Entries, Shape
<1>7. out'[q] = r.out
  BY <1>4
<1>8. LiveOffsets(q, h) \subseteq 0..n - 1
  BY <1>2 DEF LiveOffsets
<1>9. ASSUME LivePos(q) = {}
      PROVE  Entries(q)' = << >> /\ out'[q] = NoItem
  <2>1. LiveOffsets(q, h) = {}
    BY <1>2, <1>8, <1>9
  <2>2. r = [head |-> tail[q], size |-> n - n, out |-> NoItem]
    BY <1>c, <1>2, <2>1 DEF DequeueRing
  <2>3. Entries(q)' = [i \in 1..0 |-> slots[q][(tail[q] + i - 1) % Cap]]
    BY <1>1, <1>5, <2>2
  <2>4. Entries(q)' \in Seq(Items \cup {NoItem}) /\ Len(Entries(q)') = 0
    <3>1. Entries(q)' \in [1..0 -> Items \cup {NoItem}]
      BY <2>3
    <3>2. Entries(q)' \in Seq(Items \cup {NoItem})
      BY <3>1, SeqDef
    <3> QED
      BY <3>1, <3>2, LenProperties
  <2>5. << >> \in Seq(Items \cup {NoItem}) /\ Len(<< >>) = 0
    BY EmptySeq
  <2>6. Entries(q)' = << >>
    BY <2>4, <2>5, SeqEqual
  <2> QED
    BY <1>7, <2>2, <2>6
<1>10. ASSUME LivePos(q) # {}
       PROVE  /\ out'[q] = Entries(q)[FirstLive(q)]
              /\ Entries(q)' = SubSeq(Entries(q), FirstLive(q) + 1,
                                      Len(Entries(q)))
  <2>0. PICK k : k = CHOOSE i \in LiveOffsets(q, h) :
                          \A j \in LiveOffsets(q, h) : i <= j
    OBVIOUS
  <2>1. LiveOffsets(q, h) # {} /\ LiveOffsets(q, h) \subseteq Nat
    <3>1. PICK j \in LivePos(q) : TRUE
      BY <1>10
    <3>2. j - 1 \in Int /\ (j - 1) + 1 = j
      BY <1>3 DEF LivePos
    <3>3. j - 1 \in LiveOffsets(q, h)
      BY <1>2, <3>1, <3>2
    <3>4. LiveOffsets(q, h) \subseteq Nat
      BY <1>1, <1>8
    <3> QED
      BY <3>3, <3>4
  <2>2. k \in LiveOffsets(q, h) /\ \A j \in LiveOffsets(q, h) : k <= j
    BY <2>0, <2>1, LeastOffset
  <2>3. LivePos(q) \subseteq Nat
    BY DEF LivePos
  <2>4. FirstLive(q) \in LivePos(q) /\ \A j \in LivePos(q) : FirstLive(q) <= j
    BY <1>10, <2>3, LeastOffset DEF FirstLive
  <2>5. FirstLive(q) = k + 1
    <3>1. k + 1 \in LivePos(q)
      BY <1>2, <1>8, <2>2
    <3>2. FirstLive(q) - 1 \in LiveOffsets(q, h)
      BY <1>2, <2>3, <2>4
    <3> QED
      BY <2>2, <2>3, <2>4, <3>1, <3>2, <1>8
  <2>6. k \in 0..n - 1
    BY <1>8, <2>2
  <2>7. r = [head |-> (h + k + 1) % Cap, size |-> n - (k + 1),
             out |-> slots[q][(h + k) % Cap]]
    BY <1>c, <2>0, <2>1 DEF DequeueRing
  <2>8. out'[q] = Entries(q)[k + 1]
    BY <1>2, <1>7, <2>6, <2>7
  <2>9. Entries(q)' = SubSeq(Entries(q), k + 2, n)
    <3>1. \A i \in k + 2..n : Entries(q)[i] \in Items \cup {NoItem}
      BY <1>3, <2>6, ElementOfSeq
    <3>2. /\ SubSeq(Entries(q), k + 2, n) \in Seq(Items \cup {NoItem})
          /\ Len(SubSeq(Entries(q), k + 2, n)) = n - (k + 1)
          /\ \A i \in 1..n - (k + 1) :
                SubSeq(Entries(q), k + 2, n)[i] = Entries(q)[k + 1 + i]
      <4>1. k + 2 \in Int /\ n \in Int
        BY <1>1, <2>6
      <4>2. /\ SubSeq(Entries(q), k + 2, n) \in Seq(Items \cup {NoItem})
            /\ Len(SubSeq(Entries(q), k + 2, n))
                 = IF k + 2 <= n THEN n - (k + 2) + 1 ELSE 0
            /\ \A i \in 1..n - (k + 2) + 1 :
                 SubSeq(Entries(q), k + 2, n)[i] = Entries(q)[k + 2 + i - 1]
        BY <3>1, <4>1, SubSeqProperties
      <4> QED
        BY <4>1, <4>2, <2>6
    <3>3. \A i \in 1..n - (k + 1) :
            slots[q][(((h + k + 1) % Cap) + i - 1) % Cap] = Entries(q)[k + 1 + i]
      <4> SUFFICES ASSUME NEW i \in 1..n - (k + 1)
                   PROVE  slots[q][(((h + k + 1) % Cap) + i - 1) % Cap]
                            = Entries(q)[k + 1 + i]
        OBVIOUS
      <4>1. h + k + 1 \in Int /\ i - 1 \in Int
        BY <1>1, <2>6 DEF Slots
      <4>2. (((h + k + 1) % Cap) + (i - 1)) % Cap = ((h + k + 1) + (i - 1)) % Cap
        BY <4>1, ModAddLeft, Zenon
      <4>3. (h + k + 1) + (i - 1) = h + (k + i)
        BY <1>1, <2>6 DEF Slots
      <4>4. k + i \in 0..n - 1
        BY <1>1, <2>6
      <4>5. slots[q][(h + (k + i)) % Cap] = Entries(q)[k + i + 1]
        BY <4>4, <1>2
      <4>6. (h + k + 1) % Cap \in Int
        BY <4>1, ModDef DEF Slots
      <4>7. ((h + k + 1) % Cap) + i - 1 = ((h + k + 1) % Cap) + (i - 1)
            /\ k + 1 + i = k + i + 1
        BY <4>6, <1>1, <2>6 DEF Slots
      <4> QED
        BY <4>2, <4>3, <4>5, <4>7
    <3>4. Entries(q)' = [i \in 1..n - (k + 1) |->
                           slots[q][(((h + k + 1) % Cap) + i - 1) % Cap]]
      BY <1>5, <2>7
    <3>5. Entries(q)' \in Seq(Items \cup {NoItem}) /\ Len(Entries(q)') = n - (k + 1)
      <4>0. \A i \in 1..n - (k + 1) :
              (((h + k + 1) % Cap) + i - 1) % Cap \in Slots
        <5> SUFFICES ASSUME NEW i \in 1..n - (k + 1)
                     PROVE  (((h + k + 1) % Cap) + i - 1) % Cap \in Slots
          OBVIOUS
        <5>0. h + k + 1 \in Int
          BY <1>1, <2>6 DEF Slots
        <5>1. (h + k + 1) % Cap \in Slots
          BY <5>0, ModDef
        <5>2. ((h + k + 1) % Cap) + i - 1 \in Int
          BY <5>1 DEF Slots
        <5> QED
          BY <5>2, ModDef
      <4>1. Entries(q)' \in [1..n - (k + 1) -> Items \cup {NoItem}]
        BY <1>1, <3>4, <4>0
      <4>2. n - (k + 1) \in Nat
        BY <1>1, <2>6
      <4>3. Entries(q)' \in Seq(Items \cup {NoItem})
        BY <4>1, <4>2, SeqDef
      <4> QED
        BY <4>1, <4>3, <4>2, LenProperties
    <3>6. \A i \in 1..Len(Entries(q)') :
            Entries(q)'[i] = SubSeq(Entries(q), k + 2, n)[i]
      <4> SUFFICES ASSUME NEW i \in 1..n - (k + 1)
                   PROVE  Entries(q)'[i] = SubSeq(Entries(q), k + 2, n)[i]
        BY <3>5
      <4>1. Entries(q)'[i] = slots[q][(((h + k + 1) % Cap) + i - 1) % Cap]
        BY <3>4
      <4> QED
        BY <4>1, <3>2, <3>3
    <3> QED
      BY <3>2, <3>5, <3>6, SeqEqual
  <2>10. FirstLive(q) + 1 = k + 2 /\ Len(Entries(q)) = n
    BY <1>3, <2>5, <2>6
  <2> QED
    BY <2>5, <2>8, <2>9, <2>10
<1> QED
  BY <1>6, <1>9, <1>10

-----------------------------------------------------------------------------
(* RInv is inductive.                                                      *)

LEMMA EntriesInit == Init => \A q \in Rings : Entries(q) = << >>
<1> SUFFICES ASSUME Init, NEW q \in Rings PROVE Entries(q) = << >>
  OBVIOUS
<1>1. Entries(q) = [i \in 1..0 |-> slots[q][(head[q] + i - 1) % Cap]]
  BY DEF Init, Entries
<1>2. Entries(q) \in Seq(Items \cup {NoItem}) /\ Len(Entries(q)) = 0
  <2>1. Entries(q) \in [1..0 -> Items \cup {NoItem}]
    BY <1>1
  <2>2. Entries(q) \in Seq(Items \cup {NoItem})
    BY <2>1, SeqDef
  <2> QED
    BY <2>1, <2>2, LenProperties
<1>3. << >> \in Seq(Items \cup {NoItem}) /\ Len(<< >>) = 0
  BY EmptySeq
<1> QED
  BY <1>2, <1>3, SeqEqual

LEMMA RInvInit == Init => RInv
<1> SUFFICES ASSUME Init PROVE RInv
  OBVIOUS
<1>1. \A q \in Rings : Entries(q) = << >>
  BY EntriesInit
<1>2. \A q \in Rings : Range(Entries(q)) = {} /\ IsInjective(Entries(q))
  BY <1>1 DEF Range, IsInjective
<1>3. IInv
  BY IInvInit
<1>4. "exited" \in Rings
  BY DEF Rings
<1> QED
  BY <1>2, <1>3, <1>4 DEF RInv, EntriesOK, NoDup, ExitedRemoved

\* enqueue_thread puts on the waiting ring only a thread that is not on it,
\* and rt_thread_exit puts on the exited ring only a thread it has not yet
\* marked, so neither ring ever holds a descriptor twice.
LEMMA RInvNext ==
    ASSUME FewItems
    PROVE  RInv /\ [Next]_vars => RInv'
<1> SUFFICES ASSUME RInv, [Next]_vars PROVE RInv'
  OBVIOUS
<1>0. /\ IInv'
      /\ Shape /\ out \in [Rings -> Items \cup {NoItem}]
      /\ removed \subseteq Items
      /\ \A q \in Rings : size[q] < Cap
      /\ \A q \in Rings : Entries(q) \in Seq(Items \cup {NoItem})
  <2>1. IInv' /\ Shape /\ out \in [Rings -> Items \cup {NoItem}]
        /\ removed \subseteq Items
    BY IInvNext, IInvIsShape DEF RInv, IInvShape
  <2>2. \A q \in Rings : size[q] < Cap
    BY <2>1, NotFull DEF RInv
  <2>3. \A q \in Rings : Entries(q) \in Seq(Items \cup {NoItem})
    BY <2>1, EntriesSeq
  <2> QED
    BY <2>1, <2>2, <2>3
<1> SUFFICES EntriesOK' /\ NoDup' /\ ExitedRemoved'
  BY <1>0 DEF RInv
<1>w. "waiting" \in Rings /\ "exited" \in Rings /\ "waiting" # "exited"
  BY DEF Rings
<1>1. ASSUME NEW t \in Items, EnqueueThread(t)
      PROVE  EntriesOK' /\ NoDup' /\ ExitedRemoved'
  <2>1. /\ Entries("waiting")' = Append(Entries("waiting"), t)
        /\ Entries("exited")' = Entries("exited")
    BY <1>0, <1>1, <1>w, EntriesAppend DEF EnqueueThread
  <2>2. removed' = removed
    BY <1>0, <1>1, <1>w DEF EnqueueThread
  <2>3. t \notin Range(Entries("waiting"))
    BY <1>1 DEF EnqueueThread, OnRing, Range, Entries
  <2>4. /\ Range(Entries("waiting")') = Range(Entries("waiting")) \cup {t}
        /\ IsInjective(Entries("waiting")')
    <3>1. Entries("waiting") \in Seq(Items \cup {NoItem}) /\ t \in Items \cup {NoItem}
      BY <1>0, <1>w
    <3>2. /\ Range(Append(Entries("waiting"), t)) = Range(Entries("waiting")) \cup {t}
          /\ IsInjective(Entries("waiting")) /\ t \notin Range(Entries("waiting"))
               => IsInjective(Append(Entries("waiting"), t))
      BY <3>1, AppendRange
    <3>3. IsInjective(Entries("waiting"))
      BY <1>w DEF RInv, NoDup
    <3> QED
      BY <2>1, <2>3, <3>2, <3>3
  <2> QED
    BY <1>w, <2>1, <2>2, <2>4 DEF RInv, EntriesOK, NoDup, ExitedRemoved, Rings
<1>2. ASSUME NEW t \in Items, ExitThread(t)
      PROVE  EntriesOK' /\ NoDup' /\ ExitedRemoved'
  <2>1. /\ Entries("exited")' = Append(Entries("exited"), t)
        /\ Entries("waiting")' = Entries("waiting")
    BY <1>0, <1>2, <1>w, EntriesAppend DEF ExitThread
  <2>2. removed' = removed \cup {t} /\ t \notin removed
    BY <1>2 DEF ExitThread
  <2>3. t \notin Range(Entries("exited"))
    BY <2>2 DEF RInv, ExitedRemoved
  <2>4. /\ Range(Entries("exited")') = Range(Entries("exited")) \cup {t}
        /\ IsInjective(Entries("exited")')
    <3>1. Entries("exited") \in Seq(Items \cup {NoItem}) /\ t \in Items \cup {NoItem}
      BY <1>0, <1>w
    <3>2. /\ Range(Append(Entries("exited"), t)) = Range(Entries("exited")) \cup {t}
          /\ IsInjective(Entries("exited")) /\ t \notin Range(Entries("exited"))
               => IsInjective(Append(Entries("exited"), t))
      BY <3>1, AppendRange
    <3>3. IsInjective(Entries("exited"))
      BY <1>w DEF RInv, NoDup
    <3> QED
      BY <2>1, <2>3, <3>2, <3>3
  <2> QED
    BY <1>w, <2>1, <2>2, <2>4 DEF RInv, EntriesOK, NoDup, ExitedRemoved, Rings
<1>3. ASSUME NEW q \in Rings, DequeueThread(q)
      PROVE  EntriesOK' /\ NoDup' /\ ExitedRemoved'
  <2>1. /\ LivePos(q) = {} => Entries(q)' = << >>
        /\ LivePos(q) # {} =>
              Entries(q)' = SubSeq(Entries(q), FirstLive(q) + 1, Len(Entries(q)))
        /\ \A p \in Rings \ {q} : Entries(p)' = Entries(p)
    BY <1>0, <1>3, EntriesDequeue
  <2>2. removed' = removed
    BY <1>3 DEF DequeueThread
  <2>3. Range(Entries(q)') \subseteq Range(Entries(q))
        /\ IsInjective(Entries(q)')
    <3>1. CASE LivePos(q) = {}
      BY <2>1, <3>1 DEF Range, IsInjective
    <3>2. CASE LivePos(q) # {}
      <4>1. FirstLive(q) \in LivePos(q)
        <5>1. LivePos(q) \subseteq Nat
          BY DEF LivePos
        <5> QED
          BY <3>2, <5>1, LeastOffset DEF FirstLive
      <4>2. FirstLive(q) + 1 \in 1..Len(Entries(q)) + 1
        BY <4>1, <1>0, LenProperties DEF LivePos
      <4> QED
        BY <1>0, <2>1, <3>2, <4>2, SubSeqRange DEF RInv, NoDup
    <3> QED
      BY <3>1, <3>2
  <2> QED
    BY <1>w, <2>1, <2>2, <2>3 DEF RInv, EntriesOK, NoDup, ExitedRemoved, Rings
<1>4. CASE UNCHANGED vars
  BY <1>4 DEF vars, RInv, EntriesOK, NoDup, ExitedRemoved, Entries
<1> QED
  BY <1>1, <1>2, <1>3, <1>4 DEF Next

-----------------------------------------------------------------------------
(* The refinement.                                                         *)

LEMMA RefineInit == Init => WaitingQ!Init /\ ExitedQ!Init
<1> SUFFICES ASSUME Init PROVE WaitingQ!Init /\ ExitedQ!Init
  OBVIOUS
<1>1. Entries("waiting") = << >> /\ Entries("exited") = << >>
  BY EntriesInit DEF Rings
<1>2. out["waiting"] = NoItem /\ out["exited"] = NoItem /\ removed = {}
  BY DEF Init, Rings
<1> QED
  BY <1>1, <1>2 DEF WaitingQ!Init, ExitedQ!Init

\* Facts about the state both step lemmas start from.
LEMMA StepFacts ==
    ASSUME FewItems, RInv
    PROVE  /\ Shape /\ out \in [Rings -> Items \cup {NoItem}]
           /\ \A q \in Rings : size[q] < Cap
           /\ \A q \in Rings : Len(Entries(q)) = size[q]
           /\ "waiting" \in Rings /\ "exited" \in Rings /\ "waiting" # "exited"
<1>1. Shape /\ out \in [Rings -> Items \cup {NoItem}]
  BY IInvIsShape DEF RInv, IInvShape
<1>2. \A q \in Rings : size[q] < Cap
  BY <1>1, NotFull DEF RInv
<1>3. \A q \in Rings : Len(Entries(q)) = size[q]
  BY <1>1, EntriesSeq
<1> QED
  BY <1>1, <1>2, <1>3 DEF Rings

\* Every step of the code is a step of the waiting ring's FIFO or leaves
\* it alone: enqueue_thread is Put, rt_thread_exit of a waiting thread is
\* Mark, and dequeue_thread of the waiting ring is Take.
LEMMA WaitingStep ==
    ASSUME FewItems
    PROVE  RInv /\ [Next]_vars => [WaitingQ!Next]_WaitingQ!absVars
<1> SUFFICES ASSUME RInv, [Next]_vars PROVE [WaitingQ!Next]_WaitingQ!absVars
  OBVIOUS
<1>0. /\ Shape /\ out \in [Rings -> Items \cup {NoItem}]
      /\ \A q \in Rings : size[q] < Cap
      /\ \A q \in Rings : Len(Entries(q)) = size[q]
      /\ "waiting" \in Rings /\ "exited" \in Rings /\ "waiting" # "exited"
  BY StepFacts
<1>1. ASSUME NEW t \in Items, EnqueueThread(t) PROVE WaitingQ!Put(t)
  <2>1. Entries("waiting")' = Append(Entries("waiting"), t)
    BY <1>0, <1>1, EntriesAppend DEF EnqueueThread
  <2>2. removed' = removed \ {t} /\ out' = out
    BY <1>0, <1>1 DEF EnqueueThread
  <2>3. Len(Entries("waiting")) # Cap
    BY <1>0
  <2> QED
    BY <2>1, <2>2, <2>3 DEF WaitingQ!Put
<1>2. ASSUME NEW t \in Items, ExitThread(t) PROVE WaitingQ!Mark(t)
  <2>1. Entries("waiting")' = Entries("waiting")
    BY <1>0, <1>2, EntriesAppend DEF ExitThread
  <2> QED
    BY <1>2, <2>1 DEF ExitThread, WaitingQ!Mark
<1>3. ASSUME DequeueThread("waiting") PROVE WaitingQ!Take
  <2>1. /\ LivePos("waiting") = {} => /\ Entries("waiting")' = << >>
                                       /\ out'["waiting"] = NoItem
        /\ LivePos("waiting") # {} =>
              /\ out'["waiting"] = Entries("waiting")[FirstLive("waiting")]
              /\ Entries("waiting")' = SubSeq(Entries("waiting"),
                                              FirstLive("waiting") + 1,
                                              Len(Entries("waiting")))
    BY <1>0, <1>3, EntriesDequeue
  <2>2. removed' = removed
    BY <1>3 DEF DequeueThread
  <2> QED
    BY <2>1, <2>2 DEF WaitingQ!Take, WaitingQ!LivePositions, LivePos, FirstLive
<1>4. ASSUME DequeueThread("exited") PROVE UNCHANGED WaitingQ!absVars
  <2>1. Entries("waiting")' = Entries("waiting") /\ out'["waiting"] = out["waiting"]
    BY <1>0, <1>4, EntriesDequeue
  <2> QED
    BY <1>4, <2>1 DEF DequeueThread, WaitingQ!absVars
<1>5. CASE UNCHANGED vars
  BY <1>5 DEF vars, WaitingQ!absVars, Entries
<1>6. ASSUME NEW q \in Rings, DequeueThread(q)
      PROVE  DequeueThread("waiting") \/ DequeueThread("exited")
  BY <1>6 DEF Rings
<1> QED
  BY <1>1, <1>2, <1>3, <1>4, <1>5, <1>6 DEF Next, WaitingQ!Next

\* Every step of the code is a step of the exited ring's FIFO or leaves it
\* alone: rt_thread_exit is Exit and dequeue_thread of the exited ring is
\* Take.
LEMMA ExitedStep ==
    ASSUME FewItems
    PROVE  RInv /\ [Next]_vars => [ExitedQ!Next]_ExitedQ!absVars
<1> SUFFICES ASSUME RInv, [Next]_vars PROVE [ExitedQ!Next]_ExitedQ!absVars
  OBVIOUS
<1>0. /\ Shape /\ out \in [Rings -> Items \cup {NoItem}]
      /\ \A q \in Rings : size[q] < Cap
      /\ \A q \in Rings : Len(Entries(q)) = size[q]
      /\ "waiting" \in Rings /\ "exited" \in Rings /\ "waiting" # "exited"
  BY StepFacts
<1>1. ASSUME NEW t \in Items, EnqueueThread(t) PROVE UNCHANGED ExitedQ!absVars
  <2>1. Entries("exited")' = Entries("exited")
    BY <1>0, <1>1, EntriesAppend DEF EnqueueThread
  <2>2. removed' = removed /\ out' = out
    BY <1>0, <1>1 DEF EnqueueThread
  <2> QED
    BY <2>1, <2>2 DEF ExitedQ!absVars
<1>2. ASSUME NEW t \in Items, ExitThread(t) PROVE ExitedQ!Exit(t)
  <2>1. Entries("exited")' = Append(Entries("exited"), t)
    BY <1>0, <1>2, EntriesAppend DEF ExitThread
  <2>2. Len(Entries("exited")) # Cap
    BY <1>0
  <2> QED
    BY <1>2, <2>1, <2>2 DEF ExitThread, ExitedQ!Exit
<1>3. ASSUME DequeueThread("exited") PROVE ExitedQ!Take
  <2>1. /\ LivePos("exited") = {} => /\ Entries("exited")' = << >>
                                      /\ out'["exited"] = NoItem
        /\ LivePos("exited") # {} =>
              /\ out'["exited"] = Entries("exited")[FirstLive("exited")]
              /\ Entries("exited")' = SubSeq(Entries("exited"),
                                             FirstLive("exited") + 1,
                                             Len(Entries("exited")))
    BY <1>0, <1>3, EntriesDequeue
  <2>2. removed' = removed
    BY <1>3 DEF DequeueThread
  <2> QED
    BY <2>1, <2>2 DEF ExitedQ!Take, ExitedQ!LivePositions, LivePos, FirstLive
<1>4. ASSUME DequeueThread("waiting") PROVE UNCHANGED ExitedQ!absVars
  <2>1. Entries("exited")' = Entries("exited") /\ out'["exited"] = out["exited"]
    BY <1>0, <1>4, EntriesDequeue
  <2> QED
    BY <1>4, <2>1 DEF DequeueThread, ExitedQ!absVars
<1>5. CASE UNCHANGED vars
  BY <1>5 DEF vars, ExitedQ!absVars, Entries
<1>6. ASSUME NEW q \in Rings, DequeueThread(q)
      PROVE  DequeueThread("waiting") \/ DequeueThread("exited")
  BY <1>6 DEF Rings
<1> QED
  BY <1>1, <1>2, <1>3, <1>4, <1>5, <1>6 DEF Next, ExitedQ!Next

-----------------------------------------------------------------------------

\* With fewer descriptors than MAX_QUEUE, no ring of enqueue_thread and
\* rt_thread_exit ever holds a descriptor twice, and every entry of the
\* exited ring is TOBE_REMOVED.
THEOREM RingEntriesDistinct ==
    ASSUME FewItems
    PROVE  Spec => []RInv
  BY RInvInit, RInvNext, PTL DEF Spec

\* With fewer descriptors than MAX_QUEUE, both rings implement the bounded
\* FIFO of spec 4.1: dequeue_thread returns the oldest entry that is not
\* TOBE_REMOVED and discards the ones before it, across every wrap of head
\* and tail and every rt_thread_exit of a waiting thread.
THEOREM RingRefinement ==
    ASSUME FewItems
    PROVE  Spec => Refines
<1>1. Spec => []RInv
  BY RingEntriesDistinct
<1>2. Spec => WaitingQ!Spec
  BY <1>1, RefineInit, WaitingStep, PTL DEF Spec, WaitingQ!Spec
<1>3. Spec => ExitedQ!Spec
  BY <1>1, RefineInit, ExitedStep, PTL DEF Spec, ExitedQ!Spec
<1> QED
  BY <1>2, <1>3 DEF Refines
====
