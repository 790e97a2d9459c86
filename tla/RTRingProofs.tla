---------------------------- MODULE RTRingProofs ----------------------------
(***************************************************************************)
(* Proofs about the ring queues of rt_scheduler.c (module RTRing), for     *)
(* every MAX_QUEUE and every set of descriptors.                           *)
(*                                                                         *)
(* The ring array keeps head, tail and size apart, and the code never      *)
(* checks that they agree: enqueue_thread advances tail and size,          *)
(* dequeue_thread advances head and decrements size once per slot it       *)
(* visits.  RingInv states that they do agree: size slots from head end at *)
(* tail.  It is what keeps size within 0..MAX_QUEUE across the skip loop   *)
(* of dequeue_thread, which stops at head == tail and not at size == 0.    *)
(***************************************************************************)
EXTENDS RTRing, TLAPS, NaturalsInduction, WellFoundedInduction

IInv == TypeOK /\ RingInv

\* The part of IInv about the ring arrays and their indices.
Shape ==
    /\ slots \in [Rings -> [Slots -> Items \cup {NoItem}]]
    /\ head \in [Rings -> Slots]
    /\ tail \in [Rings -> Slots]
    /\ size \in [Rings -> 0..Cap]
    /\ RingInv

-----------------------------------------------------------------------------
(* Arithmetic modulo MAX_QUEUE.                                            *)

LEMMA CapPos == Cap \in Nat /\ Cap > 0
  BY RingAssumption DEF RingAssumption

\* x % Cap is the remainder of Euclidean division by Cap.
LEMMA ModDef ==
    ASSUME NEW x \in Int
    PROVE  x % Cap \in Slots /\ x \div Cap \in Int
           /\ x = Cap * (x \div Cap) + (x % Cap)
  BY CapPos DEF Slots

\* The only multiple of Cap strictly between -Cap and Cap is 0.
LEMMA MulZero ==
    ASSUME NEW d \in Int, Cap * d > -Cap, Cap * d < Cap
    PROVE  d = 0
  BY CapPos

\* The remainder is the unique r in 0..Cap-1 with x - r a multiple of Cap.
LEMMA ModUnique ==
    ASSUME NEW x \in Int, NEW r \in Slots, NEW m \in Int, x = Cap * m + r
    PROVE  x % Cap = r
<1>1. x % Cap \in Slots /\ x \div Cap \in Int
      /\ x = Cap * (x \div Cap) + (x % Cap)
  BY ModDef
<1>2. Cap * (m - (x \div Cap)) = (x % Cap) - r
  BY <1>1, CapPos DEF Slots
<1>3. m - (x \div Cap) = 0
  BY <1>1, <1>2, MulZero, CapPos DEF Slots
<1>4. Cap * (x \div Cap) = Cap * m
  BY <1>1, <1>3
<1> QED
  BY <1>1, <1>4, CapPos DEF Slots

LEMMA ModShift ==
    ASSUME NEW z \in Int, NEW m \in Int
    PROVE  (z + m * Cap) % Cap = z % Cap
<1>1. z % Cap \in Slots /\ z \div Cap \in Int
      /\ z = Cap * (z \div Cap) + (z % Cap)
  BY ModDef
<1>2. z + m * Cap = Cap * (m + z \div Cap) + (z % Cap)
  BY <1>1, CapPos
<1>3. z + m * Cap \in Int /\ m + z \div Cap \in Int
  BY <1>1, CapPos
<1> QED
  BY <1>1, <1>2, <1>3, ModUnique, Zenon

LEMMA ModAddLeft ==
    ASSUME NEW x \in Int, NEW y \in Int
    PROVE  ((x % Cap) + y) % Cap = (x + y) % Cap
<1>1. x % Cap \in Slots /\ x \div Cap \in Int
      /\ x = Cap * (x \div Cap) + (x % Cap)
  BY ModDef
<1>2. (x % Cap) + y \in Int
  BY <1>1, CapPos DEF Slots
<1>3. x + y = ((x % Cap) + y) + (x \div Cap) * Cap
  BY <1>1, CapPos
<1> QED
  BY <1>1, <1>2, <1>3, ModShift

LEMMA SlotMod ==
    ASSUME NEW a \in Slots
    PROVE  a % Cap = a
  BY CapPos DEF Slots

\* The increment with wrap of enqueue_thread and dequeue_thread is + 1
\* modulo MAX_QUEUE.
LEMMA SuccMod ==
    ASSUME NEW a \in Int
    PROVE  Succ(a % Cap) = (a + 1) % Cap
<1>1. a % Cap \in Slots /\ a \div Cap \in Int
      /\ a = Cap * (a \div Cap) + (a % Cap)
  BY ModDef
<1>2. CASE (a % Cap) + 1 = Cap
  <2>1. a + 1 = Cap * (a \div Cap + 1) + 0
    BY <1>1, <1>2, CapPos
  <2>2. a \div Cap + 1 \in Int /\ 0 \in Slots /\ a + 1 \in Int
    BY <1>1, CapPos DEF Slots
  <2>3. (a + 1) % Cap = 0
    BY <2>1, <2>2, ModUnique
  <2> QED
    BY <1>2, <2>3 DEF Succ
<1>3. CASE (a % Cap) + 1 # Cap
  <2>1. (a % Cap) + 1 \in Slots
    BY <1>1, <1>3, CapPos DEF Slots
  <2>2. a + 1 = Cap * (a \div Cap) + ((a % Cap) + 1)
    BY <1>1, CapPos
  <2>3. (a + 1) % Cap = (a % Cap) + 1
    BY <1>1, <2>1, <2>2, ModUnique, CapPos
  <2> QED
    BY <1>3, <2>3 DEF Succ
<1> QED
  BY <1>2, <1>3

\* A size in 0..MAX_QUEUE modulo MAX_QUEUE.
LEMMA SizeMod ==
    ASSUME NEW n \in 0..Cap
    PROVE  n % Cap = IF n = Cap THEN 0 ELSE n
<1>1. CASE n = Cap
  <2>1. 0 + 1 * Cap = n /\ 0 \in Int /\ 1 \in Int
    BY <1>1, CapPos
  <2>2. (0 + 1 * Cap) % Cap = 0 % Cap
    BY <2>1, ModShift
  <2> QED
    BY <1>1, <2>1, <2>2, CapPos
<1>2. CASE n # Cap
  BY <1>2, SlotMod, CapPos DEF Slots
<1> QED
  BY <1>1, <1>2

\* Under RingInv the slots from head up to tail are size of them, except
\* on a full ring, where head == tail and none are.
LEMMA SpanSize ==
    ASSUME Shape, NEW q \in Rings
    PROVE  Span(q, head[q]) = size[q] % Cap
<1>1. head[q] \in Slots /\ size[q] \in 0..Cap
  BY DEF Shape
<1>2. tail[q] = (head[q] + size[q]) % Cap
  BY DEF Shape, RingInv
<1>3. (((head[q] + size[q]) % Cap) + (-head[q])) % Cap
         = (head[q] + size[q] + (-head[q])) % Cap
  <2>1. head[q] + size[q] \in Int /\ -head[q] \in Int
    BY <1>1, CapPos DEF Slots
  <2> QED
    BY <2>1, ModAddLeft, Zenon
<1> QED
  BY <1>1, <1>2, <1>3, CapPos DEF Span, Slots

-----------------------------------------------------------------------------
(* The least live offset, taken by dequeue_thread, exists.                 *)

LEMMA LeastOffset ==
    ASSUME NEW S \in SUBSET Nat, S # {}
    PROVE  LET k == CHOOSE i \in S : \A j \in S : i <= j
           IN  k \in S /\ \A j \in S : k <= j
<1>1. \E m \in S : \A y \in S : ~(<<y, m>> \in OpToRel(<, Nat))
  BY WFMin, NatLessThanWellFounded
<1>2. PICK m \in S : \A y \in S : ~(y < m)
  BY <1>1 DEF OpToRel
<1>3. \E m2 \in S : \A y \in S : m2 <= y
  BY <1>2
<1> QED
  BY <1>3

-----------------------------------------------------------------------------
(* The steps of the ring operations.                                       *)

\* A ring branch of enqueue_thread keeps the ring well formed: tail and size
\* advance together, or neither does on a full ring.
LEMMA EnqueueShape ==
    ASSUME Shape, NEW q \in Rings, NEW t \in Items, RingEnqueue(q, t),
           head' = head
    PROVE  Shape'
<1>1. CASE size[q] = Cap
  BY <1>1 DEF RingEnqueue, Shape, RingInv
<1>2. CASE size[q] # Cap
  <2>0. size[q] \in 0..Cap /\ head[q] \in Slots /\ tail[q] \in Slots
    BY DEF Shape
  <2>1. size[q] \in 0..Cap - 1 /\ head[q] \in Slots /\ tail[q] \in Slots
    BY <2>0, <1>2, CapPos
  <2>2. /\ size' = [size EXCEPT ![q] = @ + 1]
        /\ tail' = [tail EXCEPT ![q] = Succ(@)]
        /\ slots' = [slots EXCEPT ![q][tail[q]] = t]
    BY <1>2 DEF RingEnqueue
  <2>3. Succ(tail[q]) = (head[q] + size[q] + 1) % Cap
    <3>1. tail[q] = (head[q] + size[q]) % Cap
      BY DEF Shape, RingInv
    <3>2. head[q] + size[q] \in Int
      BY <2>1, CapPos DEF Slots
    <3>3. Succ((head[q] + size[q]) % Cap) = (head[q] + size[q] + 1) % Cap
      BY <3>2, SuccMod
    <3> QED
      BY <3>1, <3>3
  <2>4. Succ(tail[q]) \in Slots
    BY <2>1, <2>3, ModDef, CapPos DEF Slots
  <2>5. slots' \in [Rings -> [Slots -> Items \cup {NoItem}]]
    BY <2>1, <2>2 DEF Shape
  <2>6. tail' \in [Rings -> Slots] /\ size' \in [Rings -> 0..Cap]
    BY <2>1, <2>2, <2>4, CapPos DEF Shape
  <2>7. RingInv'
    <3> SUFFICES ASSUME NEW p \in Rings
                 PROVE  (head'[p] + size'[p]) % Cap = tail'[p]
      BY DEF RingInv
    <3>1. CASE p = q
      <4>1. size'[q] = size[q] + 1 /\ tail'[q] = Succ(tail[q])
        BY <2>2 DEF Shape
      <4>2. head'[q] = head[q]
        OBVIOUS
      <4>3. head'[q] + size'[q] = head[q] + size[q] + 1
        BY <4>1, <4>2, <2>1, CapPos DEF Slots
      <4> QED
        BY <3>1, <4>1, <4>3, <2>3
    <3>2. CASE p # q
      BY <3>2, <2>2 DEF Shape, RingInv
    <3> QED
      BY <3>1, <3>2
  <2> QED
    BY <2>5, <2>6, <2>7 DEF Shape
<1> QED
  BY <1>1, <1>2

\* The result of the ring branch of dequeue_thread: a head, a size in
\* 0..MAX_QUEUE that still ends at tail, and a descriptor or NULL.  The skip
\* loop consumes exactly the slots it visits.
LEMMA DequeueResult ==
    ASSUME Shape, NEW q \in Rings
    PROVE  LET r == DequeueRing(q, head[q], size[q])
           IN  /\ r.head \in Slots
               /\ r.size \in 0..Cap
               /\ (r.head + r.size) % Cap = tail[q]
               /\ r.out \in Items \cup {NoItem}
<1>a. PICK h : h = head[q]
  OBVIOUS
<1>b. PICK n : n = size[q]
  OBVIOUS
<1> USE <1>a, <1>b
<1>1. h \in Slots /\ n \in 0..Cap /\ tail[q] \in Slots
      /\ slots[q] \in [Slots -> Items \cup {NoItem}]
  BY DEF Shape
<1>2. Span(q, h) = IF n = Cap THEN 0 ELSE n
  <2>1. Span(q, h) = n % Cap
    BY SpanSize
  <2> QED
    BY <1>1, <2>1, SizeMod
<1>3. tail[q] = (h + n) % Cap
  BY DEF Shape, RingInv
<1>c. PICK r : r = DequeueRing(q, h, n)
  OBVIOUS
<1> SUFFICES /\ r.head \in Slots
             /\ r.size \in 0..Cap
             /\ (r.head + r.size) % Cap = tail[q]
             /\ r.out \in Items \cup {NoItem}
  BY <1>c
<1>4. CASE LiveOffsets(q, h) = {}
  <2>1. DequeueRing(q, h, n)
          = [head |-> tail[q], size |-> n - Span(q, h), out |-> NoItem]
    BY <1>4 DEF DequeueRing
  <2>2. CASE n = Cap
    <3>0. tail[q] \in Int /\ 1 \in Int
      BY <1>1, CapPos DEF Slots
    <3>1. (tail[q] + 1 * Cap) % Cap = tail[q] % Cap
      BY <3>0, ModShift
    <3>2. tail[q] % Cap = tail[q]
      BY <1>1, SlotMod
    <3>3. r = [head |-> tail[q], size |-> Cap, out |-> NoItem]
      BY <1>c, <1>2, <2>1, <2>2, CapPos
    <3> QED
      BY <1>1, <3>1, <3>2, <3>3, CapPos
  <2>3. CASE n # Cap
    <3>1. r = [head |-> tail[q], size |-> 0, out |-> NoItem]
      BY <1>c, <1>1, <1>2, <2>1, <2>3, CapPos
    <3>2. tail[q] % Cap = tail[q]
      BY <1>1, SlotMod
    <3>3. r.head + r.size = tail[q]
      BY <1>1, <3>1 DEF Slots
    <3> QED
      BY <1>1, <3>1, <3>2, <3>3, CapPos
  <2> QED
    BY <2>2, <2>3
<1>5. CASE LiveOffsets(q, h) # {}
  <2>0. PICK k : k = CHOOSE i \in LiveOffsets(q, h) :
                          \A j \in LiveOffsets(q, h) : i <= j
    OBVIOUS
  <2>1. LiveOffsets(q, h) \subseteq 0..Span(q, h) - 1
    BY DEF LiveOffsets
  <2>2. LiveOffsets(q, h) \subseteq Nat
    BY <2>1, <1>1, <1>2, CapPos
  <2>3. k \in LiveOffsets(q, h)
    BY <1>5, <2>0, <2>2, LeastOffset
  <2>4. k \in 0..n - 1
    BY <2>1, <2>3, <1>1, <1>2
  <2>5. DequeueRing(q, h, n)
          = [head |-> (h + k + 1) % Cap, size |-> n - (k + 1),
             out |-> slots[q][(h + k) % Cap]]
    BY <1>5, <2>0 DEF DequeueRing
  <2>6. (h + k + 1) % Cap \in Slots /\ (h + k) % Cap \in Slots
    <3>1. h + k + 1 \in Int /\ h + k \in Int
      BY <1>1, <2>4, CapPos DEF Slots
    <3> QED
      BY <3>1, ModDef
  <2>7. (((h + k + 1) % Cap) + (n - (k + 1))) % Cap = (h + n) % Cap
    <3>0. h + k + 1 \in Int /\ n - (k + 1) \in Int
      BY <1>1, <2>4, CapPos DEF Slots
    <3>1. (((h + k + 1) % Cap) + (n - (k + 1))) % Cap
             = ((h + k + 1) + (n - (k + 1))) % Cap
      BY <3>0, ModAddLeft, Zenon
    <3>2. (h + k + 1) + (n - (k + 1)) = h + n
      <4>1. k \in Int /\ h \in Int /\ n \in Int
        BY <1>1, <2>4, CapPos DEF Slots
      <4> QED
        BY <4>1
    <3> QED
      BY <3>1, <3>2
  <2>8. r.head = (h + k + 1) % Cap /\ r.size = n - (k + 1)
        /\ r.out = slots[q][(h + k) % Cap]
    BY <1>c, <2>5
  <2>9. n - (k + 1) \in 0..Cap
    BY <1>1, <2>4, CapPos
  <2>10. slots[q][(h + k) % Cap] \in Items \cup {NoItem}
    BY <1>1, <2>6
  <2> QED
    BY <1>3, <2>6, <2>7, <2>8, <2>9, <2>10
<1> QED
  BY <1>4, <1>5

\* dequeue_thread on a ring keeps it well formed and returns a descriptor
\* or NULL.
LEMMA DequeueShape ==
    ASSUME Shape, NEW q \in Rings, DequeueThread(q),
           out \in [Rings -> Items \cup {NoItem}]
    PROVE  Shape' /\ out' \in [Rings -> Items \cup {NoItem}]
<1>1. PICK r : r = DequeueRing(q, head[q], size[q])
  OBVIOUS
<1>2. /\ r.head \in Slots
      /\ r.size \in 0..Cap
      /\ (r.head + r.size) % Cap = tail[q]
      /\ r.out \in Items \cup {NoItem}
  BY <1>1, DequeueResult
<1>3. /\ head' = [head EXCEPT ![q] = r.head]
      /\ size' = [size EXCEPT ![q] = r.size]
      /\ out' = [out EXCEPT ![q] = r.out]
      /\ UNCHANGED <<slots, tail>>
  BY <1>1 DEF DequeueThread
<1>4. head' \in [Rings -> Slots] /\ size' \in [Rings -> 0..Cap]
      /\ out' \in [Rings -> Items \cup {NoItem}]
  BY <1>2, <1>3 DEF Shape
<1>5. RingInv'
  <2> SUFFICES ASSUME NEW p \in Rings
               PROVE  (head'[p] + size'[p]) % Cap = tail'[p]
    BY DEF RingInv
  <2>1. CASE p = q
    <3>1. head'[q] = r.head /\ size'[q] = r.size /\ tail'[q] = tail[q]
      BY <1>3 DEF Shape
    <3> QED
      BY <2>1, <1>2, <3>1
  <2>2. CASE p # q
    BY <2>2, <1>3 DEF Shape, RingInv
  <2> QED
    BY <2>1, <2>2
<1> QED
  BY <1>3, <1>4, <1>5 DEF Shape

IInvShape == Shape /\ removed \subseteq Items
             /\ out \in [Rings -> Items \cup {NoItem}]

LEMMA IInvIsShape == IInv <=> IInvShape
  BY DEF IInv, IInvShape, TypeOK, Shape

LEMMA IInvInit == Init => IInv
<1> SUFFICES ASSUME Init PROVE IInvShape
  BY IInvIsShape
<1>1. 0 \in Slots /\ 0 \in 0..Cap /\ (0 + 0) % Cap = 0
  BY CapPos DEF Slots
<1> QED
  BY <1>1 DEF Init, IInvShape, Shape, RingInv

\* Every step of the rings keeps IInv.
LEMMA IInvNext == IInv /\ [Next]_vars => IInv'
<1> SUFFICES ASSUME IInvShape, [Next]_vars PROVE IInvShape'
  BY DEF IInv, IInvShape, TypeOK, Shape
<1>1. ASSUME NEW t \in Items, EnqueueThread(t) PROVE IInvShape'
  <2>0. "waiting" \in Rings /\ RingEnqueue("waiting", t) /\ head' = head
    BY <1>1 DEF EnqueueThread, Rings
  <2>1. Shape'
    BY <2>0, EnqueueShape DEF IInvShape
  <2>2. removed' \subseteq Items
    BY <1>1 DEF EnqueueThread, IInvShape
  <2> QED
    BY <1>1, <2>1, <2>2 DEF EnqueueThread, IInvShape
<1>2. ASSUME NEW t \in Items, ExitThread(t) PROVE IInvShape'
  <2>0. "exited" \in Rings /\ RingEnqueue("exited", t) /\ head' = head
    BY <1>2 DEF ExitThread, Rings
  <2>1. Shape'
    BY <2>0, EnqueueShape DEF IInvShape
  <2>2. removed' \subseteq Items
    BY <1>2 DEF ExitThread, IInvShape
  <2> QED
    BY <1>2, <2>1, <2>2 DEF ExitThread, IInvShape
<1>3. ASSUME NEW q \in Rings, DequeueThread(q) PROVE IInvShape'
  BY <1>3, DequeueShape DEF DequeueThread, IInvShape
<1>4. CASE UNCHANGED vars
  BY <1>4 DEF vars, IInvShape, Shape, RingInv
<1> QED
  BY <1>1, <1>2, <1>3, <1>4 DEF Next

-----------------------------------------------------------------------------

\* The ring arrays of enqueue_thread and dequeue_thread stay well typed
\* for every MAX_QUEUE: head and tail index a slot, size stays within
\* 0..MAX_QUEUE through the skip loop, and a dequeue returns a descriptor
\* or NULL.
THEOREM RingTypeCorrect == Spec => []TypeOK
<1>1. IInv => TypeOK
  BY DEF IInv
<1> QED
  BY <1>1, IInvInit, IInvNext, PTL DEF Spec

\* head, tail and size of each ring agree in every reachable state: the
\* size entries from head end at tail.
THEOREM RingIndicesAgree == Spec => []RingInv
<1>1. IInv => RingInv
  BY DEF IInv
<1> QED
  BY <1>1, IInvInit, IInvNext, PTL DEF Spec
====
