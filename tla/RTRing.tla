------------------------------- MODULE RTRing -------------------------------
(***************************************************************************)
(* The ring queues of rt_scheduler.c as the code lays them out:            *)
(* queue->threads[0..MAX_QUEUE-1] with head, tail and size, the ring       *)
(* branches of enqueue_thread, the ring branch of dequeue_thread with its  *)
(* TOBE_REMOVED skip, and rt_thread_exit, which marks a thread and puts it *)
(* on exited.  Two rings are composed: "waiting" stands for the arrival,   *)
(* waiting and sleeping branches (the same code, each writing its status), *)
(* and "exited", whose branch leaves the status alone.  A thread may wait  *)
(* on the waiting ring when rt_thread_exit marks it, which the waiting     *)
(* ring's skip then sees.                                                  *)
(*                                                                         *)
(* The ring branch of dequeue_thread is modelled with the test             *)
(* queue->type == WAITING_QUEUE: as written (`=`) line 757 does not        *)
(* compile (see README), and spec 4.1 reads it as `==`.                    *)
(***************************************************************************)
EXTENDS Integers, Sequences

CONSTANTS
    Items,          \* descriptors (rt_thread *)
    NoItem,         \* NULL, also the contents of a slot never written
    Cap             \* MAX_QUEUE

\* MAX_QUEUE is a positive array length; NULL is no descriptor.
ASSUME RingAssumption == Cap \in Nat \ {0} /\ NoItem \notin Items

Rings == {"waiting", "exited"}

VARIABLES
    slots,          \* queue->threads, per ring
    head,           \* queue->head, per ring
    tail,           \* queue->tail, per ring
    size,           \* queue->size, per ring
    removed,        \* descriptors whose status is TOBE_REMOVED
    out             \* the value the last dequeue of each ring returned

vars == <<slots, head, tail, size, removed, out>>

Slots == 0..Cap-1

\* The post-increment of head and tail without the wrap.
SuccNoWrap(i) == i + 1

\* The post-increment with wrap of head and tail.
Succ(i) == IF i + 1 = Cap THEN 0 ELSE i + 1

\* The entries of ring q, oldest first: size slots from head.
Entries(q) == [i \in 1..size[q] |-> slots[q][(head[q] + i - 1) % Cap]]

OnRing(q, t) == \E i \in 1..size[q] : Entries(q)[i] = t

\* The ring branch of dequeue_thread on ring q from head h with size n:
\* NULL when head == tail; otherwise take slot h, advance head, decrement
\* size, and dequeue again when the entry was TOBE_REMOVED.
\* Result [head, size, out].
DequeueRingNoSkip(q, h, n) ==
    IF h = tail[q] THEN [head |-> h, size |-> n, out |-> NoItem]
    ELSE [head |-> Succ(h), size |-> n - 1, out |-> slots[q][h]]

\* The slots from h up to tail[q], the ones the loop of dequeue_thread can
\* visit before it meets head == tail, as offsets from h.
Span(q, h) == (tail[q] - h) % Cap

\* The offsets of those slots whose descriptor is not TOBE_REMOVED.
LiveOffsets(q, h) ==
    {i \in 0..Span(q, h) - 1 : slots[q][(h + i) % Cap] \notin removed}

\* The dequeue with the size-- placed after the TOBE_REMOVED test, so that
\* the skipped slots are not counted out of size.
DequeueRingKeepSize(q, h, n) ==
    IF LiveOffsets(q, h) = {}
    THEN [head |-> tail[q], size |-> n, out |-> NoItem]
    ELSE LET k == CHOOSE i \in LiveOffsets(q, h) :
                      \A j \in LiveOffsets(q, h) : i <= j
         IN [head |-> (h + k + 1) % Cap, size |-> n - 1,
             out |-> slots[q][(h + k) % Cap]]

\* The loop formed by the tail call of dequeue_thread: skip the TOBE_REMOVED
\* entries, then take the first live one, or return NULL at head == tail
\* with every skipped slot consumed.
DequeueRing(q, h, n) ==
    IF LiveOffsets(q, h) = {}
    THEN [head |-> tail[q], size |-> n - Span(q, h), out |-> NoItem]
    ELSE LET k == CHOOSE i \in LiveOffsets(q, h) :
                      \A j \in LiveOffsets(q, h) : i <= j
         IN [head |-> (h + k + 1) % Cap, size |-> n - (k + 1),
             out |-> slots[q][(h + k) % Cap]]

Init ==
    /\ slots = [q \in Rings |-> [i \in Slots |-> NoItem]]
    /\ head = [q \in Rings |-> 0]
    /\ tail = [q \in Rings |-> 0]
    /\ size = [q \in Rings |-> 0]
    /\ removed = {}
    /\ out = [q \in Rings |-> NoItem]

\* A ring branch of enqueue_thread on ring q: drop when size == MAX_QUEUE;
\* else size++, pos = tail++ with wrap, and write the slot.
RingEnqueue(q, t) ==
    IF size[q] = Cap
    THEN UNCHANGED <<slots, tail, size>>
    ELSE /\ size' = [size EXCEPT ![q] = @ + 1]
         /\ tail' = [tail EXCEPT ![q] = Succ(@)]
         /\ slots' = [slots EXCEPT ![q][tail[q]] = t]

\* enqueue_thread on the waiting ring, which also sets the status (WAITING,
\* or ARRIVED and SLEEPING on the other two rings) unless the ring is full.
\* A thread waits on a ring when it is on no queue (spec 2: one
\* current_queue tag), and a thread that has exited does not wait again.
EnqueueThread(t) ==
    /\ ~OnRing("waiting", t)
    /\ t \notin removed
    /\ RingEnqueue("waiting", t)
    /\ removed' = IF size["waiting"] = Cap THEN removed ELSE removed \ {t}
    /\ UNCHANGED <<head, out>>

\* rt_thread_exit: status = TOBE_REMOVED, then enqueue_thread(exited).
ExitThread(t) ==
    /\ t \notin removed
    /\ removed' = removed \cup {t}
    /\ RingEnqueue("exited", t)
    /\ UNCHANGED <<head, out>>

DequeueThread(q) ==
    LET r == DequeueRing(q, head[q], size[q])
    IN /\ head' = [head EXCEPT ![q] = r.head]
       /\ size' = [size EXCEPT ![q] = r.size]
       /\ out' = [out EXCEPT ![q] = r.out]
       /\ UNCHANGED <<slots, tail, removed>>

Next ==
    \/ \E t \in Items : EnqueueThread(t) \/ ExitThread(t)
    \/ \E q \in Rings : DequeueThread(q)

Spec == Init /\ [][Next]_vars

-----------------------------------------------------------------------------

TypeOK ==
    /\ slots \in [Rings -> [Slots -> Items \cup {NoItem}]]
    /\ head \in [Rings -> Slots]
    /\ tail \in [Rings -> Slots]
    /\ size \in [Rings -> 0..Cap]
    /\ removed \subseteq Items
    /\ out \in [Rings -> Items \cup {NoItem}]

\* head, tail and size of each ring agree: the size entries from head end
\* at tail.  enqueue_thread moves tail and size, dequeue_thread moves head
\* and size once per slot its skip loop visits, and nothing else relates
\* them.
RingInv == \A q \in Rings : (head[q] + size[q]) % Cap = tail[q]

\* Each ring implements the bounded FIFO of spec 4.1: a dequeue returns the
\* oldest live entry and discards the TOBE_REMOVED ones before it, across
\* every wrap of head and tail and every rt_thread_exit of a waiting thread.
WaitingQ == INSTANCE RingQueue
    WITH fifo <- Entries("waiting"), out <- out["waiting"], SetsStatus <- TRUE

ExitedQ == INSTANCE RingQueue
    WITH fifo <- Entries("exited"), out <- out["exited"], SetsStatus <- FALSE

Refines == WaitingQ!Spec /\ ExitedQ!Spec

\* Spec 4.2: the housekeeper removes exited threads by dequeuing the exited
\* ring, so a dequeue of a non-empty exited ring hands it a thread.
ExitedHandedOver ==
    [][DequeueThread("exited") /\ size["exited"] > 0 =>
         out'["exited"] \in Items]_vars
====
