------------------------------- MODULE RTHeap -------------------------------
(***************************************************************************)
(* The array heaps of rt_scheduler.c (runnable, pending, aperiodic) as the *)
(* code lays them out: queue->threads[0..MAX_QUEUE-1] and queue->size,     *)
(* with enqueue_thread's sift-up, dequeue_thread's sift-down and its       *)
(* TOBE_REMOVED skip.  The three heaps run the same code on different     *)
(* keys (deadline for runnable and pending, constraints->aperiodic.        *)
(* priority for aperiodic), so one module parameterised by the key stands  *)
(* for all three.                                                          *)
(*                                                                         *)
(* Slots at and above size keep what was last written there: the code     *)
(* never clears them, and dequeue's sift-down reads slot size.             *)
(***************************************************************************)
EXTENDS Integers, FiniteSets

CONSTANTS
    Items,          \* descriptors (rt_thread *)
    NoItem,         \* NULL, also the contents of a slot never written
    Cap,            \* MAX_QUEUE
    Keys,           \* the values a key may take
    RekeyQueued     \* descriptors whose key the caller rewrites while queued

ASSUME HeapAssumption ==
    /\ Cap \in Nat \ {0}
    /\ NoItem \notin Items
    /\ Keys \subseteq Nat
    /\ RekeyQueued \subseteq Items

VARIABLES
    arr,            \* queue->threads
    size,           \* queue->size
    key,            \* deadline or priority of every descriptor
    removed,        \* descriptors whose status is TOBE_REMOVED
    out             \* the value the last dequeue returned

vars == <<arr, size, key, removed, out>>

Slots == 0..Cap-1

\* The index macros parent, left_child and right_child (lines 33-35).
Parent(i) == IF i # 0 THEN (i - 1) \div 2 ELSE 0
Left(i) == 2 * i + 1
Right(i) == 2 * i + 2

\* One turn of the while loop of enqueue_thread on its variables v
\* (queue->threads as v.arr, pos as v.pos) for the new entry t: move the
\* parent down while its key is greater than t's and pos is not the root.
\* A turn once the loop has exited leaves v as it is.
SiftUpTurn(v, t) ==
    IF key[v.arr[Parent(v.pos)]] > key[t] /\ v.pos # Parent(v.pos)
    THEN [arr |-> [v.arr EXCEPT ![v.pos] = v.arr[Parent(v.pos)]],
          pos |-> Parent(v.pos)]
    ELSE v

\* The loop's variables after n turns, from queue->threads = a and pos.
SiftUpRun(a, pos, t) ==
    LET s[n \in Nat] == IF n = 0 THEN [arr |-> a, pos |-> pos]
                        ELSE SiftUpTurn(s[n - 1], t)
    IN  s

\* The sift-up of enqueue_thread: pos falls at every turn, so after Cap
\* turns the loop has exited; then t is written at pos.
SiftUp(a, pos, t) ==
    LET r == SiftUpRun(a, pos, t)[Cap]
    IN  [r.arr EXCEPT ![r.pos] = t]

\* Mutant: the child choice reduced to the left child.
ChildLeft(b, i) == Left(i)

\* The child the for loop of dequeue_thread moves up from node i of array
\* b: the right child when its key is smaller.  The test child < size
\* always holds, so the right child is read even when it is slot size,
\* which still holds last.
Child(b, i) == IF key[b[Right(i)]] < key[b[Left(i)]] THEN Right(i) ELSE Left(i)

\* One turn of the for loop of dequeue_thread over a heap of n entries, on
\* its variables v (queue->threads, now, and whether it has broken out):
\* while left_child(now) < n, move the chosen child up if last's key is
\* greater, else break.
SiftDownTurn(v, n, last) ==
    IF ~v.done /\ Left(v.now) < n
    THEN IF key[last] > key[v.arr[Child(v.arr, v.now)]]
         THEN [arr  |-> [v.arr EXCEPT ![v.now] = v.arr[Child(v.arr, v.now)]],
               now  |-> Child(v.arr, v.now),
               done |-> FALSE]
         ELSE [v EXCEPT !.done = TRUE]
    ELSE v

\* The loop's variables after k turns, from queue->threads = a and now.
SiftDownRun(a, now, n, last) ==
    LET s[k \in Nat] == IF k = 0 THEN [arr |-> a, now |-> now, done |-> FALSE]
                        ELSE SiftDownTurn(s[k - 1], n, last)
    IN  s

\* The sift-down of dequeue_thread: now rises at every turn that does not
\* exit, so Cap turns reach the exit; then last is written at now.
SiftDown(a, now, n, last) ==
    LET r == SiftDownRun(a, now, n, last)[Cap]
    IN  [r.arr EXCEPT ![r.now] = last]

\* dequeue_thread without the TOBE_REMOVED test: the root is returned.
DequeueArrNoSkip(a, n) ==
    IF n < 1 THEN [arr |-> a, size |-> n, out |-> NoItem]
    ELSE [arr |-> SiftDown(a, 0, n - 1, a[n - 1]), size |-> n - 1,
          out |-> a[0]]

\* One call of dequeue_thread on its variables v (queue->threads, size,
\* the descriptor returned, and whether it has returned): NULL when the
\* heap is empty; otherwise take the root and move the last entry down
\* from the root.  A TOBE_REMOVED root makes it call itself again, the
\* next turn; a turn once it has returned leaves v as it is.
DequeueTurn(v) ==
    IF v.done THEN v
    ELSE IF v.size < 1 THEN [v EXCEPT !.out = NoItem, !.done = TRUE]
    ELSE [arr  |-> SiftDown(v.arr, 0, v.size - 1, v.arr[v.size - 1]),
          size |-> v.size - 1,
          out  |-> v.arr[0],
          done |-> v.arr[0] \notin removed]

\* The variables after k calls, from queue->threads = a and size n.
DequeueRun(a, n) ==
    LET s[k \in Nat] == IF k = 0 THEN [arr |-> a, size |-> n, out |-> NoItem,
                                       done |-> FALSE]
                        ELSE DequeueTurn(s[k - 1])
    IN  s

\* dequeue_thread on a heap of n <= Cap entries: every call but the last
\* removes an entry, so Cap + 1 calls reach the return.  Result
\* [arr, size, out].
DequeueArr(a, n) ==
    LET r == DequeueRun(a, n)[Cap + 1]
    IN  [arr |-> r.arr, size |-> r.size, out |-> r.out]

\* The entries of the heap.
Count(t) == Cardinality({i \in 0..size-1 : arr[i] = t})

Queued(t) == \E i \in 0..size-1 : arr[i] = t

Init ==
    /\ arr = [i \in Slots |-> NoItem]
    /\ size = 0
    /\ key \in [Items -> Keys]
    /\ removed = {}
    /\ out = NoItem

\* enqueue_thread without its MAX_QUEUE test.
EnqueueThreadNoFullCheck(t) ==
    /\ arr' = SiftUp([arr EXCEPT ![size] = t], size, t)
    /\ size' = size + 1
    /\ UNCHANGED <<key, removed, out>>

\* enqueue_thread on a heap: a full queue drops the thread; otherwise write
\* it at slot size and sift it up.  (The q_type tag it sets is read only by
\* remove_thread, which is not modelled: see README.)
EnqueueThread(t) ==
    /\ IF size = Cap
       THEN UNCHANGED <<arr, size>>
       ELSE /\ arr' = SiftUp([arr EXCEPT ![size] = t], size, t)
            /\ size' = size + 1
    /\ UNCHANGED <<key, removed, out>>

DequeueThread ==
    LET r == DequeueArr(arr, size)
    IN /\ arr' = r.arr
       /\ size' = r.size
       /\ out' = r.out
       /\ UNCHANGED <<key, removed>>

\* rt_thread_exit: the status becomes TOBE_REMOVED (the entry stays).
Exit(t) ==
    /\ t \notin removed
    /\ removed' = removed \cup {t}
    /\ UNCHANGED <<arr, size, key, out>>

\* The caller rewrites a key: update_periodic sets the deadline of a
\* thread it has dequeued; the aperiodic branch of rt_need_resched sets
\* the running thread's priority, which is queued as well when it is the
\* bootstrap thread.
Rekey(t, k) ==
    /\ ~Queued(t) \/ t \in RekeyQueued
    /\ key' = [key EXCEPT ![t] = k]
    /\ UNCHANGED <<arr, size, removed, out>>

Next ==
    \/ \E t \in Items : EnqueueThread(t)
    \/ DequeueThread
    \/ \E t \in Items : Exit(t)
    \/ \E t \in Items, k \in Keys : Rekey(t, k)

Spec == Init /\ [][Next]_vars

-----------------------------------------------------------------------------

TypeOK ==
    /\ arr \in [Slots -> Items \cup {NoItem}]
    /\ size \in 0..Cap
    /\ \A i \in 0..size-1 : arr[i] \in Items
    /\ key \in [Items -> Keys]
    /\ removed \subseteq Items
    /\ out \in Items \cup {NoItem}

\* Heap order (spec I2): no entry of runnable, pending or aperiodic has a
\* smaller key than its parent, after any sequence of enqueue_thread,
\* dequeue_thread (with its skips and its read of slot size) and key
\* rewrites the callers make.
HeapOrdered ==
    \A i \in 1..size-1 : key[arr[Parent(i)]] <= key[arr[i]]

\* The array heap implements the multiset queue: every dequeue_thread
\* returns a live entry of least key, or NULL when none is left.
HQ == INSTANCE HeapQueue WITH bag <- [t \in Items |-> Count(t)]

Refines == HQ!Spec

====
