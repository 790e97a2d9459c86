# TLA+ models of the Nautilus real-time scheduler

This directory holds a TLA+ model of the per-CPU real-time scheduler in
`src/nautilus/src/nautilus/rt_scheduler.c`. It has TLC configurations that
check the model on small instances, and TLAPS proofs of what holds for every
instance. `src/nautilus/src/test/custom_mapper.cc` is a Legion mapper example
that shares nothing with the scheduler.

## The system

The scheduler keeps one `rt_scheduler` per CPU with these queues:

- three binary heaps:
  - `runnable`, keyed by deadline, holds released periodic threads and
    sporadic jobs;
  - `pending`, keyed by deadline, holds periodic threads waiting for their
    next release;
  - `aperiodic`, keyed by priority, holds best-effort threads;
- rings: `arrival`, `waiting`, `sleeping`, `exited` and `trash`.

Each thread descriptor (`rt_thread`) has a class (PERIODIC, SPORADIC or
APERIODIC), constraints (period and slice, work, or priority), a deadline, a
run time and a status (ARRIVED, ADMITTED, TOBE_REMOVED).

The operations:

- `rt_scheduler_init` builds the queues and puts the bootstrap thread on
  `aperiodic`.
- `rt_thread_init` builds a descriptor and sets its first deadline.
- `rt_admit` is the utilisation test:
  - periodic: `get_per_util` over `runnable` and `pending`, plus the new
    thread's `slice*100000/period`, must be at most `PERIODIC_UTIL`;
  - sporadic: `get_spor_util`, the sum of `work*100000/(deadline-now)` over
    `runnable`, must be at most `SPORADIC_UTIL`.
- `rt_thread_exit` marks a thread TOBE_REMOVED and pushes it on `exited`.
- `rt_need_resched` is the dispatcher. The timer interrupt or a yield calls
  it, with interrupts off. It runs in three parts:
  1. It drains `pending`: while the root's deadline is `< end_time`, it
     dequeues the root, runs `update_periodic` on it and enqueues it on
     `runnable`.
  2. It switches on the current thread's class:
     - aperiodic: the current thread goes back on `aperiodic` with its run
       time as priority, and `runnable` (else `aperiodic`) supplies the next
       thread;
     - sporadic with its work done: the job is dropped and the next thread
       is picked the same way;
     - periodic with its slice used: `check_deadlines` decides between
       `update_periodic` followed by `runnable`, or parking on `pending`;
     - otherwise: the current thread is preempted if the `runnable` root has
       an earlier deadline.
  3. Every branch ends in `set_timer`. It arms the one-shot APIC timer with
     `umin(pending.root.deadline - end_time, budget - run_time)`, or with
     `QUANTUM` for aperiodic threads.
- `dequeue_thread` skips a root that is TOBE_REMOVED by dequeuing again.

The housekeeper (`rt_start` and `sched_sim`) was meant to admit arrivals and
free exited threads. Even if it ran, it would find no exited thread:
`rt_thread_exit` marks a thread TOBE_REMOVED before it enqueues it on
`exited`, and the ring dequeue skips TOBE_REMOVED entries (run
exited_ring_unreadable). Its inner loop `while (d != NULL)` never advances
`d`. `remove_thread` tests `queue->type` with `queue` still NULL for every
ring thread (line 535), and its heap branches take the root whatever thread
they are asked for (line 410). The housekeeper never gets there anyway: `sched_sim` enters
`while(1){printk; udelay}` at line 1295, before that loop. The same holds for
the admission simulator (`*_logic`, `copy_threads_sim`) and `remove_thread`,
which only that loop calls. The thread layer that bills run time, takes the
timer interrupt and context-switches lives in `thread.c`, which is not in
`src/`. Where the model needs it, the model follows `spec.md`, and those
definitions are marked `spec_modelled` in `PROJECT.json`.

## Modules

| module | models |
|---|---|
| `RTScheduler` | the dispatcher, heap queues, set_timer, admission, creation and exit |
| `MC_RTScheduler` | small instances for TLC (model values, constant functions) |
| `RTSchedulerProofs` | TLAPS lemmas on the queue operations and the type-correctness theorem |
| `RTSchedulerBudget` | TLAPS proof of `TimerWithinBudget` and of "no thread in two places" from an inductive invariant |
| `SumLemmas` | TLAPS lemmas on `SumFunction` (the heap's `size`): it is a natural, bounds each value, grows with its argument, changes by the difference of one updated value, and counts a set |
| `RTSchedulerAccount` | TLAPS proof of `ThreadAccounted` and `FallbackAvailable` when every heap has room for each thread and one more |
| `HeapQueue` | what a heap queue promises: a multiset of entries, least live key first |
| `RTHeap` | one heap array as the code lays it out: `enqueue_thread`'s sift-up, `dequeue_thread`'s sift-down and skip; refines `HeapQueue` |
| `MC_RTHeap` | a small instance of `RTHeap` |
| `RTHeapProofs` | TLAPS: the sift loops' invariants, `TypeOK` and `HeapOrdered` of every heap, and what `dequeue_thread` returns, for every `MAX_QUEUE` |
| `RingQueue` | what a ring queue promises: a bounded FIFO whose dequeue discards TOBE_REMOVED entries |
| `RTRing` | the waiting ring and the exited ring as arrays with head, tail and size, and `rt_thread_exit`; each ring refines `RingQueue` |
| `MC_RTRing` | a small instance of `RTRing` |
| `RTRingProofs` | TLAPS: modular arithmetic of the ring indices, `TypeOK` and `RingInv` for every `MAX_QUEUE` |
| `RTRingRefinement` | TLAPS: no duplicate entries, and each ring refines `RingQueue`, for fewer descriptors than slots |

`RTScheduler` is the composition the dispatcher sees: the three heaps as
multisets, the dispatcher, admission and exit. `RTHeap` and `RTRing` look
inside one queue each. Each is shown to implement an abstract queue
(`HeapQueue`, `RingQueue`). The abstract queue says what `RTScheduler`
assumes of a queue. `HeapQueue`'s dequeue is the same as `RTScheduler`'s
`DequeueFrom` when a removed descriptor has at most one entry, and in
`RTScheduler` that holds for every descriptor that can be removed: only the
bootstrap thread is ever queued twice, and it never exits.

### RTScheduler: state

| variable | code |
|---|---|
| `now` | `cur_time()` (rdtsc), bounded by `MaxTime` |
| `phase` | where the CPU is: `run` (a thread runs), `drain` (the release loop), `select` (the class switch), `panic`, `fault` (divide error in admission) |
| `cur` | `get_cur_thread()->rt_thread` |
| `status` | `thread->status`, plus `Unborn` for a descriptor not yet created |
| `runnable`, `pending`, `aperiodic` | the heaps, as a count of entries per descriptor |
| `exited` | the exited ring, as a sequence |
| `runTime`, `deadline`, `prio` | `run_time`, `deadline`, `constraints->aperiodic.priority` |
| `expiry` | the cycle at which the one-shot timer fires, or `Disarmed` |

The heaps are multisets, not arrays. Taking the root is "some entry of least
key". A descriptor entered twice shows up as a count of 2, so the model can
see a duplicate but not heap order. `DequeueFrom` models the TOBE_REMOVED skip.
It pops the root; when that root is removed, the result is a least-key live
entry. Removed entries of smaller key are discarded, and tied ones may or may
not be, as the sift order decides.

`Word` is 2^64 in the code, and the unsigned differences of `set_timer` and
`get_spor_util` are taken `% Word`. MC uses 2^30. A wrapped difference is then
far above every time the model reaches, which is all the code depends on.

### RTScheduler: actions

- `Tick` bills one cycle to the running thread while its timer has not
  fired. It is spec_modelled, because the billing is in the thread layer.
- `TimerInterrupt` and `Yield` enter `rt_need_resched`.
- `ReleaseStep` is one turn of the release loop (lines 995-1008), and
  `ReleaseDone` is its exit.
- One action per branch of the switch (lines 1014-1114):
  - `ScheduleAperiodic`;
  - `ScheduleSporadicDone`;
  - `SchedulePreempt` (either class, budget left, earlier root);
  - `ScheduleKeep`;
  - `SchedulePeriodicDone`.

  Each calls `Dispatch`, which is `set_timer` plus the return, or the panic.
  The shared tail "runnable, else aperiodic" is `Pick`.
- `CreateThread(t)` is `rt_thread_init`, then `rt_admit`, then parking the
  admitted thread on its queue (the parking is spec_modelled). A zero divisor
  in `get_spor_util` goes to phase `fault`.
- `ExitThread(t)` is `rt_thread_exit`. The bootstrap thread never exits.

### RTHeap: state and actions

| variable | code |
|---|---|
| `arr` | `queue->threads[0..MAX_QUEUE-1]`, slots above `size` keeping what was last written |
| `size` | `queue->size` |
| `key` | `deadline` (runnable, pending) or `constraints->aperiodic.priority` (aperiodic) |
| `removed` | descriptors whose status is TOBE_REMOVED |
| `out` | what the last `dequeue_thread` returned |

- `EnqueueThread(t)`: the full-queue drop, writing slot `size`, and the
  `while` loop of sift-up (`SiftUp`, with the `parent` macro and its
  `pos != parent(pos)` stop at the root).
- `DequeueThread`: `DequeueArr` takes the root and moves the last entry down
  (`SiftDown`, the `for` loop of lines 659-674). It dequeues again when the
  root was TOBE_REMOVED.
- Each loop is one turn (`SiftUpTurn`, `SiftDownTurn`, and `DequeueTurn`
  for one call of `dequeue_thread`) and a recursive function over the
  number of turns (`SiftUpRun`, `SiftDownRun`, `DequeueRun`). A turn after
  the loop has ended changes nothing. `MAX_QUEUE` turns end each sift, and
  `MAX_QUEUE + 1` calls end the dequeue: every call that does not return
  removes an entry. There are no RECURSIVE operators, so TLAPS can reason
  about the loops. An earlier version wrote the loops as RECURSIVE
  operators. TLC found both versions equal on every array of four slots
  over three descriptors, and of seven slots over two, for all keys in
  0..2 and all sets of removed descriptors. The loop's `child < queue->size` test always holds,
  so the right child is compared even when it is slot `size`. That slot
  still holds `last`, so the read is harmless, which TLC confirms.
- `Exit(t)` is the status write of `rt_thread_exit`.
- `Rekey(t, k)` is a caller rewriting a key: `update_periodic` on a thread it
  has dequeued, and case APERIODIC on the running thread. The constant
  `RekeyQueued` names the descriptors whose key is rewritten while they are
  queued. In the code that is only the bootstrap thread (line 237, then line
  1016).
- `rt_scheduler_init` clears the array with `ZERO_QUEUE` (lines 179,
  183-190), so the model starts every slot at NULL.

### RTRing: state and actions

| variable | code |
|---|---|
| `slots`, `head`, `tail`, `size` | the fields of the `waiting` and `exited` rings |
| `removed` | descriptors whose status is TOBE_REMOVED (shared by both rings) |
| `out` | what the last `dequeue_thread` of each ring returned |

- `EnqueueThread(t)` is the waiting-ring branch of `enqueue_thread`. Its
  code is the same as the arrival and sleeping branches: drop when full,
  `size++`, `pos = tail++` with the wrap (`Succ`), status write, slot
  write.
- `ExitThread(t)` is `rt_thread_exit`: status TOBE_REMOVED, then the
  exited-ring branch, which writes no status.
- `DequeueThread(q)` is the ring branch of `dequeue_thread`
  (`DequeueRing`): NULL when `head == tail`, else take slot `head`, advance
  and wrap `head`, `size--`, and dequeue again past a TOBE_REMOVED entry.
  The tail call is a loop over the slots from `head` to `tail`, and
  `DequeueRing` states its result in closed form. `Span(q, h)` counts the
  slots the loop can visit, `(tail - h) % MAX_QUEUE`. `LiveOffsets(q, h)`
  is the set of those slots whose entry is not TOBE_REMOVED. The loop
  returns the first live slot, with `head` past it and `size` reduced by
  one per slot visited. With no live slot, it stops at `head == tail` with
  `Span` slots consumed. During development TLC compared this form with
  the recursive one on every reachable state for `MAX_QUEUE` 2 to 4, full
  rings included, and found them equal. The closed form is what lets
  TLAPS reason about the ring.
- Line 757 reads `queue->type == ARRIVAL_QUEUE || queue->type = WAITING_QUEUE
  || ...`. C parses this as `(... || queue->type) = (...)`, which is not an
  lvalue, and gcc rejects it ("lvalue required as left operand of
  assignment"). So the file does not compile as written, and no Makefile
  under `src/` builds it. The model reads the test as `==`, as spec 4.1
  does.

## Runs

All runs use `MC_RTScheduler` with a bootstrap aperiodic thread and periodic
threads p1 (period 4, slice 1) and p2 (period 5, slice 2). Their
utilisations sum to exactly `PERIODIC_UTIL`. There is one sporadic thread s1
(work 1, relative deadline 3), plus a second one (s2) in `MC_SporFault`. The
bounds are `QUANTUM` 2, `MAX_QUEUE` 5 and `MaxTime` 8. With these, every
thread can be released, preempted, finish, miss or meet its deadline, and
exit within two periods of p1.

| run | cfg | expect | what it shows |
|---|---|---|---|
| dispatcher_safety | `MC_RTScheduler.cfg` | pass, 1.2M states | `TypeOK`; `ThreadAccounted`: no thread lost or doubled; `FallbackAvailable`: no panic; `TimerWithinBudget`: a dispatched RT thread has budget left, and the timer ends within it |
| edf_preempt_skip | `MC_EDF.cfg` | violation | `EDFDispatch`: the preemption peek and the skip disagree, so a later deadline preempts |
| early_release | `MC_Release.cfg` | violation | `ReleaseWhenDue`: the drain releases a thread whose deadline has not come |
| release_due_now | `MC_PendingFuture.cfg` | violation | `PendingInFuture`: a release due now stays on pending, and the timer is stopped |
| removed_dispatch | `MC_NoRemoved.cfg` | violation | `NoRemovedDispatch`: an exiting thread stays on the CPU (spec P7) |
| util_running | `MC_Util.cfg` | violation | `AdmittedUtilBound`: the running thread is left out of the admission sum (spec P3) |
| sporadic_divzero | `MC_SporFault.cfg` | violation | `AdmissionNoFault`: `get_spor_util` divides by zero |
| met_deadline_parked | `MC_MetRelease.cfg` | violation | `PeriodicMetReleased`: the met and missed branches are the reverse of spec 4.2 |

The heap and ring runs:

| run | cfg | expect | what it shows |
|---|---|---|---|
| heap_array_safety | `MC_RTHeap.cfg` | pass, 548K states | `TypeOK`; `HeapOrdered` (spec I2); `Refines`: the array heap implements `HeapQueue`, so every dequeue returns a live entry of least key |
| heap_rekey_queued | `MC_HeapRekey.cfg` | violation | `Refines` with `RekeyQueued = {main}`: the bootstrap thread's queued copy keeps the root after its priority is rewritten, and is dequeued ahead of a smaller priority |
| ring_fifo | `MC_RTRing.cfg` | pass, 102K states | `TypeOK`; `RingInv`: `size` entries from `head` end at `tail`; `Refines`: both rings implement `RingQueue` across wraps and exits |
| exited_ring_unreadable | `MC_ExitedRing.cfg` | violation | `ExitedHandedOver`: every exited entry is TOBE_REMOVED, so the exited ring dequeues NULL |

`MC_RTHeap` has three descriptors, four slots and keys 0..2. That gives
ties, sift-downs over two levels, the right-child read of slot `size`, and
removed roots. `MC_RTRing` has three descriptors and rings of four slots.
A thread may wait again after it is dequeued, so the waiting ring's `head`
and `tail` wrap. Neither ring fills. A full ring has `head == tail` with
`size == MAX_QUEUE`, which breaks spec 3's "size == 0 iff head == tail", and
the ring dequeue then returns NULL from a full ring. The refinement would
fail there for that reason, so the runs stay below it, and `PROJECT.json`
lists the full ring as a hazard with no run.

Each passing property has a mutant in `PROJECT.json` that TLC catches:

| mutant | property it breaks |
|---|---|
| run time carried over at release | `TypeOK` |
| preempted thread not re-enqueued | `ThreadAccounted` |
| NULL check dropped | `FallbackAvailable` |
| run time not reset at release | `TimerWithinBudget` |
| heap enqueue without the full test | `TypeOK` (RTHeap) |
| sift-down that only looks at the left child | `HeapOrdered` |
| heap dequeue without the TOBE_REMOVED skip | `Refines` (RTHeap) |
| ring `tail++` without the wrap | `TypeOK` (RTRing) |
| ring dequeue with `size--` after the TOBE_REMOVED test, so skipped slots are not counted | `RingInv` |
| ring dequeue without the TOBE_REMOVED skip | `Refines` (RTRing) |

No fairness is assumed, and no liveness property is checked yet.

## Proofs

`RTSchedulerProofs` proves `THEOREM TypeCorrect == Spec => []TypeOK` for
every value of the constants that satisfies `SchedAssumption`. `TypeOK` is
inductive by itself. The proof has one step per action. It rests on these
lemmas:

- `EnqueueType`, `DequeueFromType`, `DequeueType` and `PickType`: the heap
  operations keep counts of entries, and a dequeue returns a descriptor or
  NULL.
- `RootExists`: a heap with an entry has a root. This follows from the
  well-foundedness of `<` on Nat (`WFMin`), and gives `set_timer` a pending
  root to read.
- `UpdatePeriodicType` and `TimerIntervalType`.
- `DispatchType`: the end of every branch.

`RTSchedulerBudget` proves three more theorems for every instance that
also satisfies `WordAssumption` (`slice` and `work` are below the word
size, as they are for `uint64_t`):

- `TimerBudget == Spec => TimerWithinBudget`. It is the property the
  `dispatcher_safety` run checks.
- `NoThreadDuplicated`: apart from the bootstrap thread, no descriptor is
  ever in two places. A place is a heap entry or the CPU. This is the
  first half of `ThreadAccounted`.
- `BudgetInvariant == Spec => []BudgetInv`. The other two rest on it.

`TimerWithinBudget` is not inductive by itself. A dispatched thread comes
off `runnable`, so the proof must know that every runnable entry still has
budget. That in turn fails on a tick unless the running thread has no
runnable entry. `BudgetInv` therefore says:

- a descriptor not yet created is nowhere;
- every descriptor but the bootstrap one is in at most one place, so the
  running thread has no runnable entry (`CurNotRunnable`);
- every runnable entry is periodic or sporadic, with `runTime < Budget`;
- pending holds only periodic threads, and aperiodic only aperiodic ones.

TLC checked `BudgetInv` as an invariant on the `dispatcher_safety` instance
(1.2M states) before it was proved.

The proof of `BudgetNext` has one lemma per action. Each branch of
`rt_need_resched` goes through `DispatchStep`. `DispatchStep` takes, as
hypotheses, the facts a branch must supply about the queues it hands to
`Dispatch`:

- no more places than at the start of the step;
- runnable entries with budget;
- a chosen thread with budget unless it is aperiodic.

The counting lemmas supply those facts:

- `EnqueueCount`: `enqueue_thread` adds at most one entry.
- `DequeueFromCount`, `DequeueCount` and `PickCount`: a dequeue moves one
  entry of the thread it returns onto the CPU, and the TOBE_REMOVED skip
  only removes entries.

`TimerBound` is the unsigned arithmetic of `set_timer`. With
`0 < slice - run_time < 2^64`, the modulus is the identity. `umin` then
keeps the interval within the remaining budget.

### Accounting: no thread lost, no panic

`RTSchedulerAccount` proves the two properties of `dispatcher_safety` that
`RTSchedulerBudget` leaves open, under one hypothesis on the constants:

```
Room == IsFiniteSet(Threads) /\ Cardinality(Threads) < MaxQueue
```

- `ThreadsAccounted == ASSUME Room PROVE Spec => []ThreadAccounted`;
- `NeverPanics == ASSUME Room PROVE Spec => []FallbackAvailable`.

Why `Room` is needed. `enqueue_thread` drops its argument when the heap is
full (`Enqueue` returns the heap unchanged), and that silently loses a
thread. In the model, every heap holds at most one entry of each thread.
The one exception is the bootstrap thread: `rt_scheduler_init` leaves it on
aperiodic while it runs, so it can hold two entries there. One entry per
thread plus one more therefore always fits. `Room` is sufficient, not
necessary. The MC instance has 4 threads and `MAX_QUEUE = 5`, so it
satisfies `Room`. TLC also found the invariant below to hold with
`MAX_QUEUE = 4`. The code's `MAX_QUEUE` is 256
(`rt_scheduler.c:72`).

The inductive invariant `AccInv` strengthens `BudgetInv` with these facts:

- the bootstrap thread is admitted and has exactly two places: running
  and one aperiodic entry, or two aperiodic entries;
- every other admitted thread whose sporadic job is not done has exactly
  one place;
- the phase is not the panic.

`ThreadAccounted` follows because the bootstrap thread's two places put
it on aperiodic whenever it is not running, and `FallbackAvailable` is a
conjunct. TLC checked `AccInv` as an invariant on the `dispatcher_safety`
instance (1.2M states) before it was proved.

The step lemmas count exactly where `RTSchedulerBudget` only bounds:

- `EnqueueExact`: on a heap that is not full, `enqueue_thread` adds one
  entry.
- `QueueRoom`: a heap with at most one entry per thread, and two of the
  bootstrap thread only when some other thread has none, is not full.
- `DequeueFromExact`, `DequeueExact` and `PickExact`: a dequeue moves
  exactly one entry of the thread it returns, and discards only
  TOBE_REMOVED entries. A heap holding a live entry never yields NULL, so
  the tail "runnable, else aperiodic" of every branch finds a thread while
  the bootstrap thread is on aperiodic.
- `DispatchAcc` is the end of every branch: the bootstrap thread keeps
  two places, and every live admitted thread keeps at least one.

There is one lemma per action: `TickAcc` (run time only grows, so a
finished job stays finished), `EntryAcc`, `ReleaseStepAcc` (the released
thread is periodic, so resetting its run time ends no job),
`CreateThreadAcc`, `ExitThreadAcc`, and one per branch of
`rt_need_resched`. `AccNext` and `AccInit` combine them.

`Size` is `SumFunction` of the community module Functions, a fold.
`SumLemmas` unfolds it once with `WFInductiveDef` over strict inclusion of
subsets. It proves each fact by induction over the subsets of the domain
(`SumInduct`), where the property is given as a set
`G == {s \in SUBSET T : P(s)}` and not as an operator parameter. That is
what lets the installed provers instantiate the induction. It proves:

- `SumFunctionNat`: the sum is a natural;
- `SumFunctionGe`: the sum bounds each value;
- `SumFunctionMono`: the sum grows with its argument;
- `SumFunctionUpdate`: updating one value changes the sum by the
  difference;
- `SumFunctionIndicator`: the sum of a 0/1 function is the cardinality of
  the set it marks.

### The rings

`RTRingProofs` proves two theorems for every `MAX_QUEUE` and every set of
descriptors allowed by `RingAssumption` (`MAX_QUEUE > 0`, and NULL is not
a descriptor):

- `RingTypeCorrect == Spec => []TypeOK`, the property `ring_fifo` checks;
- `RingIndicesAgree == Spec => []RingInv`.

`TypeOK` is not inductive by itself. The skip loop of `dequeue_thread`
stops at `head == tail`, not at `size == 0`, and lowers `size` once per
slot it visits. Only `RingInv`, `(head + size) % MAX_QUEUE = tail`, keeps
`size` from going below 0. The inductive invariant is
`IInv == TypeOK /\ RingInv`. Under it, `Span` equals `size % MAX_QUEUE`
(`SpanSize`), so the loop visits at most `size` slots. The modular
arithmetic is proved from the definition of `%` alone:

- `ModDef`: Euclidean division;
- `ModUnique`: the remainder is unique;
- `ModShift` and `ModAddLeft`: adding a multiple of `MAX_QUEUE`, or
  reducing an operand first, does not change the remainder;
- `SuccMod`: the increment with wrap is `+ 1` modulo `MAX_QUEUE`.

The SMT solver proves none of these directly when `MAX_QUEUE` is a
parameter.

`RTRingRefinement` proves, under `FewItems` (finitely many descriptors,
fewer than `MAX_QUEUE`):

- `RingEntriesDistinct == Spec => []RInv`. Neither ring holds a descriptor
  twice (`IsInjective`), and every entry of the exited ring is
  TOBE_REMOVED. The second half is the reason `exited_ring_unreadable`
  fails, proved here for every instance.
- `RingRefinement == Spec => Refines`, the property `ring_fifo` checks.

The argument is as follows:

- A ring without duplicate descriptors has no more entries than there are
  descriptors (`NotFull`, from `FS_PigeonHole`), so it never fills.
- On a ring that is not full, a ring branch of `enqueue_thread` appends at
  `tail` (`EntriesAppend`). Slot `tail` is none of the `size` slots from
  `head`, by `ModOffsetInj`.
- On such a ring, `dequeue_thread` drops the entries before the first live
  one and returns that one, as `RingQueue`'s `Take` does
  (`EntriesDequeue`). Offset `i` from `head` is entry `i + 1`
  (`LiveCorrespond`), so the least live offset is the least live position
  minus one.
- `WaitingStep` and `ExitedStep` then map each action to a step of each
  abstract queue:
  - `EnqueueThread` is `Put` on the waiting ring and a stutter on the
    exited one;
  - `ExitThread` is `Mark` on the waiting ring and `Exit` on the exited
    one;
  - each `DequeueThread` is `Take` on its own ring and a stutter on the
    other.

`FewItems` is a real restriction. A full ring has `head == tail`, its
dequeue returns NULL, and the refinement fails. The theorem claims nothing
for that case, and `PROJECT.json` lists it as a hazard.

### The heaps

`RTHeapProofs` proves three theorems about `RTHeap` for every `MAX_QUEUE`
and every set of keys allowed by `HeapAssumption`:

- `HeapTypeCorrect == Spec => []TypeOK`, the `TypeOK` that
  `heap_array_safety` checks. It has no hypothesis: whatever keys the callers
  rewrite, the first `size` slots hold descriptors. So no sift ever moves
  an unwritten slot into the heap, including the sift-down's read of slot
  `size`.
- `HeapOrder`: under `RekeyQueued = {}`, `Spec => []HeapOrdered`, the
  heap order (spec I2) that `heap_array_safety` checks.
- `DequeueReturnsLeast`: under `RekeyQueued = {}`,
  `Spec => [][DequeueThread => DequeueLeast]_vars`. `dequeue_thread`
  returns NULL only when every entry is TOBE_REMOVED. Otherwise it returns
  a descriptor that is not TOBE_REMOVED and has the least key of the live
  entries. On the `MC_RTHeap` instance TLC finds the formula true, and
  false for a dequeue without the skip.

`RekeyQueued = {}` holds for runnable and pending, because
`update_periodic` rewrites only the deadline of a thread it has just
dequeued. It does not hold for aperiodic: the bootstrap thread is queued
while its priority is rewritten. That is the disagreement
`heap_rekey_queued` shows, so the theorems claim nothing there.

The inductive invariant is `IInv == TypeOK /\ HeapOrdered`, since heap order
needs descriptors with keys in the first `size` slots. The argument is one
loop invariant per loop, each proved by induction over the turns
(`NatSetInduction`, from the well-foundedness of `<` on Nat):

- `UpInv`, for the sift-up of `enqueue_thread`. With the new entry written
  at `pos`, every edge is in order except the one from `pos` to its parent,
  and that parent's key is no greater than those of `pos`'s children.
  `UpBound` shows that `pos` falls at every move, so `MAX_QUEUE` turns
  end the loop.
- `DnInv`, for the sift-down of `dequeue_thread`. The slot `now` is a
  hole:
  - every edge that does not touch the hole is in order;
  - the hole's parent has a key no greater than `last` and than the hole's
    children;
  - once the loop breaks, `last` is no greater than the children.

  Slot `n` still holds `last`, so the loop never moves into it, and
  `ChildMin` (the child compared is the least child) needs no
  `child < size` test on the right child. `DnBound` shows that `now`
  rises at every move.
- `DqInv`, for the calls of `dequeue_thread`. Each call leaves a heap in
  order, by `SiftDownCorrect`.
- For `DequeueReturnsLeast`, two more facts:
  - `SiftDownKeeps`: the sift-down keeps every entry but the root among
    the first `n` slots.
  - `RootLeast`: in a heap in order the root has the least key, by strong
    induction along parents.

  `DqKeep` then carries every live entry through the retries until one
  returns, and `DqBound` shows that `MAX_QUEUE + 1` calls reach that
  return.

The loops are unfolded with `NatInductiveDef` of the library.
`HeapTypeCorrect` uses the parts of these invariants that do not depend on
order (`UpTy`, `DnTy`, `DqTy`), so it needs no hypothesis.

### What stays with TLC

The following are left to TLC:

- `Refines` of `RTHeap`. `HeapQueue`'s bag is a count of slots
  (`Cardinality`), and its full test is a `SumFunction` over it. Tracking
  either through the sift loops means proving that the loops permute the
  entries, and the library folds need induction over data for that.
  `DequeueReturnsLeast` proves the part of `Take` that does not count:
  which descriptor comes out;
- `ThreadAccounted` and `FallbackAvailable` for instances without `Room`.
  TLC checks those (for example with `MAX_QUEUE = 4`), but the proof's
  counting argument does not reach them;
- the properties of the violation runs (`EDFDispatch`, `ReleaseWhenDue`
  and the others). They are false of the code, and TLC's counterexamples
  are the evidence;
- liveness and ENABLED, which are outside the prover's reach;
- what the other folds compute (`MapThenSumSet` in the admission tests),
  and in general any fact about a RECURSIVE operator. Each fact about
  `SumFunction` needs its own induction, written out in `SumLemmas`,
  because the library's induction theorems take an operator parameter.

## Plan for later work

1. Add a housekeeper module that models `sched_sim`'s loop and
   `remove_thread` as written, if the `while(1)` were removed.
2. Add liveness under weak fairness of the timer interrupt: a released
   thread is eventually dispatched, and the effect of not reprogramming the
   timer on admission.
3. Prove the counting half of the refinement of `HeapQueue` by `RTHeap`.
   This needs a proof that the sift loops permute the entries (a lemma
   on the `Cardinality` of each descriptor's slots per turn). The facts
   about `SumFunction` it also needs are in `SumLemmas`.
4. Prove `ThreadAccounted` for `MAX_QUEUE = Cardinality(Threads)`, which
   TLC passes: it needs a bound on the total of entries across the three
   heaps, not per heap.
