---------------------------- MODULE RTScheduler ----------------------------
(***************************************************************************)
(* The per-CPU real-time scheduler of src/nautilus/src/nautilus/           *)
(* rt_scheduler.c: the dispatcher rt_need_resched (release drain, EDF      *)
(* selection by thread class, set_timer), the heap queues it moves         *)
(* threads between, admission (rt_admit), thread creation and              *)
(* rt_thread_exit.                                                         *)
(*                                                                         *)
(* The three heaps (runnable, pending, aperiodic) are abstracted to the    *)
(* multiset of descriptors they hold, a function from threads to a count   *)
(* of entries, so that a descriptor entered twice stays visible.  Taking   *)
(* the root is "some entry of least key"; the array heap itself is left   *)
(* to a module of its own (see the README).  The dispatcher runs           *)
(* with interrupts disabled; its release loop is a sequence of forced      *)
(* steps in phase "drain", after which one step in phase "select" performs *)
(* the class switch, set_timer and the return.                             *)
(***************************************************************************)
EXTENDS Integers, Sequences, FiniteSets, Functions, FiniteSetsExt

CONSTANTS
    Threads,        \* descriptors that may ever exist on this CPU
    Main,           \* the bootstrap thread handed to rt_scheduler_init
    NoThread,       \* the NULL descriptor
    Class,          \* thread->type
    Period,         \* constraints->periodic.period
    Slice,          \* constraints->periodic.slice
    Work,           \* constraints->sporadic.work
    RelDeadline,    \* the deadline argument of rt_thread_init (sporadic)
    AperPrio,       \* constraints->aperiodic.priority given at creation
    Quantum,        \* QUANTUM
    MaxQueue,       \* MAX_QUEUE
    MaxTime,        \* bound on the cycle counter explored by TLC
    Word,           \* 2^w: uint64_t arithmetic is taken modulo Word
    PeriodicUtil,   \* PERIODIC_UTIL
    SporadicUtil    \* SPORADIC_UTIL

Classes == {"Aperiodic", "Sporadic", "Periodic"}

ASSUME SchedAssumption ==
    /\ Main \in Threads
    /\ NoThread \notin Threads
    /\ Class \in [Threads -> Classes]
    /\ Class[Main] = "Aperiodic"
    /\ Period \in [Threads -> Nat \ {0}]
    /\ Slice \in [Threads -> Nat \ {0}]
    /\ Work \in [Threads -> Nat \ {0}]
    /\ RelDeadline \in [Threads -> Nat]
    /\ AperPrio \in [Threads -> Nat]
    /\ Quantum \in Nat \ {0}
    /\ MaxQueue \in Nat \ {0}
    /\ MaxTime \in Nat
    /\ Word \in Nat \ {0}
    /\ PeriodicUtil \in Nat
    /\ SporadicUtil \in Nat

\* slice and work are uint64_t, so each is below the word size.
ASSUME WordAssumption == \A t \in Threads : Slice[t] < Word /\ Work[t] < Word

\* The timer is not armed: apic_oneshot_write of 0 stops the one-shot timer.
Disarmed == -1

\* "Unborn": no descriptor yet; the others are the code's ARRIVED, ADMITTED
\* and TOBE_REMOVED (REMOVED is never assigned: `min->status == REMOVED`).
Statuses == {"Unborn", "Arrived", "Admitted", "ToBeRemoved"}

\* "panic": the dispatcher found no thread at all (panic at 1031/1051/1091);
\* "fault": admission divided by zero.
Phases == {"run", "drain", "select", "panic", "fault"}

VARIABLES
    now,        \* cur_time(): the cycle counter
    phase,      \* where the CPU is: running a thread or inside rt_need_resched
    cur,        \* get_cur_thread()->rt_thread
    status,     \* thread->status
    runnable,   \* scheduler->runnable, entries per descriptor
    pending,    \* scheduler->pending
    aperiodic,  \* scheduler->aperiodic
    exited,     \* scheduler->exited ring, oldest first
    runTime,    \* thread->run_time
    deadline,   \* thread->deadline
    prio,       \* thread->constraints->aperiodic.priority
    expiry      \* cycle at which the one-shot timer fires, or Disarmed

vars == <<now, phase, cur, status, runnable, pending, aperiodic, exited,
          runTime, deadline, prio, expiry>>

-----------------------------------------------------------------------------
(* Queues as multisets of descriptors.                                     *)

EmptyQueue == [t \in Threads |-> 0]

Elems(Q) == {t \in Threads : Q[t] > 0}

\* queue->size
Size(Q) == SumFunction(Q)

Live(Q) == {t \in Elems(Q) : status[t] # "ToBeRemoved"}

Earliest(S, key) == {t \in S : \A u \in S : key[t] <= key[u]}

\* The candidates for queue->threads[0] of a heap ordered by key.
Roots(Q, key) == Earliest(Elems(Q), key)

\* enqueue_thread on a heap: dropped when the queue is full.
Enqueue(Q, t) == IF Size(Q) = MaxQueue THEN Q ELSE [Q EXCEPT ![t] = @ + 1]

\* enqueue_thread on a ring (the exited queue): dropped when full.
EnqueueRing(s, t) == IF Len(s) = MaxQueue THEN s ELSE Append(s, t)

\* The sets of descriptors a run of the TOBE_REMOVED skip can discard
\* before it returns x: the root r, every removed entry of smaller key, and
\* possibly removed entries that tie with x.
Skipped(Q, key, r, x) ==
    {D \in SUBSET (Elems(Q) \ Live(Q)) :
        /\ r \in D
        /\ \A y \in Elems(Q) \ Live(Q) :
              /\ key[y] < key[x] => y \in D
              /\ y \in D => key[y] <= key[x]}

\* dequeue_thread on a heap whose root is r: pop the root; if it is
\* TOBE_REMOVED, dequeue again.  Result [res, rest].
DequeueFrom(Q, key, r) ==
    IF status[r] # "ToBeRemoved"
    THEN {[res |-> r, rest |-> [Q EXCEPT ![r] = @ - 1]]}
    ELSE IF Live(Q) = {}
    THEN {[res |-> NoThread, rest |-> EmptyQueue]}
    ELSE UNION {{[res |-> x,
                  rest |-> [t \in Threads |-> IF t \in D THEN 0
                                              ELSE IF t = x THEN Q[t] - 1
                                              ELSE Q[t]]] :
                   D \in Skipped(Q, key, r, x)} :
                x \in Earliest(Live(Q), key)}

\* dequeue_thread on a heap: NULL when the queue is empty.
Dequeue(Q, key) ==
    IF Size(Q) = 0 THEN {[res |-> NoThread, rest |-> Q]}
    ELSE UNION {DequeueFrom(Q, key, r) : r \in Roots(Q, key)}

\* The tail shared by every branch of rt_need_resched that picks a new
\* thread: dequeue runnable if it is not empty, and if that yields NULL,
\* dequeue aperiodic.  Result [next, run, aper] (next = NoThread: panic).
Pick(R, A, dl, pr) ==
    UNION {IF o.res # NoThread
           THEN {[next |-> o.res, run |-> o.rest, aper |-> A]}
           ELSE {[next |-> a.res, run |-> o.rest, aper |-> a.rest] :
                    a \in Dequeue(A, pr)} :
             o \in Dequeue(R, dl)}

-----------------------------------------------------------------------------
(* Thread-level helpers.                                                   *)

\* The budget a real-time thread may consume: slice or work.
Budget(t) == IF Class[t] = "Periodic" THEN Slice[t] ELSE Work[t]

\* umin
Umin(x, y) == IF x < y THEN x ELSE y

\* check_deadlines: exit_time is the cycle of this reschedule, now.
DeadlineMissed(t) == now > deadline[t]

\* Mutant: the overrun is carried into the next period (run_time -= slice).
UpdatePeriodicCarry(t) ==
    IF Class[t] = "Periodic"
    THEN [dl |-> [deadline EXCEPT ![t] = now + Period[t]],
          rt |-> [runTime EXCEPT ![t] = @ - Slice[t]]]
    ELSE [dl |-> deadline, rt |-> runTime]

\* Mutant: run_time is not reset at a release.
UpdatePeriodicNoReset(t) ==
    IF Class[t] = "Periodic"
    THEN [dl |-> [deadline EXCEPT ![t] = now + Period[t]], rt |-> runTime]
    ELSE [dl |-> deadline, rt |-> runTime]

\* update_periodic: a periodic thread gets a new deadline one period from
\* now and an empty run time; other classes are left alone.
UpdatePeriodic(t) ==
    IF Class[t] = "Periodic"
    THEN [dl |-> [deadline EXCEPT ![t] = now + Period[t]],
          rt |-> [runTime EXCEPT ![t] = 0]]
    ELSE [dl |-> deadline, rt |-> runTime]

\* set_timer: the interval written to the one-shot timer for thread t,
\* given the pending queue and the deadlines and run times after the step
\* (pending->size > 0 is: some descriptor has an entry on pending).
TimerInterval(t, P, dl, rt) ==
    LET budget == CASE Class[t] = "Periodic" -> (Slice[t] - rt[t]) % Word
                    [] Class[t] = "Sporadic" -> (Work[t] - rt[t]) % Word
                    [] OTHER                 -> Quantum
        near   == CHOOSE r \in Roots(P, dl) : TRUE
    IN  IF Elems(P) # {} THEN Umin((dl[near] - now) % Word, budget)
                       ELSE budget

\* apic_oneshot_write: a count of 0 stops the timer.
Arm(interval) == IF interval = 0 THEN Disarmed ELSE now + interval

\* The end of every branch of rt_need_resched: set_timer for the chosen
\* thread and return it, or panic when there is none.
Dispatch(next, R, P, A, dl, rt, pr) ==
    IF next = NoThread
    THEN /\ phase' = "panic"
         /\ UNCHANGED <<now, cur, status, runnable, pending, aperiodic,
                        exited, runTime, deadline, prio, expiry>>
    ELSE /\ cur' = next
         /\ runnable' = R
         /\ pending' = P
         /\ aperiodic' = A
         /\ deadline' = dl
         /\ runTime' = rt
         /\ prio' = pr
         /\ expiry' = Arm(TimerInterval(next, P, dl, rt))
         /\ phase' = "run"
         /\ UNCHANGED <<now, status, exited>>

-----------------------------------------------------------------------------
(* Admission.                                                              *)

\* (slice * 100000) / period of a periodic thread.
Util(t) == (Slice[t] * 100000) \div Period[t]

\* get_per_util: every periodic entry of runnable and pending.
PerUtil(R, P) ==
    MapThenSumSet(LAMBDA t : (R[t] + P[t]) * Util(t),
                  {t \in Threads : Class[t] = "Periodic"})

\* get_spor_util divides by deadline - cur_time() for every sporadic
\* entry of runnable; a zero divisor is a divide error.
SporDivByZero(R) ==
    \E t \in Elems(R) : Class[t] = "Sporadic" /\ (deadline[t] - now) % Word = 0

SporUtil(R) ==
    MapThenSumSet(LAMBDA t : R[t] * ((Work[t] * 100000)
                                       \div ((deadline[t] - now) % Word)),
                  {t \in Elems(R) : Class[t] = "Sporadic"})

\* rt_admit for a thread of class Class[t].
Admissible(t) ==
    CASE Class[t] = "Periodic" ->
            PerUtil(runnable, pending) + Util(t) <= PeriodicUtil
      [] Class[t] = "Sporadic" -> SporUtil(runnable) <= SporadicUtil
      [] OTHER -> TRUE

\* rt_thread_init: the first deadline of a new descriptor.
InitDeadline(t) ==
    CASE Class[t] = "Periodic" -> now + Period[t]
      [] Class[t] = "Sporadic" -> now + RelDeadline[t]
      [] OTHER -> 0

-----------------------------------------------------------------------------
(* The specification.                                                      *)

\* rt_scheduler_init(main_thread), called by the running bootstrap thread.
Init ==
    /\ now = 0
    /\ phase = "run"
    /\ cur = Main
    /\ status = [t \in Threads |-> IF t = Main THEN "Admitted" ELSE "Unborn"]
    /\ runnable = EmptyQueue
    /\ pending = EmptyQueue
    /\ aperiodic = [EmptyQueue EXCEPT ![Main] = 1]
    /\ exited = <<>>
    /\ runTime = [t \in Threads |-> 0]
    /\ deadline = [t \in Threads |-> 0]
    /\ prio = AperPrio
    /\ expiry = Disarmed

\* The running thread is billed one cycle; the timer has not fired yet.
Tick ==
    /\ phase = "run"
    /\ now < MaxTime
    /\ expiry = Disarmed \/ now < expiry
    /\ now' = now + 1
    /\ runTime' = [runTime EXCEPT ![cur] = @ + 1]
    /\ UNCHANGED <<phase, cur, status, runnable, pending, aperiodic, exited,
                   deadline, prio, expiry>>

\* The one-shot timer fires and enters rt_need_resched.
TimerInterrupt ==
    /\ phase = "run"
    /\ expiry = now
    /\ phase' = "drain"
    /\ expiry' = Disarmed
    /\ UNCHANGED <<now, cur, status, runnable, pending, aperiodic, exited,
                   runTime, deadline, prio>>

\* The running thread yields or blocks and enters rt_need_resched.
Yield ==
    /\ phase = "run"
    /\ phase' = "drain"
    /\ UNCHANGED <<now, cur, status, runnable, pending, aperiodic, exited,
                   runTime, deadline, prio, expiry>>

\* One turn of the release loop: the pending root is due, dequeue it (with
\* the TOBE_REMOVED skip), update_periodic and enqueue it on runnable.
ReleaseStep ==
    /\ phase = "drain"
    /\ Size(pending) > 0
    /\ \E r \in Roots(pending, deadline) :
         /\ deadline[r] < now
         /\ \E o \in DequeueFrom(pending, deadline, r) :
              /\ pending' = o.rest
              /\ IF o.res = NoThread
                 THEN UNCHANGED <<runnable, deadline, runTime>>
                 ELSE LET u == UpdatePeriodic(o.res)
                      IN  /\ deadline' = u.dl
                          /\ runTime' = u.rt
                          /\ runnable' = Enqueue(runnable, o.res)
    /\ UNCHANGED <<now, phase, cur, status, aperiodic, exited, prio, expiry>>

\* The release loop ends: pending is empty or its root is not yet due.
ReleaseDone ==
    /\ phase = "drain"
    /\ Size(pending) = 0 \/ \A r \in Roots(pending, deadline) : deadline[r] >= now
    /\ phase' = "select"
    /\ UNCHANGED <<now, cur, status, runnable, pending, aperiodic, exited,
                   runTime, deadline, prio, expiry>>

\* case APERIODIC: the current thread's priority becomes its run time, it
\* goes back on aperiodic, and runnable (else aperiodic) supplies the next.
ScheduleAperiodic ==
    /\ phase = "select"
    /\ Class[cur] = "Aperiodic"
    /\ LET pr == [prio EXCEPT ![cur] = runTime[cur]]
       IN  \E o \in Pick(runnable, Enqueue(aperiodic, cur), deadline, pr) :
              Dispatch(o.next, o.run, pending, o.aper, deadline, runTime, pr)

\* case SPORADIC, work done: check_deadlines only reports; the thread is not
\* put back on any queue.
ScheduleSporadicDone ==
    /\ phase = "select"
    /\ Class[cur] = "Sporadic"
    /\ runTime[cur] >= Work[cur]
    /\ \E o \in Pick(runnable, aperiodic, deadline, prio) :
          Dispatch(o.next, o.run, pending, o.aper, deadline, runTime, prio)

\* Mutant: the preempted thread is not put back on runnable.
SchedulePreemptLost ==
    /\ phase = "select"
    /\ Class[cur] # "Aperiodic"
    /\ runTime[cur] < Budget(cur)
    /\ Size(runnable) > 0
    /\ \E r \in Roots(runnable, deadline) :
         /\ deadline[cur] > deadline[r]
         /\ \E o \in DequeueFrom(runnable, deadline, r) :
              IF o.res # NoThread
              THEN Dispatch(o.res, o.rest, pending, aperiodic,
                            deadline, runTime, prio)
              ELSE Dispatch(cur, o.rest, pending, aperiodic,
                            deadline, runTime, prio)

\* Mutant: the `rt_n != NULL` test after dequeue_thread(runnable) is dropped.
SchedulePreemptNoNullCheck ==
    /\ phase = "select"
    /\ Class[cur] # "Aperiodic"
    /\ runTime[cur] < Budget(cur)
    /\ Size(runnable) > 0
    /\ \E r \in Roots(runnable, deadline) :
         /\ deadline[cur] > deadline[r]
         /\ \E o \in DequeueFrom(runnable, deadline, r) :
              Dispatch(o.res, Enqueue(o.rest, cur), pending, aperiodic,
                       deadline, runTime, prio)

\* case SPORADIC or PERIODIC, budget left, and the runnable root has an
\* earlier deadline: dequeue runnable; if that gives a thread, the current
\* one goes back on runnable, else the current one keeps the CPU.
SchedulePreempt ==
    /\ phase = "select"
    /\ Class[cur] # "Aperiodic"
    /\ runTime[cur] < Budget(cur)
    /\ Size(runnable) > 0
    /\ \E r \in Roots(runnable, deadline) :
         /\ deadline[cur] > deadline[r]
         /\ \E o \in DequeueFrom(runnable, deadline, r) :
              IF o.res # NoThread
              THEN Dispatch(o.res, Enqueue(o.rest, cur), pending, aperiodic,
                            deadline, runTime, prio)
              ELSE Dispatch(cur, o.rest, pending, aperiodic,
                            deadline, runTime, prio)

\* case SPORADIC or PERIODIC, budget left, and no earlier deadline at the
\* runnable root: the current thread keeps the CPU.
ScheduleKeep ==
    /\ phase = "select"
    /\ Class[cur] # "Aperiodic"
    /\ runTime[cur] < Budget(cur)
    /\ Size(runnable) = 0 \/ \A r \in Roots(runnable, deadline) :
                                deadline[cur] <= deadline[r]
    /\ Dispatch(cur, runnable, pending, aperiodic, deadline, runTime, prio)

\* case PERIODIC, slice consumed: when check_deadlines reports a miss the
\* thread is released again at once onto runnable, otherwise it waits on
\* pending with its deadline unchanged; then runnable (else aperiodic)
\* supplies the next thread.
SchedulePeriodicDone ==
    /\ phase = "select"
    /\ Class[cur] = "Periodic"
    /\ runTime[cur] >= Slice[cur]
    /\ IF DeadlineMissed(cur)
       THEN LET u == UpdatePeriodic(cur)
            IN  \E o \in Pick(Enqueue(runnable, cur), aperiodic, u.dl, prio) :
                   Dispatch(o.next, o.run, pending, o.aper, u.dl, u.rt, prio)
       ELSE \E o \in Pick(runnable, aperiodic, deadline, prio) :
               Dispatch(o.next, o.run, Enqueue(pending, cur), o.aper,
                        deadline, runTime, prio)

\* A thread is created (rt_thread_init) and offered to rt_admit by the
\* running thread; when admitted it is parked on pending (periodic, first
\* deadline in the future), runnable (sporadic) or aperiodic.
CreateThread(t) ==
    /\ phase = "run"
    /\ status[t] = "Unborn"
    /\ LET dl == [deadline EXCEPT ![t] = InitDeadline(t)]
       IN  /\ deadline' = dl
           /\ runTime' = [runTime EXCEPT ![t] = 0]
           /\ prio' = [prio EXCEPT ![t] = AperPrio[t]]
           /\ IF Class[t] = "Sporadic" /\ SporDivByZero(runnable)
              THEN /\ phase' = "fault"
                   /\ UNCHANGED <<status, runnable, pending, aperiodic>>
              ELSE IF ~Admissible(t)
              THEN /\ status' = [status EXCEPT ![t] = "Arrived"]
                   /\ UNCHANGED <<phase, runnable, pending, aperiodic>>
              ELSE /\ status' = [status EXCEPT ![t] = "Admitted"]
                   /\ UNCHANGED phase
                   /\ CASE Class[t] = "Periodic" /\ dl[t] > now ->
                              /\ pending' = Enqueue(pending, t)
                              /\ UNCHANGED <<runnable, aperiodic>>
                         [] Class[t] = "Aperiodic" ->
                              /\ aperiodic' = Enqueue(aperiodic, t)
                              /\ UNCHANGED <<runnable, pending>>
                         [] OTHER ->
                              /\ runnable' = Enqueue(runnable, t)
                              /\ UNCHANGED <<pending, aperiodic>>
    /\ UNCHANGED <<now, cur, exited, expiry>>

\* rt_thread_exit(t): mark TOBE_REMOVED and push onto the exited ring; the
\* descriptor stays on whatever queue holds it.
ExitThread(t) ==
    /\ phase = "run"
    /\ t # Main
    /\ status[t] = "Admitted"
    /\ status' = [status EXCEPT ![t] = "ToBeRemoved"]
    /\ exited' = EnqueueRing(exited, t)
    /\ UNCHANGED <<now, phase, cur, runnable, pending, aperiodic, runTime,
                   deadline, prio, expiry>>

Schedule ==
    \/ ScheduleAperiodic
    \/ ScheduleSporadicDone
    \/ SchedulePreempt
    \/ ScheduleKeep
    \/ SchedulePeriodicDone

Next ==
    \/ Tick
    \/ TimerInterrupt
    \/ Yield
    \/ ReleaseStep
    \/ ReleaseDone
    \/ Schedule
    \/ \E t \in Threads : CreateThread(t)
    \/ \E t \in Threads : ExitThread(t)

Spec == Init /\ [][Next]_vars

-----------------------------------------------------------------------------
(* Properties.                                                             *)

TypeOK ==
    /\ now \in 0..MaxTime
    /\ phase \in Phases
    /\ cur \in Threads
    /\ status \in [Threads -> Statuses]
    /\ runnable \in [Threads -> Nat]
    /\ pending \in [Threads -> Nat]
    /\ aperiodic \in [Threads -> Nat]
    /\ exited \in Seq(Threads)
    /\ runTime \in [Threads -> Nat]
    /\ deadline \in [Threads -> Nat]
    /\ prio \in [Threads -> Nat]
    /\ expiry \in Nat \cup {Disarmed}

\* Entries of descriptor t on the three heaps, and whether it holds the CPU.
Places(t) == runnable[t] + pending[t] + aperiodic[t] + (IF t = cur THEN 1 ELSE 0)

\* A sporadic job whose work is done is dropped by ScheduleSporadicDone.
JobDone(t) == Class[t] = "Sporadic" /\ runTime[t] >= Work[t]

\* No thread is lost or duplicated by the dispatcher: every thread other
\* than the bootstrap one is in at most one place (a heap entry or the
\* CPU), a live admitted one is in exactly one unless its sporadic job is
\* done, and the bootstrap thread is running or on aperiodic.  It is about
\* the re-enqueue of the preempted thread in every branch of
\* rt_need_resched, the release loop and the TOBE_REMOVED skip.
ThreadAccounted ==
    phase \in {"run", "drain", "select"} =>
        /\ cur = Main \/ aperiodic[Main] > 0
        /\ \A t \in Threads \ {Main} :
              /\ Places(t) <= 1
              /\ status[t] = "Admitted" /\ ~JobDone(t) => Places(t) = 1

\* The bootstrap thread is always there as the fallback: rt_need_resched
\* never reaches its panic on an empty aperiodic queue.
FallbackAvailable == phase # "panic"

\* A step of rt_need_resched that returns a thread.
Dispatched == phase = "select" /\ phase' = "run"

\* Every periodic or sporadic thread rt_need_resched returns still has
\* budget (run_time < slice, or < work), and the one-shot timer set_timer
\* arms ends no later than that budget does: the unsigned subtraction
\* slice - run_time (work - run_time) never wraps or comes out zero.
TimerWithinBudget ==
    [][Dispatched /\ Class[cur'] # "Aperiodic" =>
         /\ runTime'[cur'] < Budget(cur')
         /\ expiry' # Disarmed => expiry' + runTime'[cur'] <= now + Budget(cur')]_vars

\* EDF: the thread rt_need_resched returns has the earliest deadline of the
\* live threads on runnable, and an aperiodic thread is returned only when
\* runnable holds no live thread.
EDFDispatch ==
    [][Dispatched =>
        IF Class[cur'] = "Aperiodic"
        THEN Live(runnable') = {}
        ELSE \A t \in Live(runnable') : deadline'[cur'] <= deadline'[t]]_vars

\* A periodic or sporadic thread is given a new deadline only once its
\* current deadline has passed (release at a period boundary).
ReleaseWhenDue ==
    [][\A t \in Threads :
         status[t] # "Unborn" /\ deadline'[t] # deadline[t] => deadline[t] < now]_vars

\* After rt_need_resched returns, pending holds only future releases: every
\* thread whose deadline has come has been released.
PendingInFuture ==
    [][Dispatched => \A t \in Elems(pending') : deadline'[t] > now]_vars

\* A periodic thread that consumed its slice by its deadline (exit_time <=
\* deadline, check_deadlines reports met) is re-released at once: new
\* deadline now + period and run_time 0 (spec 4.2, 4.3).  It is about the
\* branch on check_deadlines in the PERIODIC case of rt_need_resched.
PeriodicMetReleased ==
    [][Dispatched /\ Class[cur] = "Periodic" /\ runTime[cur] >= Slice[cur]
         /\ ~DeadlineMissed(cur) =>
            /\ deadline'[cur] = now + Period[cur]
            /\ runTime'[cur] = 0]_vars

\* A thread that called rt_thread_exit is never returned by rt_need_resched.
NoRemovedDispatch ==
    [][Dispatched => status[cur'] # "ToBeRemoved"]_vars

\* The periodic utilisation of all admitted periodic threads stays within
\* PERIODIC_UTIL.
AdmittedUtilBound ==
    MapThenSumSet(LAMBDA t : Util(t),
                  {t \in Threads : Class[t] = "Periodic" /\ status[t] = "Admitted"})
        <= PeriodicUtil

\* Admission never takes a divide error.
AdmissionNoFault == phase # "fault"

=============================================================================
