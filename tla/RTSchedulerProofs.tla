------------------------- MODULE RTSchedulerProofs -------------------------
(***************************************************************************)
(* Proofs about the dispatcher model RTScheduler, for every value of the   *)
(* constants that satisfies SchedAssumption.                               *)
(***************************************************************************)
EXTENDS RTScheduler, WellFoundedInduction, TLAPS

\* A queue state: a count of entries per descriptor.
QueueType(Q) == Q \in [Threads -> Nat]

\* A result of dequeue_thread: a descriptor or NULL, and the heap left.
DequeueResultType(o) ==
    /\ o.res \in Threads \cup {NoThread}
    /\ QueueType(o.rest)

-----------------------------------------------------------------------------
(* Lemmas on the heap operations.                                          *)

\* enqueue_thread keeps a heap a count of entries, full or not.
LEMMA EnqueueType ==
    ASSUME NEW Q, QueueType(Q), NEW t \in Threads
    PROVE  QueueType(Enqueue(Q, t))
BY DEF QueueType, Enqueue

\* A heap with an entry has a root: some entry of least key.  The keys are
\* naturals, and < is well-founded on them.
LEMMA RootExists ==
    ASSUME NEW Q, QueueType(Q), NEW key \in [Threads -> Nat], Elems(Q) # {}
    PROVE  Roots(Q, key) # {}
<1> DEFINE K == {key[t] : t \in Elems(Q)}
<1>1. K \subseteq Nat /\ K # {}
  BY DEF Elems, QueueType
<1>2. \E m \in K : \A y \in K : ~(<<y, m>> \in OpToRel(<, Nat))
  BY <1>1, WFMin, NatLessThanWellFounded
<1>3. PICK m \in K : \A y \in K : ~(y < m)
  BY <1>1, <1>2 DEF OpToRel
<1>4. PICK r \in Elems(Q) : key[r] = m
  OBVIOUS
<1>5. \A u \in Elems(Q) : key[r] <= key[u]
  BY <1>1, <1>3, <1>4 DEF Elems
<1> QED
  BY <1>5 DEF Roots, Earliest

\* dequeue_thread from a heap whose root is r, with the TOBE_REMOVED skip,
\* returns a descriptor or NULL and leaves a count of entries.
LEMMA DequeueFromType ==
    ASSUME NEW Q, QueueType(Q), NEW key, NEW r \in Elems(Q)
    PROVE  \A o \in DequeueFrom(Q, key, r) : DequeueResultType(o)
<1> SUFFICES ASSUME NEW o \in DequeueFrom(Q, key, r)
             PROVE  DequeueResultType(o)
  OBVIOUS
<1>1. CASE status[r] # "ToBeRemoved"
  <2>1. o = [res |-> r, rest |-> [Q EXCEPT ![r] = @ - 1]]
    BY <1>1 DEF DequeueFrom
  <2> QED
    BY <2>1 DEF DequeueResultType, QueueType, Elems
<1>2. CASE status[r] = "ToBeRemoved" /\ Live(Q) = {}
  <2>1. o = [res |-> NoThread, rest |-> EmptyQueue]
    BY <1>2 DEF DequeueFrom
  <2> QED
    BY <2>1 DEF DequeueResultType, QueueType, EmptyQueue
<1>3. CASE status[r] = "ToBeRemoved" /\ Live(Q) # {}
  <2>0. PICK x \in Earliest(Live(Q), key) :
            \E D \in Skipped(Q, key, r, x) :
               o = [res |-> x,
                    rest |-> [t \in Threads |-> IF t \in D THEN 0
                                                ELSE IF t = x THEN Q[t] - 1
                                                ELSE Q[t]]]
    BY <1>3 DEF DequeueFrom
  <2>1. PICK D \in Skipped(Q, key, r, x) :
            o = [res |-> x,
                 rest |-> [t \in Threads |-> IF t \in D THEN 0
                                             ELSE IF t = x THEN Q[t] - 1
                                             ELSE Q[t]]]
    BY <2>0
  <2>2. x \in Threads /\ Q[x] > 0
    BY DEF Earliest, Live, Elems
  <2> QED
    BY <2>1, <2>2 DEF DequeueResultType, QueueType
<1> QED
  BY <1>1, <1>2, <1>3

\* dequeue_thread on a heap returns a descriptor or NULL and leaves a count
\* of entries.
LEMMA DequeueType ==
    ASSUME NEW Q, QueueType(Q), NEW key
    PROVE  \A o \in Dequeue(Q, key) : DequeueResultType(o)
<1> SUFFICES ASSUME NEW o \in Dequeue(Q, key)
             PROVE  DequeueResultType(o)
  OBVIOUS
<1>1. CASE Size(Q) = 0
  BY <1>1 DEF Dequeue, DequeueResultType
<1>2. CASE Size(Q) # 0
  <2>1. PICK r \in Roots(Q, key) : o \in DequeueFrom(Q, key, r)
    BY <1>2 DEF Dequeue
  <2>2. r \in Elems(Q)
    BY DEF Roots, Earliest
  <2> QED
    BY <2>1, <2>2, DequeueFromType
<1> QED
  BY <1>1, <1>2

\* The tail of rt_need_resched (runnable, else aperiodic) returns a
\* descriptor or NULL and leaves both heaps counts of entries.
LEMMA PickType ==
    ASSUME NEW R, QueueType(R), NEW A, QueueType(A), NEW dl, NEW pr
    PROVE  \A o \in Pick(R, A, dl, pr) :
              /\ o.next \in Threads \cup {NoThread}
              /\ QueueType(o.run)
              /\ QueueType(o.aper)
<1> SUFFICES ASSUME NEW o \in Pick(R, A, dl, pr)
             PROVE  /\ o.next \in Threads \cup {NoThread}
                    /\ QueueType(o.run)
                    /\ QueueType(o.aper)
  OBVIOUS
<1>1. PICK d \in Dequeue(R, dl) :
         o \in IF d.res # NoThread
               THEN {[next |-> d.res, run |-> d.rest, aper |-> A]}
               ELSE {[next |-> a.res, run |-> d.rest, aper |-> a.rest] :
                        a \in Dequeue(A, pr)}
  BY DEF Pick
<1>2. DequeueResultType(d)
  BY DequeueType
<1>3. CASE d.res # NoThread
  BY <1>1, <1>2, <1>3 DEF DequeueResultType
<1>4. CASE d.res = NoThread
  <2>1. PICK a \in Dequeue(A, pr) :
           o = [next |-> a.res, run |-> d.rest, aper |-> a.rest]
    BY <1>1, <1>4
  <2>2. DequeueResultType(a)
    BY DequeueType
  <2> QED
    BY <1>2, <2>1, <2>2 DEF DequeueResultType
<1> QED
  BY <1>3, <1>4

\* update_periodic leaves deadlines and run times naturals.
LEMMA UpdatePeriodicType ==
    ASSUME TypeOK, NEW t \in Threads
    PROVE  /\ UpdatePeriodic(t).dl \in [Threads -> Nat]
           /\ UpdatePeriodic(t).rt \in [Threads -> Nat]
<1>1. CASE Class[t] = "Periodic"
  <2>0. Period[t] \in Nat /\ now \in Nat
    BY SchedAssumption DEF TypeOK, SchedAssumption
  <2>1. now + Period[t] \in Nat
    BY <2>0
  <2> QED
    BY <1>1, <2>1 DEF UpdatePeriodic, TypeOK
<1>2. CASE Class[t] # "Periodic"
  BY <1>2 DEF UpdatePeriodic, TypeOK
<1> QED
  BY <1>1, <1>2

\* set_timer writes a natural count to the one-shot timer: both operands of
\* umin are unsigned differences, and pending's root is a descriptor.
LEMMA TimerIntervalType ==
    ASSUME NEW t \in Threads, NEW P, QueueType(P),
           NEW dl \in [Threads -> Nat], NEW rt \in [Threads -> Nat],
           now \in Nat
    PROVE  TimerInterval(t, P, dl, rt) \in Nat
<1> DEFINE budget == CASE Class[t] = "Periodic" -> (Slice[t] - rt[t]) % Word
                       [] Class[t] = "Sporadic" -> (Work[t] - rt[t]) % Word
                       [] OTHER                 -> Quantum
           near   == CHOOSE r \in Roots(P, dl) : TRUE
<1>1. budget \in Nat
  BY SchedAssumption DEF SchedAssumption
<1>2. CASE Elems(P) # {}
  <2>1. near \in Threads
    BY <1>2, RootExists DEF Roots, Earliest, Elems
  <2>2. (dl[near] - now) % Word \in Nat
    BY <2>1, SchedAssumption DEF SchedAssumption
  <2> QED
    BY <1>1, <1>2, <2>2 DEF TimerInterval, Umin
<1>3. CASE Elems(P) = {}
  BY <1>1, <1>3 DEF TimerInterval
<1> QED
  BY <1>2, <1>3

\* The end of every branch of rt_need_resched (set_timer, then return the
\* chosen thread, or panic) preserves the type invariant.
LEMMA DispatchType ==
    ASSUME TypeOK,
           NEW next \in Threads \cup {NoThread},
           NEW R, QueueType(R), NEW P, QueueType(P), NEW A, QueueType(A),
           NEW dl \in [Threads -> Nat], NEW rt \in [Threads -> Nat],
           NEW pr \in [Threads -> Nat],
           Dispatch(next, R, P, A, dl, rt, pr)
    PROVE  TypeOK'
<1>1. CASE next = NoThread
  BY <1>1 DEF Dispatch, TypeOK, Phases
<1>2. CASE next # NoThread
  <2>0. now \in Nat /\ next \in Threads
    BY <1>2, SchedAssumption DEF TypeOK, SchedAssumption
  <2>1. TimerInterval(next, P, dl, rt) \in Nat
    BY <2>0, TimerIntervalType
  <2>2. expiry' = Arm(TimerInterval(next, P, dl, rt))
    BY <1>2 DEF Dispatch
  <2>3. expiry' \in Nat \cup {Disarmed}
    BY <2>0, <2>1, <2>2 DEF Arm
  <2> QED
    BY <1>2, <2>3 DEF Dispatch, TypeOK, QueueType, Phases
<1> QED
  BY <1>1, <1>2

-----------------------------------------------------------------------------
(* Type correctness.                                                       *)

\* Every step of the dispatcher keeps the state well typed.
LEMMA TypeNext == TypeOK /\ [Next]_vars => TypeOK'
<1> SUFFICES ASSUME TypeOK, [Next]_vars PROVE TypeOK'
  OBVIOUS
<1>0. QueueType(runnable) /\ QueueType(pending) /\ QueueType(aperiodic)
  BY DEF TypeOK, QueueType
<1>1. CASE Tick
  <2>1. now' \in 0..MaxTime
    BY <1>1, SchedAssumption DEF Tick, TypeOK, SchedAssumption
  <2>2. runTime' \in [Threads -> Nat]
    BY <1>1 DEF Tick, TypeOK
  <2> QED
    BY <1>1, <2>1, <2>2 DEF Tick, TypeOK
<1>2. CASE TimerInterrupt
  BY <1>2 DEF TimerInterrupt, TypeOK, Phases
<1>3. CASE Yield
  BY <1>3 DEF Yield, TypeOK, Phases
<1>4. CASE ReleaseStep
  <2>0. PICK r \in Roots(pending, deadline) :
           \E o \in DequeueFrom(pending, deadline, r) :
              /\ pending' = o.rest
              /\ IF o.res = NoThread
                 THEN UNCHANGED <<runnable, deadline, runTime>>
                 ELSE LET u == UpdatePeriodic(o.res)
                      IN  /\ deadline' = u.dl
                          /\ runTime' = u.rt
                          /\ runnable' = Enqueue(runnable, o.res)
    BY <1>4 DEF ReleaseStep
  <2>1. PICK o \in DequeueFrom(pending, deadline, r) :
           /\ pending' = o.rest
           /\ IF o.res = NoThread
              THEN UNCHANGED <<runnable, deadline, runTime>>
              ELSE LET u == UpdatePeriodic(o.res)
                   IN  /\ deadline' = u.dl
                       /\ runTime' = u.rt
                       /\ runnable' = Enqueue(runnable, o.res)
    BY <2>0
  <2>2. DequeueResultType(o)
    BY <1>0, DequeueFromType DEF Roots, Earliest
  <2>3. UNCHANGED <<now, phase, cur, status, aperiodic, exited, prio, expiry>>
    BY <1>4 DEF ReleaseStep
  <2>4. CASE o.res = NoThread
    BY <2>1, <2>2, <2>3, <2>4 DEF TypeOK, DequeueResultType, QueueType
  <2>5. CASE o.res # NoThread
    <3>1. o.res \in Threads
      BY <2>2, <2>5 DEF DequeueResultType
    <3>2. QueueType(Enqueue(runnable, o.res))
      BY <1>0, <3>1, EnqueueType
    <3>3. /\ UpdatePeriodic(o.res).dl \in [Threads -> Nat]
          /\ UpdatePeriodic(o.res).rt \in [Threads -> Nat]
      BY <3>1, UpdatePeriodicType
    <3> QED
      BY <2>1, <2>2, <2>3, <2>5, <3>2, <3>3
         DEF TypeOK, DequeueResultType, QueueType
  <2> QED
    BY <2>4, <2>5
<1>5. CASE ReleaseDone
  BY <1>5 DEF ReleaseDone, TypeOK, Phases
<1>6. CASE ScheduleAperiodic
  <2> DEFINE pr == [prio EXCEPT ![cur] = runTime[cur]]
  <2>1. pr \in [Threads -> Nat] /\ QueueType(Enqueue(aperiodic, cur))
    BY <1>0, EnqueueType DEF TypeOK
  <2>2. PICK o \in Pick(runnable, Enqueue(aperiodic, cur), deadline, pr) :
           Dispatch(o.next, o.run, pending, o.aper, deadline, runTime, pr)
    BY <1>6 DEF ScheduleAperiodic
  <2>3. o.next \in Threads \cup {NoThread} /\ QueueType(o.run) /\ QueueType(o.aper)
    BY <1>0, <2>1, PickType
  <2> QED
    BY <1>0, <2>1, <2>2, <2>3, DispatchType DEF TypeOK
<1>7. CASE ScheduleSporadicDone
  <2>1. PICK o \in Pick(runnable, aperiodic, deadline, prio) :
           Dispatch(o.next, o.run, pending, o.aper, deadline, runTime, prio)
    BY <1>7 DEF ScheduleSporadicDone
  <2>2. o.next \in Threads \cup {NoThread} /\ QueueType(o.run) /\ QueueType(o.aper)
    BY <1>0, PickType
  <2> QED
    BY <1>0, <2>1, <2>2, DispatchType DEF TypeOK
<1>8. CASE SchedulePreempt
  <2>0. PICK r \in Roots(runnable, deadline) :
           \E o \in DequeueFrom(runnable, deadline, r) :
              IF o.res # NoThread
              THEN Dispatch(o.res, Enqueue(o.rest, cur), pending, aperiodic,
                            deadline, runTime, prio)
              ELSE Dispatch(cur, o.rest, pending, aperiodic,
                            deadline, runTime, prio)
    BY <1>8 DEF SchedulePreempt
  <2>1. PICK o \in DequeueFrom(runnable, deadline, r) :
           IF o.res # NoThread
           THEN Dispatch(o.res, Enqueue(o.rest, cur), pending, aperiodic,
                         deadline, runTime, prio)
           ELSE Dispatch(cur, o.rest, pending, aperiodic,
                         deadline, runTime, prio)
    BY <2>0
  <2>2. DequeueResultType(o)
    BY <1>0, DequeueFromType DEF Roots, Earliest
  <2>3. CASE o.res # NoThread
    <3>1. QueueType(Enqueue(o.rest, cur))
      BY <2>2, EnqueueType DEF DequeueResultType, TypeOK
    <3> QED
      BY <1>0, <2>1, <2>2, <2>3, <3>1, DispatchType
         DEF TypeOK, DequeueResultType
  <2>4. CASE o.res = NoThread
    BY <1>0, <2>1, <2>2, <2>4, DispatchType DEF TypeOK, DequeueResultType
  <2> QED
    BY <2>3, <2>4
<1>9. CASE ScheduleKeep
  BY <1>0, <1>9, DispatchType DEF ScheduleKeep, TypeOK
<1>10. CASE SchedulePeriodicDone
  <2>1. CASE DeadlineMissed(cur)
    <3> DEFINE u == UpdatePeriodic(cur)
    <3>1. u.dl \in [Threads -> Nat] /\ u.rt \in [Threads -> Nat]
      BY UpdatePeriodicType DEF TypeOK
    <3>2. QueueType(Enqueue(runnable, cur))
      BY <1>0, EnqueueType DEF TypeOK
    <3>3. PICK o \in Pick(Enqueue(runnable, cur), aperiodic, u.dl, prio) :
             Dispatch(o.next, o.run, pending, o.aper, u.dl, u.rt, prio)
      BY <1>10, <2>1 DEF SchedulePeriodicDone
    <3>4. o.next \in Threads \cup {NoThread} /\ QueueType(o.run) /\ QueueType(o.aper)
      BY <1>0, <3>2, PickType
    <3> QED
      BY <1>0, <3>1, <3>3, <3>4, DispatchType DEF TypeOK
  <2>2. CASE ~DeadlineMissed(cur)
    <3>1. QueueType(Enqueue(pending, cur))
      BY <1>0, EnqueueType DEF TypeOK
    <3>2. PICK o \in Pick(runnable, aperiodic, deadline, prio) :
             Dispatch(o.next, o.run, Enqueue(pending, cur), o.aper,
                      deadline, runTime, prio)
      BY <1>10, <2>2 DEF SchedulePeriodicDone
    <3>3. o.next \in Threads \cup {NoThread} /\ QueueType(o.run) /\ QueueType(o.aper)
      BY <1>0, PickType
    <3> QED
      BY <1>0, <3>1, <3>2, <3>3, DispatchType DEF TypeOK
  <2> QED
    BY <2>1, <2>2
<1>11. ASSUME NEW t \in Threads, CreateThread(t) PROVE TypeOK'
  <2>1. InitDeadline(t) \in Nat
    <3>1. now \in Nat /\ Period[t] \in Nat /\ RelDeadline[t] \in Nat
      BY SchedAssumption DEF TypeOK, SchedAssumption
    <3> QED
      BY <3>1 DEF InitDeadline
  <2>2. /\ deadline' \in [Threads -> Nat]
        /\ runTime' \in [Threads -> Nat]
        /\ prio' \in [Threads -> Nat]
    <3>1. /\ deadline' = [deadline EXCEPT ![t] = InitDeadline(t)]
          /\ runTime' = [runTime EXCEPT ![t] = 0]
          /\ prio' = [prio EXCEPT ![t] = AperPrio[t]]
      BY <1>11 DEF CreateThread
    <3>2. AperPrio[t] \in Nat
      BY SchedAssumption DEF SchedAssumption
    <3> QED
      BY <2>1, <3>1, <3>2 DEF TypeOK
  <2>3. /\ QueueType(Enqueue(runnable, t))
        /\ QueueType(Enqueue(pending, t))
        /\ QueueType(Enqueue(aperiodic, t))
    BY <1>0, EnqueueType
  <2>4. /\ runnable' \in [Threads -> Nat]
        /\ pending' \in [Threads -> Nat]
        /\ aperiodic' \in [Threads -> Nat]
        /\ status' \in [Threads -> Statuses]
        /\ phase' \in Phases
    BY <1>11, <2>3 DEF CreateThread, TypeOK, QueueType, Statuses, Phases
  <2> QED
    BY <1>11, <2>2, <2>4 DEF CreateThread, TypeOK
<1>12. ASSUME NEW t \in Threads, ExitThread(t) PROVE TypeOK'
  <2>1. EnqueueRing(exited, t) \in Seq(Threads)
    BY DEF EnqueueRing, TypeOK
  <2> QED
    BY <1>12, <2>1 DEF ExitThread, TypeOK, Statuses
<1>13. CASE UNCHANGED vars
  BY <1>13 DEF vars, TypeOK
<1> QED
  BY <1>1, <1>2, <1>3, <1>4, <1>5, <1>6, <1>7, <1>8, <1>9, <1>10,
     <1>11, <1>12, <1>13 DEF Next, Schedule

\* Every reachable state of the dispatcher model is well typed: the heaps
\* stay counts of entries through the enqueue drops and the TOBE_REMOVED
\* skip of dequeue_thread, the running thread is always a descriptor, and
\* the one-shot timer is disarmed or set to a natural cycle.
THEOREM TypeCorrect == Spec => []TypeOK
<1>1. Init => TypeOK
  BY SchedAssumption DEF Init, TypeOK, SchedAssumption, EmptyQueue,
                         Phases, Statuses, Disarmed
<1>2. TypeOK /\ [Next]_vars => TypeOK'
  BY TypeNext
<1> QED
  BY <1>1, <1>2, PTL DEF Spec

====
