------------------------- MODULE RTSchedulerBudget -------------------------
(***************************************************************************)
(* Proofs that rt_need_resched never hands the CPU to a periodic or        *)
(* sporadic thread whose budget is used up, that the one-shot timer it     *)
(* arms ends within that budget, and that no descriptor other than the     *)
(* bootstrap thread is ever in two places, for every value of the          *)
(* constants that satisfies SchedAssumption and WordAssumption.            *)
(***************************************************************************)
EXTENDS RTSchedulerProofs

\* 1 when descriptor t is c, else 0: the CPU's share in a count of places.
On(t, c) == IF t = c THEN 1 ELSE 0

\* The inductive invariant: a descriptor not yet created is nowhere; no
\* descriptor but the bootstrap one is in two places; every runnable entry
\* is a periodic or sporadic thread with budget left; pending holds only
\* periodic threads and aperiodic only aperiodic ones.
BudgetInv ==
    /\ TypeOK
    /\ \A t \in Threads : status[t] = "Unborn" => Places(t) = 0
    /\ \A t \in Threads \ {Main} : Places(t) <= 1
    /\ \A t \in Threads : runnable[t] > 0 =>
          Class[t] # "Aperiodic" /\ runTime[t] < Budget(t)
    /\ \A t \in Threads : pending[t] > 0 => Class[t] = "Periodic"
    /\ \A t \in Threads : aperiodic[t] > 0 => Class[t] = "Aperiodic"

\* The step TimerWithinBudget constrains.
BudgetStep ==
    Dispatched /\ Class[cur'] # "Aperiodic" =>
        /\ runTime'[cur'] < Budget(cur')
        /\ expiry' # Disarmed => expiry' + runTime'[cur'] <= now + Budget(cur')

-----------------------------------------------------------------------------
(* Lemmas on how the heap operations move entries.                        *)

\* Four counts that add up to nothing are all zero.
LEMMA NatSumZero ==
    ASSUME NEW a \in Nat, NEW b \in Nat, NEW c \in Nat, NEW d \in Nat,
           a + b + c + d = 0
    PROVE  a = 0 /\ b = 0 /\ c = 0 /\ d = 0
OBVIOUS

\* A count of places is a natural.
LEMMA PlacesNat ==
    ASSUME TypeOK
    PROVE  \A t \in Threads : Places(t) \in Nat
BY DEF TypeOK, Places

\* enqueue_thread adds at most one entry, of the thread it is given.
LEMMA EnqueueCount ==
    ASSUME NEW Q, QueueType(Q), NEW x \in Threads
    PROVE  \A t \in Threads : Enqueue(Q, x)[t] <= Q[t] + On(t, x)
BY DEF Enqueue, QueueType, On

\* dequeue_thread from a heap with root r takes one entry of the thread it
\* returns, and the TOBE_REMOVED skip only takes entries away.
LEMMA DequeueFromCount ==
    ASSUME NEW Q, QueueType(Q), NEW key, NEW r \in Elems(Q)
    PROVE  \A o \in DequeueFrom(Q, key, r) :
              \A t \in Threads : o.rest[t] + On(t, o.res) <= Q[t]
<1> SUFFICES ASSUME NEW o \in DequeueFrom(Q, key, r), NEW t \in Threads
             PROVE  o.rest[t] + On(t, o.res) <= Q[t]
  OBVIOUS
<1>0. NoThread \notin Threads /\ r \in Threads /\ Q[r] > 0
  BY SchedAssumption DEF SchedAssumption, Elems
<1>1. CASE status[r] # "ToBeRemoved"
  <2>1. o = [res |-> r, rest |-> [Q EXCEPT ![r] = @ - 1]]
    BY <1>1 DEF DequeueFrom
  <2> QED
    BY <1>0, <2>1 DEF QueueType, On
<1>2. CASE status[r] = "ToBeRemoved" /\ Live(Q) = {}
  <2>1. o = [res |-> NoThread, rest |-> EmptyQueue]
    BY <1>2 DEF DequeueFrom
  <2> QED
    BY <1>0, <2>1 DEF QueueType, EmptyQueue, On
<1>3. CASE status[r] = "ToBeRemoved" /\ Live(Q) # {}
  <2>0. PICK x \in Earliest(Live(Q), key) :
            \E D \in Skipped(Q, key, r, x) :
               o = [res |-> x,
                    rest |-> [u \in Threads |-> IF u \in D THEN 0
                                                ELSE IF u = x THEN Q[u] - 1
                                                ELSE Q[u]]]
    BY <1>3 DEF DequeueFrom
  <2>1. PICK D \in Skipped(Q, key, r, x) :
            o = [res |-> x,
                 rest |-> [u \in Threads |-> IF u \in D THEN 0
                                             ELSE IF u = x THEN Q[u] - 1
                                             ELSE Q[u]]]
    BY <2>0
  <2>2. x \in Threads /\ Q[x] > 0 /\ x \notin D
    BY DEF Earliest, Live, Elems, Skipped
  <2> QED
    BY <2>1, <2>2 DEF QueueType, On
<1> QED
  BY <1>1, <1>2, <1>3

\* The same for dequeue_thread on any heap, empty or not.
LEMMA DequeueCount ==
    ASSUME NEW Q, QueueType(Q), NEW key
    PROVE  \A o \in Dequeue(Q, key) :
              \A t \in Threads : o.rest[t] + On(t, o.res) <= Q[t]
<1> SUFFICES ASSUME NEW o \in Dequeue(Q, key), NEW t \in Threads
             PROVE  o.rest[t] + On(t, o.res) <= Q[t]
  OBVIOUS
<1>1. CASE Size(Q) = 0
  <2>1. o = [res |-> NoThread, rest |-> Q]
    BY <1>1 DEF Dequeue
  <2>2. NoThread \notin Threads
    BY SchedAssumption DEF SchedAssumption
  <2> QED
    BY <2>1, <2>2 DEF QueueType, On
<1>2. CASE Size(Q) # 0
  <2>1. PICK r \in Roots(Q, key) : o \in DequeueFrom(Q, key, r)
    BY <1>2 DEF Dequeue
  <2>2. r \in Elems(Q)
    BY DEF Roots, Earliest
  <2> QED
    BY <2>1, <2>2, DequeueFromCount
<1> QED
  BY <1>1, <1>2

\* The tail "runnable, else aperiodic" moves one entry of the thread it
\* returns onto the CPU and otherwise only takes entries away.
LEMMA PickCount ==
    ASSUME NEW R, QueueType(R), NEW A, QueueType(A), NEW dl, NEW pr
    PROVE  \A o \in Pick(R, A, dl, pr) : \A t \in Threads :
              /\ o.run[t] + o.aper[t] + On(t, o.next) <= R[t] + A[t]
              /\ o.run[t] <= R[t]
              /\ o.aper[t] <= A[t]
<1> SUFFICES ASSUME NEW o \in Pick(R, A, dl, pr), NEW t \in Threads
             PROVE  /\ o.run[t] + o.aper[t] + On(t, o.next) <= R[t] + A[t]
                    /\ o.run[t] <= R[t]
                    /\ o.aper[t] <= A[t]
  OBVIOUS
<1>1. PICK d \in Dequeue(R, dl) :
         o \in IF d.res # NoThread
               THEN {[next |-> d.res, run |-> d.rest, aper |-> A]}
               ELSE {[next |-> a.res, run |-> d.rest, aper |-> a.rest] :
                        a \in Dequeue(A, pr)}
  BY DEF Pick
<1>2. DequeueResultType(d) /\ d.rest[t] + On(t, d.res) <= R[t]
  BY DequeueType, DequeueCount
<1>3. CASE d.res # NoThread
  <2>1. o = [next |-> d.res, run |-> d.rest, aper |-> A]
    BY <1>1, <1>3
  <2> QED
    BY <1>2, <2>1 DEF DequeueResultType, QueueType, On
<1>4. CASE d.res = NoThread
  <2>1. PICK a \in Dequeue(A, pr) :
           o = [next |-> a.res, run |-> d.rest, aper |-> a.rest]
    BY <1>1, <1>4
  <2>2. DequeueResultType(a) /\ a.rest[t] + On(t, a.res) <= A[t]
    BY DequeueType, DequeueCount
  <2>3. On(t, d.res) = 0
    BY <1>4, SchedAssumption DEF SchedAssumption, On
  <2> QED
    BY <1>2, <2>1, <2>2, <2>3 DEF DequeueResultType, QueueType, On
<1> QED
  BY <1>3, <1>4

\* set_timer for a periodic or sporadic thread with budget left: the
\* unsigned slice - run_time (work - run_time) does not wrap, and the
\* one-shot interval, the least of it and the time to the pending root,
\* ends no later than the budget does.
LEMMA TimerBound ==
    ASSUME NEW t \in Threads, Class[t] # "Aperiodic",
           NEW P, QueueType(P),
           NEW dl \in [Threads -> Nat], NEW rt \in [Threads -> Nat],
           now \in Nat, rt[t] < Budget(t)
    PROVE  Arm(TimerInterval(t, P, dl, rt)) # Disarmed =>
              Arm(TimerInterval(t, P, dl, rt)) + rt[t] <= now + Budget(t)
<1> DEFINE budget == CASE Class[t] = "Periodic" -> (Slice[t] - rt[t]) % Word
                       [] Class[t] = "Sporadic" -> (Work[t] - rt[t]) % Word
                       [] OTHER                 -> Quantum
           near   == CHOOSE r \in Roots(P, dl) : TRUE
           I      == TimerInterval(t, P, dl, rt)
<1>0. /\ Word \in Nat \ {0}
      /\ Slice[t] \in Nat /\ Slice[t] < Word
      /\ Work[t] \in Nat /\ Work[t] < Word
      /\ Class[t] \in {"Periodic", "Sporadic"}
  BY SchedAssumption, WordAssumption DEF SchedAssumption, WordAssumption, Classes
<1>1. budget = Budget(t) - rt[t]
  <2>1. Budget(t) - rt[t] \in 0..Word-1
    BY <1>0 DEF Budget
  <2>2. (Budget(t) - rt[t]) % Word = Budget(t) - rt[t]
    BY <1>0, <2>1
  <2> QED
    BY <1>0, <2>2 DEF Budget
<1>2. I <= budget
  <2>0. budget \in Int
    BY <1>0, <1>1 DEF Budget
  <2>1. CASE Elems(P) # {}
    <3>1. near \in Threads
      BY <2>1, RootExists DEF Roots, Earliest, Elems
    <3>2. (dl[near] - now) % Word \in Nat
      BY <3>1, <1>0
    <3> QED
      BY <2>0, <2>1, <3>2 DEF I, TimerInterval, Umin
  <2>2. CASE Elems(P) = {}
    BY <2>0, <2>2 DEF I, TimerInterval
  <2> QED
    BY <2>1, <2>2
<1>3. I \in Nat
  BY TimerIntervalType DEF I
<1>4. Budget(t) \in Nat /\ rt[t] \in Nat
  BY <1>0 DEF Budget
<1> QED
  BY <1>1, <1>2, <1>3, <1>4 DEF I, Arm, Disarmed

\* The end of every branch of rt_need_resched keeps the invariant and
\* meets TimerWithinBudget when the branch hands it queues that hold no
\* more than the places the step started with, runnable entries with
\* budget, and a chosen thread with budget unless it is aperiodic.
LEMMA DispatchStep ==
    ASSUME BudgetInv,
           NEW next \in Threads \cup {NoThread},
           NEW R, QueueType(R), NEW P, QueueType(P), NEW A, QueueType(A),
           NEW dl \in [Threads -> Nat], NEW rt \in [Threads -> Nat],
           NEW pr \in [Threads -> Nat],
           \A t \in Threads : R[t] + P[t] + A[t] + On(t, next) <= Places(t),
           \A t \in Threads : R[t] > 0 =>
              Class[t] # "Aperiodic" /\ rt[t] < Budget(t),
           \A t \in Threads : P[t] > 0 => Class[t] = "Periodic",
           \A t \in Threads : A[t] > 0 => Class[t] = "Aperiodic",
           next \in Threads /\ Class[next] # "Aperiodic" =>
              rt[next] < Budget(next),
           Dispatch(next, R, P, A, dl, rt, pr)
    PROVE  BudgetInv' /\ BudgetStep
<1>1. TypeOK'
  BY DispatchType DEF BudgetInv
<1>2. CASE next = NoThread
  <2>1. /\ phase' = "panic"
        /\ UNCHANGED <<now, cur, status, runnable, pending, aperiodic,
                       exited, runTime, deadline, prio, expiry>>
    BY <1>2 DEF Dispatch
  <2>2. BudgetInv'
    BY <1>1, <2>1 DEF BudgetInv, Places
  <2>3. BudgetStep
    BY <2>1 DEF BudgetStep, Dispatched
  <2> QED
    BY <2>2, <2>3
<1>3. CASE next # NoThread
  <2>1. /\ cur' = next /\ runnable' = R /\ pending' = P /\ aperiodic' = A
        /\ runTime' = rt /\ expiry' = Arm(TimerInterval(next, P, dl, rt))
        /\ phase' = "run" /\ now' = now /\ status' = status
    BY <1>3 DEF Dispatch
  <2>2. \A t \in Threads : Places(t)' \in Nat /\ Places(t)' <= Places(t)
    BY <2>1 DEF Places, On, QueueType
  <2>3. BudgetInv'
    <3>1. \A t \in Threads : status[t]' = "Unborn" => Places(t)' = 0
      BY <2>1, <2>2 DEF BudgetInv
    <3>2. \A t \in Threads \ {Main} : Places(t)' <= 1
      <4>1. \A t \in Threads : Places(t) \in Nat
        BY PlacesNat DEF BudgetInv
      <4> QED
        BY <2>2, <4>1 DEF BudgetInv
    <3>3. \A t \in Threads : runnable'[t] > 0 =>
             Class[t] # "Aperiodic" /\ runTime'[t] < Budget(t)
      BY <2>1
    <3> QED
      BY <1>1, <2>1, <3>1, <3>2, <3>3 DEF BudgetInv
  <2>4. BudgetStep
    <3> SUFFICES ASSUME Class[next] # "Aperiodic"
                 PROVE  /\ rt[next] < Budget(next)
                        /\ Arm(TimerInterval(next, P, dl, rt)) # Disarmed =>
                              Arm(TimerInterval(next, P, dl, rt)) + rt[next]
                                 <= now + Budget(next)
      BY <2>1 DEF BudgetStep
    <3>1. next \in Threads /\ now \in Nat
      BY <1>3 DEF BudgetInv, TypeOK
    <3>2. rt[next] < Budget(next)
      BY <3>1
    <3> QED
      BY <3>1, <3>2, TimerBound
  <2> QED
    BY <2>3, <2>4
<1> QED
  BY <1>2, <1>3

-----------------------------------------------------------------------------
(* The branches of rt_need_resched.                                        *)

\* case APERIODIC: the running thread goes back on aperiodic and runnable,
\* else aperiodic, supplies the next one.
LEMMA ScheduleAperiodicStep ==
    ASSUME BudgetInv, ScheduleAperiodic
    PROVE  BudgetInv' /\ BudgetStep
<1> DEFINE pr == [prio EXCEPT ![cur] = runTime[cur]]
           A0 == Enqueue(aperiodic, cur)
<1>0. /\ QueueType(runnable) /\ QueueType(pending) /\ QueueType(aperiodic)
      /\ cur \in Threads /\ pr \in [Threads -> Nat]
  BY DEF BudgetInv, TypeOK, QueueType
<1>1. QueueType(A0) /\ \A t \in Threads : A0[t] <= aperiodic[t] + On(t, cur)
  BY <1>0, EnqueueType, EnqueueCount
<1>2. PICK o \in Pick(runnable, A0, deadline, pr) :
         Dispatch(o.next, o.run, pending, o.aper, deadline, runTime, pr)
  BY DEF ScheduleAperiodic
<1>3. /\ o.next \in Threads \cup {NoThread}
      /\ QueueType(o.run) /\ QueueType(o.aper)
      /\ \A t \in Threads :
            /\ o.run[t] + o.aper[t] + On(t, o.next) <= runnable[t] + A0[t]
            /\ o.run[t] <= runnable[t]
            /\ o.aper[t] <= A0[t]
  BY <1>0, <1>1, PickType, PickCount
<1>4. Class[cur] = "Aperiodic"
  BY DEF ScheduleAperiodic
<1>5. \A t \in Threads : o.aper[t] > 0 => Class[t] = "Aperiodic"
  BY <1>0, <1>1, <1>3, <1>4 DEF BudgetInv, QueueType, On
<1>6. o.next \in Threads /\ Class[o.next] # "Aperiodic" =>
         runTime[o.next] < Budget(o.next)
  BY <1>0, <1>1, <1>3, <1>4 DEF BudgetInv, QueueType, On
<1>7. \A t \in Threads :
         o.run[t] + pending[t] + o.aper[t] + On(t, o.next) <= Places(t)
  BY <1>0, <1>1, <1>3 DEF Places, QueueType, On
<1>8. \A t \in Threads : o.run[t] > 0 =>
         Class[t] # "Aperiodic" /\ runTime[t] < Budget(t)
  BY <1>0, <1>3 DEF BudgetInv, QueueType
<1> QED
  <2>1. deadline \in [Threads -> Nat] /\ runTime \in [Threads -> Nat]
    BY DEF BudgetInv, TypeOK
  <2>2. \A t \in Threads : pending[t] > 0 => Class[t] = "Periodic"
    BY DEF BudgetInv
  <2> QED
    BY <1>0, <1>2, <1>3, <1>5, <1>6, <1>7, <1>8, <2>1, <2>2, DispatchStep

\* The facts every branch starts from: the heaps are counts of entries.
LEMMA BranchBasics ==
    ASSUME BudgetInv
    PROVE  /\ QueueType(runnable) /\ QueueType(pending) /\ QueueType(aperiodic)
           /\ cur \in Threads /\ now \in Nat
           /\ deadline \in [Threads -> Nat] /\ runTime \in [Threads -> Nat]
           /\ prio \in [Threads -> Nat]
BY DEF BudgetInv, TypeOK, QueueType

\* case SPORADIC, work done: the thread is dropped and runnable, else
\* aperiodic, supplies the next one.
LEMMA ScheduleSporadicDoneStep ==
    ASSUME BudgetInv, ScheduleSporadicDone
    PROVE  BudgetInv' /\ BudgetStep
<1>0. /\ QueueType(runnable) /\ QueueType(pending) /\ QueueType(aperiodic)
      /\ cur \in Threads /\ deadline \in [Threads -> Nat]
      /\ runTime \in [Threads -> Nat] /\ prio \in [Threads -> Nat]
  BY BranchBasics
<1>1. PICK o \in Pick(runnable, aperiodic, deadline, prio) :
         Dispatch(o.next, o.run, pending, o.aper, deadline, runTime, prio)
  BY DEF ScheduleSporadicDone
<1>2. /\ o.next \in Threads \cup {NoThread}
      /\ QueueType(o.run) /\ QueueType(o.aper)
      /\ \A t \in Threads :
            /\ o.run[t] + o.aper[t] + On(t, o.next) <= runnable[t] + aperiodic[t]
            /\ o.run[t] <= runnable[t]
            /\ o.aper[t] <= aperiodic[t]
  BY <1>0, PickType, PickCount
<1>3. \A t \in Threads : o.aper[t] > 0 => Class[t] = "Aperiodic"
  BY <1>0, <1>2 DEF BudgetInv, QueueType
<1>4. o.next \in Threads /\ Class[o.next] # "Aperiodic" =>
         runTime[o.next] < Budget(o.next)
  BY <1>0, <1>2 DEF BudgetInv, QueueType, On
<1>5. \A t \in Threads :
         o.run[t] + pending[t] + o.aper[t] + On(t, o.next) <= Places(t)
  BY <1>0, <1>2 DEF Places, QueueType, On
<1>6. \A t \in Threads : o.run[t] > 0 =>
         Class[t] # "Aperiodic" /\ runTime[t] < Budget(t)
  BY <1>0, <1>2 DEF BudgetInv, QueueType
<1>7. \A t \in Threads : pending[t] > 0 => Class[t] = "Periodic"
  BY DEF BudgetInv
<1> QED
  BY <1>0, <1>1, <1>2, <1>3, <1>4, <1>5, <1>6, <1>7, DispatchStep

\* case SPORADIC or PERIODIC with budget left and an earlier deadline at
\* the runnable root: the root takes the CPU and the current thread goes
\* back on runnable, or, when the skip leaves nothing, the current thread
\* keeps the CPU.
LEMMA SchedulePreemptStep ==
    ASSUME BudgetInv, SchedulePreempt
    PROVE  BudgetInv' /\ BudgetStep
<1>0. /\ QueueType(runnable) /\ QueueType(pending) /\ QueueType(aperiodic)
      /\ cur \in Threads /\ deadline \in [Threads -> Nat]
      /\ runTime \in [Threads -> Nat] /\ prio \in [Threads -> Nat]
  BY BranchBasics
<1>1. Class[cur] # "Aperiodic" /\ runTime[cur] < Budget(cur)
  BY DEF SchedulePreempt
<1>2. PICK r \in Roots(runnable, deadline) :
         \E o \in DequeueFrom(runnable, deadline, r) :
            IF o.res # NoThread
            THEN Dispatch(o.res, Enqueue(o.rest, cur), pending, aperiodic,
                          deadline, runTime, prio)
            ELSE Dispatch(cur, o.rest, pending, aperiodic,
                          deadline, runTime, prio)
  BY DEF SchedulePreempt
<1>3. PICK o \in DequeueFrom(runnable, deadline, r) :
         IF o.res # NoThread
         THEN Dispatch(o.res, Enqueue(o.rest, cur), pending, aperiodic,
                       deadline, runTime, prio)
         ELSE Dispatch(cur, o.rest, pending, aperiodic,
                       deadline, runTime, prio)
  BY <1>2
<1>4. /\ DequeueResultType(o)
      /\ \A t \in Threads : o.rest[t] + On(t, o.res) <= runnable[t]
  BY <1>0, DequeueFromType, DequeueFromCount DEF Roots, Earliest
<1>5. \A t \in Threads : pending[t] > 0 => Class[t] = "Periodic"
  BY DEF BudgetInv
<1>6. \A t \in Threads : aperiodic[t] > 0 => Class[t] = "Aperiodic"
  BY DEF BudgetInv
<1>7. CASE o.res # NoThread
  <2> DEFINE R0 == Enqueue(o.rest, cur)
  <2>1. /\ QueueType(R0)
        /\ \A t \in Threads : R0[t] <= o.rest[t] + On(t, cur)
    BY <1>0, <1>4, EnqueueType, EnqueueCount DEF DequeueResultType
  <2>2. \A t \in Threads :
           R0[t] + pending[t] + aperiodic[t] + On(t, o.res) <= Places(t)
    BY <1>0, <1>4, <2>1 DEF Places, QueueType, DequeueResultType, On
  <2>3. \A t \in Threads : R0[t] > 0 =>
           Class[t] # "Aperiodic" /\ runTime[t] < Budget(t)
    BY <1>0, <1>1, <1>4, <2>1 DEF BudgetInv, QueueType, DequeueResultType, On
  <2>4. o.res \in Threads /\ Class[o.res] # "Aperiodic" =>
           runTime[o.res] < Budget(o.res)
    BY <1>0, <1>4 DEF BudgetInv, QueueType, DequeueResultType, On
  <2> QED
    BY <1>0, <1>3, <1>4, <1>5, <1>6, <1>7, <2>1, <2>2, <2>3, <2>4,
       DispatchStep DEF DequeueResultType
<1>8. CASE o.res = NoThread
  <2>1. \A t \in Threads : o.rest[t] <= runnable[t]
    BY <1>0, <1>4, <1>8, SchedAssumption
       DEF SchedAssumption, On, QueueType, DequeueResultType
  <2>2. \A t \in Threads :
           o.rest[t] + pending[t] + aperiodic[t] + On(t, cur) <= Places(t)
    BY <1>0, <1>4, <2>1 DEF Places, On, QueueType, DequeueResultType
  <2>3. \A t \in Threads : o.rest[t] > 0 =>
           Class[t] # "Aperiodic" /\ runTime[t] < Budget(t)
    BY <1>0, <1>4, <2>1 DEF BudgetInv, QueueType, DequeueResultType
  <2> QED
    BY <1>0, <1>1, <1>3, <1>4, <1>5, <1>6, <1>8, <2>2, <2>3,
       DispatchStep DEF DequeueResultType
<1> QED
  BY <1>7, <1>8

\* case SPORADIC or PERIODIC with budget left and no earlier deadline: the
\* current thread keeps the CPU.
LEMMA ScheduleKeepStep ==
    ASSUME BudgetInv, ScheduleKeep
    PROVE  BudgetInv' /\ BudgetStep
<1>0. /\ QueueType(runnable) /\ QueueType(pending) /\ QueueType(aperiodic)
      /\ cur \in Threads /\ deadline \in [Threads -> Nat]
      /\ runTime \in [Threads -> Nat] /\ prio \in [Threads -> Nat]
  BY BranchBasics
<1>1. Class[cur] # "Aperiodic" /\ runTime[cur] < Budget(cur)
      /\ Dispatch(cur, runnable, pending, aperiodic, deadline, runTime, prio)
  BY DEF ScheduleKeep
<1>2. \A t \in Threads :
         runnable[t] + pending[t] + aperiodic[t] + On(t, cur) <= Places(t)
  BY <1>0 DEF Places, On, QueueType
<1> QED
  BY <1>0, <1>1, <1>2, DispatchStep DEF BudgetInv

\* case PERIODIC, slice consumed: on a missed deadline the thread is
\* released at once onto runnable with run_time reset, else it waits on
\* pending; runnable, else aperiodic, supplies the next one.
LEMMA SchedulePeriodicDoneStep ==
    ASSUME BudgetInv, SchedulePeriodicDone
    PROVE  BudgetInv' /\ BudgetStep
<1>0. /\ QueueType(runnable) /\ QueueType(pending) /\ QueueType(aperiodic)
      /\ cur \in Threads /\ deadline \in [Threads -> Nat]
      /\ runTime \in [Threads -> Nat] /\ prio \in [Threads -> Nat]
  BY BranchBasics
<1>1. Class[cur] = "Periodic"
  BY DEF SchedulePeriodicDone
<1>2. \A t \in Threads : pending[t] > 0 => Class[t] = "Periodic"
  BY DEF BudgetInv
<1>3. \A t \in Threads : aperiodic[t] > 0 => Class[t] = "Aperiodic"
  BY DEF BudgetInv
<1>4. CASE DeadlineMissed(cur)
  <2> DEFINE u  == UpdatePeriodic(cur)
             R0 == Enqueue(runnable, cur)
  <2>1. /\ u.dl \in [Threads -> Nat]
        /\ u.rt = [runTime EXCEPT ![cur] = 0]
    BY <1>0, <1>1, UpdatePeriodicType DEF BudgetInv, UpdatePeriodic
  <2>2. /\ QueueType(R0)
        /\ \A t \in Threads : R0[t] <= runnable[t] + On(t, cur)
    BY <1>0, EnqueueType, EnqueueCount
  <2>3. PICK o \in Pick(R0, aperiodic, u.dl, prio) :
           Dispatch(o.next, o.run, pending, o.aper, u.dl, u.rt, prio)
    BY <1>4 DEF SchedulePeriodicDone
  <2>4. /\ o.next \in Threads \cup {NoThread}
        /\ QueueType(o.run) /\ QueueType(o.aper)
        /\ \A t \in Threads :
              /\ o.run[t] + o.aper[t] + On(t, o.next) <= R0[t] + aperiodic[t]
              /\ o.run[t] <= R0[t]
              /\ o.aper[t] <= aperiodic[t]
    BY <1>0, <2>2, PickType, PickCount
  <2>5. \A t \in Threads : R0[t] > 0 =>
           Class[t] # "Aperiodic" /\ u.rt[t] < Budget(t)
    <3>1. Slice[cur] > 0
      BY <1>0, SchedAssumption DEF SchedAssumption
    <3> QED
      BY <1>0, <1>1, <2>1, <2>2, <3>1 DEF BudgetInv, QueueType, On, Budget
  <2>6. \A t \in Threads : o.run[t] > 0 =>
           Class[t] # "Aperiodic" /\ u.rt[t] < Budget(t)
    BY <1>0, <2>2, <2>4, <2>5 DEF QueueType
  <2>7. \A t \in Threads : o.aper[t] > 0 => Class[t] = "Aperiodic"
    BY <1>0, <1>3, <2>4 DEF QueueType
  <2>8. o.next \in Threads /\ Class[o.next] # "Aperiodic" =>
           u.rt[o.next] < Budget(o.next)
    BY <1>0, <1>3, <2>2, <2>4, <2>5 DEF QueueType, On
  <2>9. \A t \in Threads :
           o.run[t] + pending[t] + o.aper[t] + On(t, o.next) <= Places(t)
    BY <1>0, <2>2, <2>4 DEF Places, QueueType, On
  <2>10. u.rt \in [Threads -> Nat]
    BY <1>0, <2>1
  <2> QED
    BY <1>0, <1>2, <2>1, <2>3, <2>4, <2>6, <2>7, <2>8, <2>9, <2>10,
       DispatchStep
<1>5. CASE ~DeadlineMissed(cur)
  <2> DEFINE P0 == Enqueue(pending, cur)
  <2>1. /\ QueueType(P0)
        /\ \A t \in Threads : P0[t] <= pending[t] + On(t, cur)
    BY <1>0, EnqueueType, EnqueueCount
  <2>2. PICK o \in Pick(runnable, aperiodic, deadline, prio) :
           Dispatch(o.next, o.run, P0, o.aper, deadline, runTime, prio)
    BY <1>5 DEF SchedulePeriodicDone
  <2>3. /\ o.next \in Threads \cup {NoThread}
        /\ QueueType(o.run) /\ QueueType(o.aper)
        /\ \A t \in Threads :
              /\ o.run[t] + o.aper[t] + On(t, o.next) <= runnable[t] + aperiodic[t]
              /\ o.run[t] <= runnable[t]
              /\ o.aper[t] <= aperiodic[t]
    BY <1>0, PickType, PickCount
  <2>4. \A t \in Threads : P0[t] > 0 => Class[t] = "Periodic"
    BY <1>0, <1>1, <1>2, <2>1 DEF QueueType, On
  <2>5. \A t \in Threads : o.run[t] > 0 =>
           Class[t] # "Aperiodic" /\ runTime[t] < Budget(t)
    BY <1>0, <2>3 DEF BudgetInv, QueueType
  <2>6. \A t \in Threads : o.aper[t] > 0 => Class[t] = "Aperiodic"
    BY <1>0, <1>3, <2>3 DEF QueueType
  <2>7. o.next \in Threads /\ Class[o.next] # "Aperiodic" =>
           runTime[o.next] < Budget(o.next)
    BY <1>0, <1>3, <2>3 DEF BudgetInv, QueueType, On
  <2>8. \A t \in Threads :
           o.run[t] + P0[t] + o.aper[t] + On(t, o.next) <= Places(t)
    BY <1>0, <2>1, <2>3 DEF Places, QueueType, On
  <2> QED
    BY <1>0, <2>1, <2>2, <2>3, <2>4, <2>5, <2>6, <2>7, <2>8, DispatchStep
<1> QED
  BY <1>4, <1>5

-----------------------------------------------------------------------------
(* The steps outside the class switch.                                     *)

\* A step that leaves every status alone and only moves or drops entries
\* keeps the first two conjuncts of the invariant.
LEMMA PlacesShrink ==
    ASSUME BudgetInv, TypeOK', status' = status,
           \A t \in Threads : Places(t)' <= Places(t)
    PROVE  /\ \A t \in Threads : status'[t] = "Unborn" => Places(t)' = 0
           /\ \A t \in Threads \ {Main} : Places(t)' <= 1
<1>1. \A t \in Threads : Places(t) \in Nat
  BY PlacesNat DEF BudgetInv
<1>2. /\ runnable' \in [Threads -> Nat] /\ pending' \in [Threads -> Nat]
      /\ aperiodic' \in [Threads -> Nat]
  BY DEF TypeOK
<1>3. \A t \in Threads : Places(t)' \in Nat
  BY <1>2 DEF Places
<1> QED
  BY <1>1, <1>3 DEF BudgetInv

\* The running thread has no entry on runnable: a periodic or sporadic one
\* is in one place, the CPU, and the bootstrap thread is aperiodic.
LEMMA CurNotRunnable ==
    ASSUME BudgetInv
    PROVE  runnable[cur] = 0
<1>0. cur \in Threads /\ Places(cur) \in Nat /\ runnable[cur] \in Nat
      /\ pending[cur] \in Nat /\ aperiodic[cur] \in Nat
  BY PlacesNat DEF BudgetInv, TypeOK
<1>1. CASE cur = Main
  BY <1>1, SchedAssumption DEF SchedAssumption, BudgetInv, TypeOK
<1>2. CASE cur # Main
  BY <1>0, <1>2 DEF BudgetInv, Places
<1> QED
  BY <1>1, <1>2

\* The running thread is billed a cycle: it has no runnable entry whose
\* budget this could use up.
LEMMA TickStep ==
    ASSUME BudgetInv, Tick
    PROVE  BudgetInv' /\ BudgetStep
<1>1. TypeOK'
  BY TypeNext DEF BudgetInv, Next
<1>2. \A t \in Threads : Places(t)' = Places(t)
  BY DEF Tick, Places
<1>3. \A t \in Threads : runnable'[t] > 0 =>
         Class[t] # "Aperiodic" /\ runTime'[t] < Budget(t)
  BY CurNotRunnable DEF Tick, BudgetInv, TypeOK
<1>4. BudgetInv'
  BY <1>1, <1>2, <1>3, PlacesShrink DEF Tick, BudgetInv
<1> QED
  BY <1>4 DEF Tick, BudgetStep, Dispatched

\* The timer fires, the thread yields, or the release loop ends: only the
\* phase and the timer change.
LEMMA EntryStep ==
    ASSUME BudgetInv, TimerInterrupt \/ Yield \/ ReleaseDone
    PROVE  BudgetInv' /\ BudgetStep
<1>1. TypeOK'
  BY TypeNext DEF BudgetInv, Next
<1>2. UNCHANGED <<cur, status, runnable, pending, aperiodic, runTime>>
      /\ phase' # "run"
  BY DEF TimerInterrupt, Yield, ReleaseDone
<1>3. BudgetInv'
  BY <1>1, <1>2 DEF BudgetInv, Places
<1> QED
  BY <1>2, <1>3 DEF BudgetStep, Dispatched

\* One turn of the release loop moves the pending root (a periodic
\* thread) to runnable with run_time reset, or only discards entries.
LEMMA ReleaseStepStep ==
    ASSUME BudgetInv, ReleaseStep
    PROVE  BudgetInv' /\ BudgetStep
<1>0. /\ QueueType(runnable) /\ QueueType(pending) /\ QueueType(aperiodic)
      /\ cur \in Threads /\ deadline \in [Threads -> Nat]
      /\ runTime \in [Threads -> Nat] /\ prio \in [Threads -> Nat]
  BY BranchBasics
<1>1. TypeOK'
  BY TypeNext DEF BudgetInv, Next
<1>2. UNCHANGED <<phase, cur, status, aperiodic>> /\ phase = "drain"
  BY DEF ReleaseStep
<1> SUFFICES BudgetInv'
  BY <1>2 DEF BudgetStep, Dispatched
<1>3. PICK r \in Roots(pending, deadline) :
         \E o \in DequeueFrom(pending, deadline, r) :
            /\ pending' = o.rest
            /\ IF o.res = NoThread
               THEN UNCHANGED <<runnable, deadline, runTime>>
               ELSE LET u == UpdatePeriodic(o.res)
                    IN  /\ deadline' = u.dl
                        /\ runTime' = u.rt
                        /\ runnable' = Enqueue(runnable, o.res)
  BY DEF ReleaseStep
<1>4. PICK o \in DequeueFrom(pending, deadline, r) :
         /\ pending' = o.rest
         /\ IF o.res = NoThread
            THEN UNCHANGED <<runnable, deadline, runTime>>
            ELSE LET u == UpdatePeriodic(o.res)
                 IN  /\ deadline' = u.dl
                     /\ runTime' = u.rt
                     /\ runnable' = Enqueue(runnable, o.res)
  BY <1>3
<1>5. /\ DequeueResultType(o)
      /\ \A t \in Threads : o.rest[t] + On(t, o.res) <= pending[t]
  BY <1>0, DequeueFromType, DequeueFromCount DEF Roots, Earliest
<1>6. \A t \in Threads : pending'[t] > 0 => Class[t] = "Periodic"
  BY <1>0, <1>4, <1>5 DEF BudgetInv, QueueType, DequeueResultType, On
<1>7. CASE o.res = NoThread
  <2>1. \A t \in Threads : Places(t)' <= Places(t)
    BY <1>0, <1>2, <1>4, <1>5, <1>7, SchedAssumption
       DEF SchedAssumption, Places, On, QueueType, DequeueResultType
  <2>2. \A t \in Threads : runnable'[t] > 0 =>
           Class[t] # "Aperiodic" /\ runTime'[t] < Budget(t)
    BY <1>4, <1>7 DEF BudgetInv
  <2> QED
    BY <1>1, <1>2, <1>6, <2>1, <2>2, PlacesShrink DEF BudgetInv
<1>8. CASE o.res # NoThread
  <2>1. o.res \in Threads /\ pending[o.res] > 0 /\ Class[o.res] = "Periodic"
    BY <1>0, <1>5, <1>8 DEF BudgetInv, QueueType, DequeueResultType, On
  <2>2. /\ runTime' = [runTime EXCEPT ![o.res] = 0]
        /\ runnable' = Enqueue(runnable, o.res)
    BY <1>4, <1>8, <2>1 DEF UpdatePeriodic
  <2>3. /\ QueueType(runnable')
        /\ \A t \in Threads : runnable'[t] <= runnable[t] + On(t, o.res)
    BY <1>0, <2>1, <2>2, EnqueueType, EnqueueCount
  <2>4. \A t \in Threads : Places(t)' <= Places(t)
    BY <1>0, <1>2, <1>4, <1>5, <2>3
       DEF Places, On, QueueType, DequeueResultType
  <2>5. \A t \in Threads : runnable'[t] > 0 =>
           Class[t] # "Aperiodic" /\ runTime'[t] < Budget(t)
    <3>1. Slice[o.res] > 0
      BY <2>1, SchedAssumption DEF SchedAssumption
    <3> QED
      BY <1>0, <2>1, <2>2, <2>3, <3>1 DEF BudgetInv, QueueType, On, Budget
  <2> QED
    BY <1>1, <1>2, <1>6, <2>4, <2>5, PlacesShrink DEF BudgetInv
<1> QED
  BY <1>7, <1>8

\* rt_thread_init and rt_admit give a descriptor not yet created a status
\* and at most one entry, so it is in at most one place afterwards.
LEMMA CreatePlaces ==
    ASSUME BudgetInv, TypeOK', NEW t \in Threads, status[t] = "Unborn",
           NEW X, X # "Unborn", status' = [status EXCEPT ![t] = X],
           \A u \in Threads : Places(u)' <= Places(u) + On(u, t)
    PROVE  /\ \A u \in Threads : status'[u] = "Unborn" => Places(u)' = 0
           /\ \A u \in Threads \ {Main} : Places(u)' <= 1
<1>1. \A u \in Threads : Places(u) \in Nat
  BY PlacesNat DEF BudgetInv
<1>2. /\ runnable' \in [Threads -> Nat] /\ pending' \in [Threads -> Nat]
      /\ aperiodic' \in [Threads -> Nat] /\ status \in [Threads -> Statuses]
  BY DEF TypeOK, BudgetInv
<1>3. \A u \in Threads : Places(u)' \in Nat
  BY <1>2 DEF Places
<1>4. Places(t) = 0
  BY DEF BudgetInv
<1> QED
  BY <1>1, <1>3, <1>4, <1>2 DEF BudgetInv, On

\* A thread is created and offered to rt_admit by the running thread: it
\* is parked on the heap of its class with run_time 0, or refused, or the
\* sporadic test divides by zero.
LEMMA CreateThreadStep ==
    ASSUME BudgetInv, NEW t \in Threads, CreateThread(t)
    PROVE  BudgetInv' /\ BudgetStep
<1>0. /\ QueueType(runnable) /\ QueueType(pending) /\ QueueType(aperiodic)
      /\ cur \in Threads /\ deadline \in [Threads -> Nat]
      /\ runTime \in [Threads -> Nat] /\ prio \in [Threads -> Nat]
  BY BranchBasics
<1>1. TypeOK'
  BY TypeNext DEF BudgetInv, Next
<1>2. /\ status[t] = "Unborn" /\ phase = "run" /\ cur' = cur
      /\ runTime' = [runTime EXCEPT ![t] = 0]
  BY DEF CreateThread
<1>3. runnable[t] = 0 /\ pending[t] = 0 /\ aperiodic[t] = 0 /\ t # cur
  <2>1. Places(t) = 0
    BY <1>2 DEF BudgetInv
  <2>2. /\ runnable[t] \in Nat /\ pending[t] \in Nat /\ aperiodic[t] \in Nat
        /\ On(t, cur) \in Nat
    BY <1>0 DEF QueueType, On
  <2>3. runnable[t] + pending[t] + aperiodic[t] + On(t, cur) = 0
    BY <2>1 DEF Places, On
  <2>4. runnable[t] = 0 /\ pending[t] = 0 /\ aperiodic[t] = 0 /\ On(t, cur) = 0
    BY <2>2, <2>3, NatSumZero, Zenon
  <2> QED
    BY <2>4 DEF On
<1> SUFFICES BudgetInv'
  BY <1>2 DEF BudgetStep, Dispatched
<1>4. \A u \in Threads : u # t => runTime'[u] = runTime[u]
  BY <1>0, <1>2
<1>5. Budget(t) > 0
  BY SchedAssumption DEF SchedAssumption, Budget
<1>6. CASE Class[t] = "Sporadic" /\ SporDivByZero(runnable)
  <2>1. UNCHANGED <<status, runnable, pending, aperiodic>>
    BY <1>6 DEF CreateThread
  <2>2. \A u \in Threads : Places(u)' <= Places(u)
    BY <1>0, <1>2, <2>1 DEF Places, QueueType
  <2>3. \A u \in Threads : runnable'[u] > 0 =>
           Class[u] # "Aperiodic" /\ runTime'[u] < Budget(u)
    BY <1>3, <1>4, <2>1 DEF BudgetInv
  <2> QED
    BY <1>1, <2>1, <2>2, <2>3, PlacesShrink DEF BudgetInv
<1>7. CASE ~(Class[t] = "Sporadic" /\ SporDivByZero(runnable)) /\ ~Admissible(t)
  <2>1. /\ status' = [status EXCEPT ![t] = "Arrived"]
        /\ UNCHANGED <<runnable, pending, aperiodic>>
    BY <1>7 DEF CreateThread
  <2>2. \A u \in Threads : Places(u)' <= Places(u) + On(u, t)
    BY <1>0, <1>2, <2>1 DEF Places, QueueType, On
  <2>3. \A u \in Threads : runnable'[u] > 0 =>
           Class[u] # "Aperiodic" /\ runTime'[u] < Budget(u)
    BY <1>3, <1>4, <2>1 DEF BudgetInv
  <2> QED
    BY <1>1, <1>2, <2>1, <2>2, <2>3, CreatePlaces DEF BudgetInv
<1>8. CASE ~(Class[t] = "Sporadic" /\ SporDivByZero(runnable)) /\ Admissible(t)
  <2>0. status' = [status EXCEPT ![t] = "Admitted"]
    BY <1>8 DEF CreateThread
  <2>1. /\ QueueType(Enqueue(runnable, t))
        /\ QueueType(Enqueue(pending, t))
        /\ QueueType(Enqueue(aperiodic, t))
        /\ \A u \in Threads :
              /\ Enqueue(runnable, t)[u] <= runnable[u] + On(u, t)
              /\ Enqueue(pending, t)[u] <= pending[u] + On(u, t)
              /\ Enqueue(aperiodic, t)[u] <= aperiodic[u] + On(u, t)
    BY <1>0, EnqueueType, EnqueueCount
  <2>2. deadline' = [deadline EXCEPT ![t] = InitDeadline(t)]
    BY DEF CreateThread
  <2>3. CASE Class[t] = "Periodic" /\ InitDeadline(t) > now
    <3>1. pending' = Enqueue(pending, t) /\ UNCHANGED <<runnable, aperiodic>>
      BY <1>0, <1>8, <2>3 DEF CreateThread
    <3>2. \A u \in Threads : Places(u)' <= Places(u) + On(u, t)
      <4> SUFFICES ASSUME NEW u \in Threads
                   PROVE  Places(u)' <= Places(u) + On(u, t)
        OBVIOUS
      <4>1. /\ pending'[u] <= pending[u] + On(u, t)
            /\ runnable' = runnable /\ aperiodic' = aperiodic /\ cur' = cur
        BY <1>2, <2>1, <3>1
      <4> QED
        BY <1>0, <2>1, <3>1, <4>1 DEF Places, QueueType, On
    <3>3. \A u \in Threads : runnable'[u] > 0 =>
             Class[u] # "Aperiodic" /\ runTime'[u] < Budget(u)
      BY <1>3, <1>4, <3>1 DEF BudgetInv
    <3>4. \A u \in Threads : pending'[u] > 0 => Class[u] = "Periodic"
      BY <1>0, <2>1, <2>3, <3>1 DEF BudgetInv, QueueType, On
    <3> QED
      BY <1>1, <1>2, <2>0, <3>1, <3>2, <3>3, <3>4, CreatePlaces DEF BudgetInv
  <2>4. CASE ~(Class[t] = "Periodic" /\ InitDeadline(t) > now)
             /\ Class[t] = "Aperiodic"
    <3>1. aperiodic' = Enqueue(aperiodic, t) /\ UNCHANGED <<runnable, pending>>
      BY <1>0, <1>8, <2>4 DEF CreateThread
    <3>2. \A u \in Threads : Places(u)' <= Places(u) + On(u, t)
      <4> SUFFICES ASSUME NEW u \in Threads
                   PROVE  Places(u)' <= Places(u) + On(u, t)
        OBVIOUS
      <4>1. /\ aperiodic'[u] <= aperiodic[u] + On(u, t)
            /\ runnable' = runnable /\ pending' = pending /\ cur' = cur
        BY <1>2, <2>1, <3>1
      <4> QED
        BY <1>0, <2>1, <3>1, <4>1 DEF Places, QueueType, On
    <3>3. \A u \in Threads : runnable'[u] > 0 =>
             Class[u] # "Aperiodic" /\ runTime'[u] < Budget(u)
      BY <1>3, <1>4, <3>1 DEF BudgetInv
    <3>4. \A u \in Threads : aperiodic'[u] > 0 => Class[u] = "Aperiodic"
      BY <1>0, <2>1, <2>4, <3>1 DEF BudgetInv, QueueType, On
    <3> QED
      BY <1>1, <1>2, <2>0, <3>1, <3>2, <3>3, <3>4, CreatePlaces DEF BudgetInv
  <2>5. CASE ~(Class[t] = "Periodic" /\ InitDeadline(t) > now)
             /\ Class[t] # "Aperiodic"
    <3>1. runnable' = Enqueue(runnable, t) /\ UNCHANGED <<pending, aperiodic>>
      BY <1>0, <1>8, <2>5 DEF CreateThread
    <3>2. \A u \in Threads : Places(u)' <= Places(u) + On(u, t)
      <4> SUFFICES ASSUME NEW u \in Threads
                   PROVE  Places(u)' <= Places(u) + On(u, t)
        OBVIOUS
      <4>1. /\ runnable'[u] <= runnable[u] + On(u, t)
            /\ pending' = pending /\ aperiodic' = aperiodic /\ cur' = cur
        BY <1>2, <2>1, <3>1
      <4> QED
        BY <1>0, <2>1, <3>1, <4>1 DEF Places, QueueType, On
    <3>3. \A u \in Threads : runnable'[u] > 0 =>
             Class[u] # "Aperiodic" /\ runTime'[u] < Budget(u)
      <4> SUFFICES ASSUME NEW u \in Threads, runnable'[u] > 0
                   PROVE  Class[u] # "Aperiodic" /\ runTime'[u] < Budget(u)
        OBVIOUS
      <4>1. CASE u = t
        BY <1>0, <1>2, <1>5, <2>5, <4>1
      <4>2. CASE u # t
        <5>1. runnable[u] > 0
          BY <1>0, <2>1, <3>1, <4>2 DEF QueueType, On
        <5> QED
          BY <1>4, <4>2, <5>1 DEF BudgetInv
      <4> QED
        BY <4>1, <4>2
    <3> QED
      BY <1>1, <1>2, <2>0, <3>1, <3>2, <3>3, CreatePlaces DEF BudgetInv
  <2> QED
    BY <2>3, <2>4, <2>5
<1> QED
  BY <1>6, <1>7, <1>8

\* rt_thread_exit only marks the thread and pushes it on the exited ring.
LEMMA ExitThreadStep ==
    ASSUME BudgetInv, NEW t \in Threads, ExitThread(t)
    PROVE  BudgetInv' /\ BudgetStep
<1>1. TypeOK'
  BY TypeNext DEF BudgetInv, Next
<1>2. /\ status[t] = "Admitted" /\ status' = [status EXCEPT ![t] = "ToBeRemoved"]
      /\ UNCHANGED <<phase, cur, runnable, pending, aperiodic, runTime>>
      /\ phase = "run"
  BY DEF ExitThread
<1>3. \A u \in Threads : status'[u] = "Unborn" => status[u] = "Unborn"
  BY <1>2 DEF BudgetInv, TypeOK
<1>4. BudgetInv'
  BY <1>1, <1>2, <1>3 DEF BudgetInv, Places
<1> QED
  BY <1>2, <1>4 DEF BudgetStep, Dispatched

-----------------------------------------------------------------------------
(* The theorems.                                                           *)

\* Every step of the dispatcher keeps the invariant and meets
\* TimerWithinBudget.
LEMMA BudgetNext ==
    BudgetInv /\ [Next]_vars => BudgetInv' /\ [BudgetStep]_vars
<1> SUFFICES ASSUME BudgetInv, [Next]_vars
             PROVE  BudgetInv' /\ [BudgetStep]_vars
  OBVIOUS
<1>1. CASE Tick
  BY <1>1, TickStep
<1>2. CASE TimerInterrupt \/ Yield \/ ReleaseDone
  BY <1>2, EntryStep
<1>3. CASE ReleaseStep
  BY <1>3, ReleaseStepStep
<1>4. CASE ScheduleAperiodic
  BY <1>4, ScheduleAperiodicStep
<1>5. CASE ScheduleSporadicDone
  BY <1>5, ScheduleSporadicDoneStep
<1>6. CASE SchedulePreempt
  BY <1>6, SchedulePreemptStep
<1>7. CASE ScheduleKeep
  BY <1>7, ScheduleKeepStep
<1>8. CASE SchedulePeriodicDone
  BY <1>8, SchedulePeriodicDoneStep
<1>9. ASSUME NEW t \in Threads, CreateThread(t)
      PROVE  BudgetInv' /\ [BudgetStep]_vars
  BY <1>9, CreateThreadStep
<1>10. ASSUME NEW t \in Threads, ExitThread(t)
       PROVE  BudgetInv' /\ [BudgetStep]_vars
  BY <1>10, ExitThreadStep
<1>11. CASE UNCHANGED vars
  BY <1>11 DEF BudgetInv, TypeOK, Places, vars
<1> QED
  BY <1>1, <1>2, <1>3, <1>4, <1>5, <1>6, <1>7, <1>8, <1>9, <1>10, <1>11
     DEF Next, Schedule

\* rt_scheduler_init starts in the invariant: only the bootstrap thread
\* exists, running and with one entry on aperiodic.
LEMMA BudgetInit == Init => BudgetInv
<1> SUFFICES ASSUME Init PROVE BudgetInv
  OBVIOUS
<1>1. TypeOK
  BY SchedAssumption DEF Init, TypeOK, SchedAssumption,
     EmptyQueue, Phases, Statuses, Disarmed
<1> QED
  BY <1>1, SchedAssumption DEF Init, BudgetInv, TypeOK, SchedAssumption,
     Places, EmptyQueue

\* No descriptor other than the bootstrap thread is ever in two places (two
\* heap entries, or an entry and the CPU), every runnable entry has budget
\* left, and the heaps hold only threads of their class: through every
\* branch of rt_need_resched, the release loop with its TOBE_REMOVED skip,
\* rt_admit and rt_thread_exit.
THEOREM BudgetInvariant == Spec => []BudgetInv
BY BudgetInit, BudgetNext, PTL DEF Spec

\* Every periodic or sporadic thread rt_need_resched returns has budget left,
\* and the one-shot timer set_timer arms ends within that budget: the
\* uint64_t subtraction slice - run_time (work - run_time) never wraps.
THEOREM TimerBudget == Spec => TimerWithinBudget
<1>1. Spec => []BudgetInv
  BY BudgetInvariant
<1>2. BudgetInv /\ [Next]_vars => [BudgetStep]_vars
  BY BudgetNext
<1> QED
  BY <1>1, <1>2, PTL DEF Spec, TimerWithinBudget, BudgetStep

\* The "at most one place" half of ThreadAccounted, for every instance.
THEOREM NoThreadDuplicated ==
    Spec => [](\A t \in Threads \ {Main} : Places(t) <= 1)
<1>1. BudgetInv => \A t \in Threads \ {Main} : Places(t) <= 1
  BY DEF BudgetInv
<1> QED
  BY <1>1, BudgetInvariant, PTL

====
