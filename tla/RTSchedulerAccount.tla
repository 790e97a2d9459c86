------------------------- MODULE RTSchedulerAccount -------------------------
(***************************************************************************)
(* Proofs that the dispatcher loses no thread and never panics: every live *)
(* admitted thread is in exactly one place, and the bootstrap thread is    *)
(* always on the CPU or on aperiodic, so rt_need_resched always has a      *)
(* thread to return.  enqueue_thread drops a descriptor when its heap is   *)
(* full, so this needs room: the proofs assume fewer descriptors than      *)
(* MAX_QUEUE.  With that, every heap holds at most one entry per thread    *)
(* and two of the bootstrap thread (rt_scheduler_init leaves it on         *)
(* aperiodic while it runs), so no heap a thread is put on is full.        *)
(***************************************************************************)
EXTENDS RTSchedulerBudget, SumLemmas

\* Room for every descriptor and the bootstrap thread's second entry.
Room == IsFiniteSet(Threads) /\ Cardinality(Threads) < MaxQueue

\* The inductive invariant: BudgetInv, the bootstrap thread is admitted and
\* in two places (on aperiodic, and on aperiodic again or on the CPU),
\* every other admitted thread whose job is not done is in one place, and
\* the dispatcher has not panicked.
AccInv ==
    /\ BudgetInv
    /\ status[Main] = "Admitted"
    /\ Places(Main) = 2
    /\ \A t \in Threads \ {Main} :
          status[t] = "Admitted" /\ ~JobDone(t) => Places(t) = 1
    /\ phase # "panic"

-----------------------------------------------------------------------------
(* Room on the heaps.                                                      *)

\* A heap with at most one entry per thread, and at most two of the
\* bootstrap thread only when some other thread has none, is not full.
LEMMA QueueRoom ==
    ASSUME Room, NEW Q, QueueType(Q),
           \A u \in Threads \ {Main} : Q[u] <= 1,
           \/ Q[Main] <= 1
           \/ Q[Main] <= 2 /\ \E z \in Threads \ {Main} : Q[z] = 0
    PROVE  Size(Q) < MaxQueue
<1> DEFINE T == Threads
           h == [u \in T |-> IF u = Main THEN 0 ELSE Q[u]]
           Ind(U) == [u \in T |-> IF u \in U THEN 1 ELSE 0]
<1>0. /\ IsFiniteSet(T) /\ Cardinality(T) \in Nat /\ Cardinality(T) < MaxQueue
      /\ Main \in T /\ Q \in [T -> Nat] /\ h \in [T -> Nat]
  BY SchedAssumption, FS_CardinalityType DEF Room, SchedAssumption, QueueType
<1>2. SumFunction(h) \in Nat /\ SumFunction(Q) \in Nat
  BY <1>0, SumFunctionNat
<1>1. SumFunction(h) + Q[Main] = SumFunction(Q)
  <2>1. SumFunction(h) + Q[Main] = SumFunction(Q) + h[Main]
    BY <1>0, SumFunctionUpdate
  <2>2. h[Main] = 0 /\ Q[Main] \in Nat
    BY <1>0
  <2> QED
    BY <2>1, <2>2, <1>2
<1>3. /\ IsFiniteSet(T \ {Main})
      /\ Cardinality(T \ {Main}) = Cardinality(T) - 1
      /\ Cardinality(T \ {Main}) \in Nat
  BY <1>0, FS_RemoveElement, FS_Subset, FS_CardinalityType
<1>m. MaxQueue \in Nat /\ Q[Main] \in Nat
  BY <1>0, SchedAssumption DEF SchedAssumption
<1>4. CASE Q[Main] <= 1
  <2>1. SumFunction(h) <= SumFunction(Ind(T \ {Main}))
    <3>1. Ind(T \ {Main}) \in [T -> Nat] /\ \A u \in T : h[u] <= Ind(T \ {Main})[u]
      BY <1>0
    <3> QED
      BY <1>0, <3>1, SumFunctionMono
  <2>2. SumFunction(Ind(T \ {Main})) = Cardinality(T \ {Main})
    <3>1. T \cap (T \ {Main}) = T \ {Main}
      OBVIOUS
    <3> QED
      BY <1>0, <3>1, SumFunctionIndicator
  <2>3. PICK sh, sq : sh = SumFunction(h) /\ sq = SumFunction(Q)
    OBVIOUS
  <2>4. sh <= Cardinality(T) - 1 /\ sh + Q[Main] = sq /\ sh \in Nat /\ sq \in Nat
    BY <1>1, <1>2, <1>3, <2>1, <2>2, <2>3
  <2>5. sq < MaxQueue
    BY <1>0, <1>4, <1>m, <2>4
  <2> QED
    BY <2>3, <2>5 DEF Size
<1>5. CASE Q[Main] <= 2 /\ \E z \in Threads \ {Main} : Q[z] = 0
  <2>1. PICK z \in T \ {Main} : Q[z] = 0
    BY <1>5
  <2>2. Cardinality((T \ {Main}) \ {z}) = Cardinality(T) - 2
    <3>1. Cardinality((T \ {Main}) \ {z}) = Cardinality(T \ {Main}) - 1
      BY <1>3, <2>1, FS_RemoveElement
    <3> QED
      BY <1>0, <1>3, <3>1
  <2>3. SumFunction(h) <= SumFunction(Ind((T \ {Main}) \ {z}))
    <3>1. /\ Ind((T \ {Main}) \ {z}) \in [T -> Nat]
          /\ \A u \in T : h[u] <= Ind((T \ {Main}) \ {z})[u]
      BY <1>0, <2>1
    <3> QED
      BY <1>0, <3>1, SumFunctionMono
  <2>4. SumFunction(Ind((T \ {Main}) \ {z})) = Cardinality((T \ {Main}) \ {z})
    <3>1. T \cap ((T \ {Main}) \ {z}) = (T \ {Main}) \ {z}
      OBVIOUS
    <3> QED
      BY <1>0, <3>1, SumFunctionIndicator
  <2>5. PICK sh, sq : sh = SumFunction(h) /\ sq = SumFunction(Q)
    OBVIOUS
  <2>6. sh <= Cardinality(T) - 2 /\ sh + Q[Main] = sq /\ sh \in Nat /\ sq \in Nat
    BY <1>1, <1>2, <2>2, <2>3, <2>4, <2>5
  <2>7. sq < MaxQueue
    BY <1>0, <1>5, <1>m, <2>6
  <2> QED
    BY <2>5, <2>7 DEF Size
<1> QED
  BY <1>4, <1>5

\* enqueue_thread on a heap that is not full adds one entry.
LEMMA EnqueueExact ==
    ASSUME Room, NEW Q, QueueType(Q), NEW x \in Threads, Size(Q) < MaxQueue
    PROVE  \A t \in Threads : Enqueue(Q, x)[t] = Q[t] + On(t, x)
<1>1. Size(Q) \in Nat /\ MaxQueue \in Nat
  BY SumFunctionNat, SchedAssumption DEF Room, QueueType, Size, SchedAssumption
<1>2. Size(Q) # MaxQueue
  BY <1>1
<1> QED
  BY <1>2 DEF Enqueue, QueueType, On

\* A heap holding a live entry is not empty.
LEMMA LiveSize ==
    ASSUME Room, NEW Q, QueueType(Q), Live(Q) # {}
    PROVE  Size(Q) # 0
<1>1. PICK t \in Threads : Q[t] > 0
  BY DEF Live, Elems
<1>2. Q[t] <= SumFunction(Q) /\ Q[t] \in Nat
  BY <1>1, SumFunctionGe DEF Room, QueueType
<1> QED
  BY <1>1, <1>2 DEF Size
-----------------------------------------------------------------------------
(* dequeue_thread loses no live entry.                                     *)

\* dequeue_thread from a heap with root r moves one entry of the thread it
\* returns and discards only TOBE_REMOVED entries; it returns a thread
\* whenever the heap holds a live one.
LEMMA DequeueFromExact ==
    ASSUME NEW Q, QueueType(Q), NEW key, NEW r \in Elems(Q),
           NEW o \in DequeueFrom(Q, key, r)
    PROVE  /\ \A t \in Threads : status[t] # "ToBeRemoved" =>
                 o.rest[t] + On(t, o.res) = Q[t]
           /\ Live(Q) # {} => o.res # NoThread
<1>0. NoThread \notin Threads /\ r \in Threads
  BY SchedAssumption DEF SchedAssumption, Elems
<1>1. CASE status[r] # "ToBeRemoved"
  <2>1. o = [res |-> r, rest |-> [Q EXCEPT ![r] = @ - 1]]
    BY <1>1 DEF DequeueFrom
  <2> QED
    BY <1>0, <2>1 DEF QueueType, On, Elems
<1>2. CASE status[r] = "ToBeRemoved" /\ Live(Q) = {}
  <2>1. o = [res |-> NoThread, rest |-> EmptyQueue]
    BY <1>2 DEF DequeueFrom
  <2>2. \A t \in Threads : status[t] # "ToBeRemoved" => Q[t] = 0
    BY <1>2 DEF Live, Elems, QueueType
  <2> QED
    BY <1>0, <1>2, <2>1, <2>2 DEF EmptyQueue, On
<1>3. CASE status[r] = "ToBeRemoved" /\ Live(Q) # {}
  <2>0. PICK x \in Earliest(Live(Q), key) :
            \E D \in Skipped(Q, key, r, x) :
               o = [res |-> x,
                    rest |-> [u \in Threads |-> IF u \in D THEN 0
                                                ELSE IF u = x THEN Q[u] - 1
                                                ELSE Q[u]]]
    BY <1>3 DEF DequeueFrom
  <2>1. PICK D \in Skipped(Q, key, r, x) :
            o = [res |-> x,
                 rest |-> [u \in Threads |-> IF u \in D THEN 0
                                             ELSE IF u = x THEN Q[u] - 1
                                             ELSE Q[u]]]
    BY <2>0
  <2>2. x \in Threads /\ Q[x] > 0 /\ x \notin D
        /\ \A t \in D : status[t] = "ToBeRemoved"
    BY DEF Earliest, Live, Elems, Skipped
  <2> QED
    BY <1>0, <2>1, <2>2 DEF QueueType, On
<1> QED
  BY <1>1, <1>2, <1>3

\* The same for dequeue_thread on any heap, empty or not.
LEMMA DequeueExact ==
    ASSUME Room, NEW Q, QueueType(Q), NEW key, NEW o \in Dequeue(Q, key)
    PROVE  /\ \A t \in Threads : status[t] # "ToBeRemoved" =>
                 o.rest[t] + On(t, o.res) = Q[t]
           /\ Live(Q) # {} => o.res # NoThread
<1>1. CASE Size(Q) = 0
  <2>1. o = [res |-> NoThread, rest |-> Q]
    BY <1>1 DEF Dequeue
  <2>2. NoThread \notin Threads
    BY SchedAssumption DEF SchedAssumption
  <2>3. Live(Q) = {}
    BY <1>1, LiveSize
  <2> QED
    BY <2>1, <2>2, <2>3 DEF QueueType, On
<1>2. CASE Size(Q) # 0
  <2>1. PICK r \in Roots(Q, key) : o \in DequeueFrom(Q, key, r)
    BY <1>2 DEF Dequeue
  <2>2. r \in Elems(Q)
    BY DEF Roots, Earliest
  <2> QED
    BY <2>1, <2>2, DequeueFromExact
<1> QED
  BY <1>1, <1>2

\* The tail "runnable, else aperiodic" moves one entry of the thread it
\* returns onto the CPU and discards only TOBE_REMOVED entries; it returns
\* a thread whenever aperiodic holds a live one.
LEMMA PickExact ==
    ASSUME Room, NEW R, QueueType(R), NEW A, QueueType(A), NEW dl, NEW pr,
           NEW o \in Pick(R, A, dl, pr)
    PROVE  /\ \A t \in Threads : status[t] # "ToBeRemoved" =>
                 o.run[t] + o.aper[t] + On(t, o.next) = R[t] + A[t]
           /\ Live(A) # {} => o.next # NoThread
<1>1. PICK d \in Dequeue(R, dl) :
         o \in IF d.res # NoThread
               THEN {[next |-> d.res, run |-> d.rest, aper |-> A]}
               ELSE {[next |-> a.res, run |-> d.rest, aper |-> a.rest] :
                        a \in Dequeue(A, pr)}
  BY DEF Pick
<1>2. /\ DequeueResultType(d)
      /\ \A t \in Threads : status[t] # "ToBeRemoved" =>
            d.rest[t] + On(t, d.res) = R[t]
  BY DequeueType, DequeueExact
<1>3. CASE d.res # NoThread
  <2>1. o = [next |-> d.res, run |-> d.rest, aper |-> A]
    BY <1>1, <1>3
  <2> QED
    BY <1>2, <1>3, <2>1 DEF DequeueResultType, QueueType, On
<1>4. CASE d.res = NoThread
  <2>1. PICK a \in Dequeue(A, pr) :
           o = [next |-> a.res, run |-> d.rest, aper |-> a.rest]
    BY <1>1, <1>4
  <2>2. /\ DequeueResultType(a)
        /\ \A t \in Threads : status[t] # "ToBeRemoved" =>
              a.rest[t] + On(t, a.res) = A[t]
        /\ Live(A) # {} => a.res # NoThread
    BY DequeueType, DequeueExact
  <2>3. \A t \in Threads : On(t, d.res) = 0
    BY <1>4, SchedAssumption DEF SchedAssumption, On
  <2> QED
    BY <1>2, <2>1, <2>2, <2>3 DEF DequeueResultType, QueueType, On
<1> QED
  BY <1>3, <1>4
-----------------------------------------------------------------------------
(* What the invariant says of the heaps.                                   *)

\* The bootstrap thread (aperiodic) is never on runnable or pending, so it
\* has one entry on aperiodic while it runs and two otherwise; no other
\* thread has two entries, and one that runs has none.
LEMMA AccFacts ==
    ASSUME AccInv
    PROVE  /\ QueueType(runnable) /\ QueueType(pending) /\ QueueType(aperiodic)
           /\ cur \in Threads /\ runTime \in [Threads -> Nat]
           /\ runnable[Main] = 0 /\ pending[Main] = 0
           /\ aperiodic[Main] + On(Main, cur) = 2
           /\ \A u \in Threads \ {Main} :
                 runnable[u] <= 1 /\ pending[u] <= 1 /\ aperiodic[u] <= 1
           /\ cur # Main => runnable[cur] = 0 /\ pending[cur] = 0
                            /\ aperiodic[cur] = 0
           /\ Main \in Live([aperiodic EXCEPT ![cur] = @ + 1])
           /\ cur # Main => Main \in Live(aperiodic)
           /\ \A t \in Threads : On(t, cur) <= Places(t)
<1>0. /\ QueueType(runnable) /\ QueueType(pending) /\ QueueType(aperiodic)
      /\ cur \in Threads /\ runTime \in [Threads -> Nat]
      /\ Main \in Threads /\ Class[Main] = "Aperiodic"
  BY SchedAssumption DEF AccInv, BudgetInv, TypeOK, QueueType, SchedAssumption
<1>1. runnable[Main] = 0 /\ pending[Main] = 0
  BY <1>0 DEF AccInv, BudgetInv, QueueType
<1>2. aperiodic[Main] + On(Main, cur) = 2
  BY <1>0, <1>1 DEF AccInv, Places, On, QueueType
<1>3. \A u \in Threads \ {Main} :
         /\ runnable[u] <= 1 /\ pending[u] <= 1 /\ aperiodic[u] <= 1
         /\ u = cur => runnable[u] = 0 /\ pending[u] = 0 /\ aperiodic[u] = 0
  BY <1>0 DEF AccInv, BudgetInv, Places, QueueType
<1>4. status[Main] # "ToBeRemoved"
  BY DEF AccInv
<1>5. Main \in Live([aperiodic EXCEPT ![cur] = @ + 1])
  BY <1>0, <1>2, <1>4 DEF Live, Elems, On, QueueType
<1>6. cur # Main => Main \in Live(aperiodic)
  BY <1>0, <1>2, <1>4 DEF Live, Elems, On, QueueType
<1>7. \A t \in Threads : On(t, cur) <= Places(t)
  BY <1>0 DEF Places, On, QueueType
<1> QED
  BY <1>0, <1>1, <1>2, <1>3, <1>5, <1>6, <1>7

\* The end of every branch of rt_need_resched keeps the invariant when the
\* branch returns a thread, hands back the bootstrap thread's two places,
\* and leaves every other admitted thread whose job is not done somewhere.
LEMMA DispatchAcc ==
    ASSUME AccInv, BudgetInv', NEW next \in Threads,
           NEW R, QueueType(R), NEW P, QueueType(P), NEW A, QueueType(A),
           NEW dl, NEW rt, NEW pr,
           Dispatch(next, R, P, A, dl, rt, pr),
           R[Main] + P[Main] + A[Main] + On(Main, next) = 2,
           \A t \in Threads \ {Main} :
              status[t] = "Admitted" /\ ~(Class[t] = "Sporadic" /\ rt[t] >= Work[t])
                 => R[t] + P[t] + A[t] + On(t, next) >= 1
    PROVE  AccInv'
<1>0. NoThread \notin Threads
  BY SchedAssumption DEF SchedAssumption
<1>1. /\ cur' = next /\ runnable' = R /\ pending' = P /\ aperiodic' = A
      /\ runTime' = rt /\ phase' = "run" /\ status' = status
  BY <1>0 DEF Dispatch
<1>2. \A t \in Threads : Places(t)' = R[t] + P[t] + A[t] + On(t, next)
  BY <1>1 DEF Places, On
<1>3. \A t \in Threads \ {Main} : Places(t)' <= 1 /\ Places(t)' \in Nat
  BY <1>2 DEF BudgetInv, QueueType, On
<1>4. status'[Main] = "Admitted" /\ Places(Main)' = 2
  BY <1>1, <1>2, SchedAssumption DEF AccInv, SchedAssumption
<1>5. \A t \in Threads \ {Main} :
         status'[t] = "Admitted" /\ ~JobDone(t)' => Places(t)' = 1
  <2> SUFFICES ASSUME NEW t \in Threads \ {Main}, status'[t] = "Admitted",
                      ~JobDone(t)'
               PROVE  Places(t)' = 1
    OBVIOUS
  <2>1. status[t] = "Admitted" /\ ~(Class[t] = "Sporadic" /\ rt[t] >= Work[t])
    BY <1>1 DEF JobDone
  <2> QED
    BY <1>2, <1>3, <2>1
<1> QED
  BY <1>1, <1>4, <1>5 DEF AccInv
-----------------------------------------------------------------------------
(* The branches of rt_need_resched.                                        *)

\* case APERIODIC: the running thread goes back on aperiodic, which has
\* room, and the bootstrap thread is then on aperiodic, so the tail
\* "runnable, else aperiodic" finds a thread.
LEMMA ScheduleAperiodicAcc ==
    ASSUME Room, AccInv, ScheduleAperiodic
    PROVE  AccInv'
<1> DEFINE pr == [prio EXCEPT ![cur] = runTime[cur]]
           A0 == Enqueue(aperiodic, cur)
<1>0. /\ QueueType(runnable) /\ QueueType(pending) /\ QueueType(aperiodic)
      /\ cur \in Threads /\ runTime \in [Threads -> Nat]
      /\ runnable[Main] = 0 /\ pending[Main] = 0
      /\ aperiodic[Main] + On(Main, cur) = 2
      /\ \A u \in Threads \ {Main} :
            runnable[u] <= 1 /\ pending[u] <= 1 /\ aperiodic[u] <= 1
      /\ cur # Main => runnable[cur] = 0 /\ pending[cur] = 0
                       /\ aperiodic[cur] = 0
      /\ Main \in Live([aperiodic EXCEPT ![cur] = @ + 1])
  BY AccFacts
<1>1. BudgetInv'
  BY ScheduleAperiodicStep DEF AccInv
<1>2. Size(aperiodic) < MaxQueue
  <2>1. CASE cur = Main
    BY <1>0, <2>1, QueueRoom DEF On, QueueType
  <2>2. CASE cur # Main
    <3>1. cur \in Threads \ {Main} /\ aperiodic[cur] = 0
      BY <1>0, <2>2
    <3>2. aperiodic[Main] <= 2
      BY <1>0, <2>2, SchedAssumption DEF On, QueueType, SchedAssumption
    <3>3. \E z \in Threads \ {Main} : aperiodic[z] = 0
      BY <3>1
    <3> QED
      BY <1>0, <3>2, <3>3, QueueRoom
  <2> QED
    BY <2>1, <2>2
<1>3. QueueType(A0) /\ \A t \in Threads : A0[t] = aperiodic[t] + On(t, cur)
  BY <1>0, <1>2, EnqueueType, EnqueueExact
<1>4. A0 = [aperiodic EXCEPT ![cur] = @ + 1]
  BY <1>0, <1>3 DEF QueueType, On
<1>4a. Live(A0) # {}
  BY <1>0, <1>4
<1>5. PICK o \in Pick(runnable, A0, deadline, pr) :
         Dispatch(o.next, o.run, pending, o.aper, deadline, runTime, pr)
  BY DEF ScheduleAperiodic
<1>6. /\ o.next \in Threads \cup {NoThread}
      /\ QueueType(o.run) /\ QueueType(o.aper)
      /\ \A t \in Threads : status[t] # "ToBeRemoved" =>
            o.run[t] + o.aper[t] + On(t, o.next) = runnable[t] + A0[t]
      /\ o.next # NoThread
  <2>1. o.next \in Threads \cup {NoThread} /\ QueueType(o.run) /\ QueueType(o.aper)
    BY <1>0, <1>3, PickType
  <2>2. /\ \A t \in Threads : status[t] # "ToBeRemoved" =>
              o.run[t] + o.aper[t] + On(t, o.next) = runnable[t] + A0[t]
        /\ o.next # NoThread
    BY <1>0, <1>3, <1>4a, PickExact
  <2> QED
    BY <2>1, <2>2
<1>7. status[Main] = "Admitted"
  BY DEF AccInv
<1>8. o.run[Main] + pending[Main] + o.aper[Main] + On(Main, o.next) = 2
  BY <1>0, <1>3, <1>6, <1>7, SchedAssumption DEF SchedAssumption, QueueType, On
<1>9. \A t \in Threads \ {Main} :
         status[t] = "Admitted" /\ ~(Class[t] = "Sporadic" /\ runTime[t] >= Work[t])
            => o.run[t] + pending[t] + o.aper[t] + On(t, o.next) >= 1
  <2> SUFFICES ASSUME NEW t \in Threads \ {Main}, status[t] = "Admitted",
                      ~(Class[t] = "Sporadic" /\ runTime[t] >= Work[t])
               PROVE  o.run[t] + pending[t] + o.aper[t] + On(t, o.next) >= 1
    OBVIOUS
  <2>1. Places(t) = 1
    BY DEF AccInv, JobDone
  <2>2. o.run[t] + o.aper[t] + On(t, o.next) = runnable[t] + A0[t]
    <3>1. status[t] # "ToBeRemoved"
      OBVIOUS
    <3> QED
      BY <1>6, <3>1
  <2>3. /\ o.run[t] \in Nat /\ o.aper[t] \in Nat /\ pending[t] \in Nat
        /\ runnable[t] \in Nat /\ aperiodic[t] \in Nat
    BY <1>0, <1>6 DEF QueueType
  <2> QED
    BY <1>3, <2>1, <2>2, <2>3 DEF Places, On
<1> QED
  BY <1>0, <1>1, <1>5, <1>6, <1>8, <1>9, DispatchAcc

\* case SPORADIC, work done: the thread, whose job is done, is dropped; the
\* bootstrap thread is on aperiodic, so the tail finds a thread.
LEMMA ScheduleSporadicDoneAcc ==
    ASSUME Room, AccInv, ScheduleSporadicDone
    PROVE  AccInv'
<1>0. /\ QueueType(runnable) /\ QueueType(pending) /\ QueueType(aperiodic)
      /\ cur \in Threads /\ runTime \in [Threads -> Nat]
      /\ runnable[Main] = 0 /\ pending[Main] = 0
      /\ aperiodic[Main] + On(Main, cur) = 2
      /\ cur # Main => Main \in Live(aperiodic)
  BY AccFacts
<1>1. BudgetInv'
  BY ScheduleSporadicDoneStep DEF AccInv
<1>2. Class[cur] = "Sporadic" /\ runTime[cur] >= Work[cur] /\ cur # Main
  BY SchedAssumption DEF ScheduleSporadicDone, SchedAssumption
<1>3. PICK o \in Pick(runnable, aperiodic, deadline, prio) :
         Dispatch(o.next, o.run, pending, o.aper, deadline, runTime, prio)
  BY DEF ScheduleSporadicDone
<1>4. /\ o.next \in Threads \cup {NoThread}
      /\ QueueType(o.run) /\ QueueType(o.aper)
      /\ \A t \in Threads : status[t] # "ToBeRemoved" =>
            o.run[t] + o.aper[t] + On(t, o.next) = runnable[t] + aperiodic[t]
      /\ o.next # NoThread
  BY <1>0, <1>2, PickType, PickExact
<1>5. o.run[Main] + pending[Main] + o.aper[Main] + On(Main, o.next) = 2
  <2>1. status[Main] = "Admitted" /\ Main \in Threads
    BY SchedAssumption DEF AccInv, SchedAssumption
  <2> QED
    BY <1>0, <1>2, <1>4, <2>1 DEF QueueType, On
<1>6. \A t \in Threads \ {Main} :
         status[t] = "Admitted" /\ ~(Class[t] = "Sporadic" /\ runTime[t] >= Work[t])
            => o.run[t] + pending[t] + o.aper[t] + On(t, o.next) >= 1
  <2> SUFFICES ASSUME NEW t \in Threads \ {Main}, status[t] = "Admitted",
                      ~(Class[t] = "Sporadic" /\ runTime[t] >= Work[t])
               PROVE  o.run[t] + pending[t] + o.aper[t] + On(t, o.next) >= 1
    OBVIOUS
  <2>1. Places(t) = 1 /\ t # cur
    BY <1>2 DEF AccInv, JobDone
  <2> QED
    BY <1>0, <1>4, <2>1 DEF Places, QueueType, On
<1> QED
  BY <1>0, <1>1, <1>3, <1>4, <1>5, <1>6, DispatchAcc
\* case SPORADIC or PERIODIC with an earlier deadline at the runnable
\* root: the root takes the CPU and the current thread goes back on
\* runnable, which has room, or the current thread keeps the CPU.
LEMMA SchedulePreemptAcc ==
    ASSUME Room, AccInv, SchedulePreempt
    PROVE  AccInv'
<1>0. /\ QueueType(runnable) /\ QueueType(pending) /\ QueueType(aperiodic)
      /\ cur \in Threads /\ runTime \in [Threads -> Nat]
      /\ runnable[Main] = 0 /\ pending[Main] = 0
      /\ aperiodic[Main] + On(Main, cur) = 2
      /\ \A u \in Threads \ {Main} : runnable[u] <= 1
      /\ \A t \in Threads : On(t, cur) <= Places(t)
  BY AccFacts
<1>1. BudgetInv'
  BY SchedulePreemptStep DEF AccInv
<1>2. PICK r \in Roots(runnable, deadline) :
         \E o \in DequeueFrom(runnable, deadline, r) :
            IF o.res # NoThread
            THEN Dispatch(o.res, Enqueue(o.rest, cur), pending, aperiodic,
                          deadline, runTime, prio)
            ELSE Dispatch(cur, o.rest, pending, aperiodic,
                          deadline, runTime, prio)
  BY DEF SchedulePreempt
<1>3. PICK o \in DequeueFrom(runnable, deadline, r) :
         IF o.res # NoThread
         THEN Dispatch(o.res, Enqueue(o.rest, cur), pending, aperiodic,
                       deadline, runTime, prio)
         ELSE Dispatch(cur, o.rest, pending, aperiodic,
                       deadline, runTime, prio)
  BY <1>2
<1>4. /\ DequeueResultType(o)
      /\ \A t \in Threads : o.rest[t] + On(t, o.res) <= runnable[t]
      /\ \A t \in Threads : status[t] # "ToBeRemoved" =>
            o.rest[t] + On(t, o.res) = runnable[t]
  BY <1>0, DequeueFromType, DequeueFromCount, DequeueFromExact DEF Roots, Earliest
<1>5. /\ status[Main] = "Admitted" /\ Main \in Threads
      /\ \A t \in Threads \ {Main} :
            status[t] = "Admitted" /\ ~JobDone(t) => Places(t) = 1
  BY SchedAssumption DEF AccInv, SchedAssumption
<1>6. CASE o.res # NoThread
  <2> DEFINE R0 == Enqueue(o.rest, cur)
  <2>1. /\ o.res \in Threads /\ QueueType(o.rest)
        /\ \A u \in Threads : o.rest[u] <= runnable[u]
    BY <1>0, <1>4, <1>6 DEF DequeueResultType, QueueType, On
  <2>2. Size(o.rest) < MaxQueue
    <3>1. /\ \A u \in Threads \ {Main} : o.rest[u] <= 1
          /\ o.rest[Main] <= 1
      BY <1>0, <1>5, <2>1 DEF QueueType
    <3> QED
      BY <2>1, <3>1, QueueRoom
  <2>3. QueueType(R0) /\ \A t \in Threads : R0[t] = o.rest[t] + On(t, cur)
    BY <1>0, <2>1, <2>2, EnqueueType, EnqueueExact
  <2>4. Dispatch(o.res, R0, pending, aperiodic, deadline, runTime, prio)
    BY <1>3, <1>6
  <2>5. \A t \in Threads : status[t] # "ToBeRemoved" =>
           R0[t] + pending[t] + aperiodic[t] + On(t, o.res) = Places(t)
    BY <1>0, <1>4, <2>1, <2>3 DEF Places, QueueType, On
  <2>6. R0[Main] + pending[Main] + aperiodic[Main] + On(Main, o.res) = 2
    BY <1>0, <1>4, <1>5, <2>1, <2>3 DEF QueueType, On
  <2>7. \A t \in Threads \ {Main} :
           status[t] = "Admitted" /\ ~(Class[t] = "Sporadic" /\ runTime[t] >= Work[t])
              => R0[t] + pending[t] + aperiodic[t] + On(t, o.res) >= 1
    BY <1>5, <2>5 DEF JobDone
  <2> QED
    BY <1>0, <1>1, <2>1, <2>3, <2>4, <2>6, <2>7, DispatchAcc
<1>7. CASE o.res = NoThread
  <2>1. /\ QueueType(o.rest)
        /\ \A t \in Threads : On(t, o.res) = 0
    BY <1>4, <1>7, SchedAssumption DEF DequeueResultType, On, SchedAssumption
  <2>2. Dispatch(cur, o.rest, pending, aperiodic, deadline, runTime, prio)
    BY <1>3, <1>7
  <2>3. \A t \in Threads : status[t] # "ToBeRemoved" =>
           o.rest[t] + pending[t] + aperiodic[t] + On(t, cur) = Places(t)
    BY <1>0, <1>4, <2>1 DEF Places, QueueType, On
  <2>4. o.rest[Main] + pending[Main] + aperiodic[Main] + On(Main, cur) = 2
    BY <1>0, <1>5, <2>3 DEF AccInv
  <2>5. \A t \in Threads \ {Main} :
           status[t] = "Admitted" /\ ~(Class[t] = "Sporadic" /\ runTime[t] >= Work[t])
              => o.rest[t] + pending[t] + aperiodic[t] + On(t, cur) >= 1
    BY <1>5, <2>3 DEF JobDone
  <2> QED
    BY <1>0, <1>1, <2>1, <2>2, <2>4, <2>5, DispatchAcc
<1> QED
  BY <1>6, <1>7

\* case SPORADIC or PERIODIC with no earlier deadline: nothing moves.
LEMMA ScheduleKeepAcc ==
    ASSUME Room, AccInv, ScheduleKeep
    PROVE  AccInv'
<1>0. /\ QueueType(runnable) /\ QueueType(pending) /\ QueueType(aperiodic)
      /\ cur \in Threads /\ runTime \in [Threads -> Nat]
  BY AccFacts
<1>1. BudgetInv'
  BY ScheduleKeepStep DEF AccInv
<1>2. Dispatch(cur, runnable, pending, aperiodic, deadline, runTime, prio)
  BY DEF ScheduleKeep
<1>3. \A t \in Threads :
         runnable[t] + pending[t] + aperiodic[t] + On(t, cur) = Places(t)
  BY DEF Places, On
<1>4. /\ Places(Main) = 2 /\ Main \in Threads
      /\ \A t \in Threads \ {Main} :
            status[t] = "Admitted" /\ ~JobDone(t) => Places(t) = 1
  BY SchedAssumption DEF AccInv, SchedAssumption
<1> QED
  BY <1>0, <1>1, <1>2, <1>3, <1>4, DispatchAcc DEF JobDone
\* case PERIODIC, slice consumed: the thread goes on runnable (deadline
\* missed) or pending, which have room, and the bootstrap thread is on
\* aperiodic, so the tail finds a thread.
LEMMA SchedulePeriodicDoneAcc ==
    ASSUME Room, AccInv, SchedulePeriodicDone
    PROVE  AccInv'
<1>0. /\ QueueType(runnable) /\ QueueType(pending) /\ QueueType(aperiodic)
      /\ cur \in Threads /\ runTime \in [Threads -> Nat]
      /\ runnable[Main] = 0 /\ pending[Main] = 0
      /\ aperiodic[Main] + On(Main, cur) = 2
      /\ \A u \in Threads \ {Main} : runnable[u] <= 1 /\ pending[u] <= 1
      /\ cur # Main => Main \in Live(aperiodic)
  BY AccFacts
<1>1. BudgetInv'
  BY SchedulePeriodicDoneStep DEF AccInv
<1>2. Class[cur] = "Periodic" /\ cur # Main
  BY SchedAssumption DEF SchedulePeriodicDone, SchedAssumption
<1>3. /\ status[Main] = "Admitted" /\ Main \in Threads
      /\ \A t \in Threads \ {Main} :
            status[t] = "Admitted" /\ ~JobDone(t) => Places(t) = 1
  BY SchedAssumption DEF AccInv, SchedAssumption
<1>4. /\ Size(runnable) < MaxQueue /\ Size(pending) < MaxQueue
  BY <1>0, <1>3, QueueRoom
<1>5. CASE DeadlineMissed(cur)
  <2> DEFINE u  == UpdatePeriodic(cur)
             R0 == Enqueue(runnable, cur)
  <2>1. u.rt = [runTime EXCEPT ![cur] = 0]
    BY <1>2 DEF UpdatePeriodic
  <2>2. QueueType(R0) /\ \A t \in Threads : R0[t] = runnable[t] + On(t, cur)
    BY <1>0, <1>4, EnqueueType, EnqueueExact
  <2>3. PICK o \in Pick(R0, aperiodic, u.dl, prio) :
           Dispatch(o.next, o.run, pending, o.aper, u.dl, u.rt, prio)
    BY <1>5 DEF SchedulePeriodicDone
  <2>4. /\ o.next \in Threads \cup {NoThread}
        /\ QueueType(o.run) /\ QueueType(o.aper)
    BY <1>0, <2>2, PickType
  <2>5. /\ \A t \in Threads : status[t] # "ToBeRemoved" =>
              o.run[t] + o.aper[t] + On(t, o.next) = R0[t] + aperiodic[t]
        /\ o.next # NoThread
    BY <1>0, <1>2, <2>2, PickExact
  <2>6. \A t \in Threads : status[t] # "ToBeRemoved" =>
           o.run[t] + pending[t] + o.aper[t] + On(t, o.next) = Places(t)
    <3> SUFFICES ASSUME NEW t \in Threads, status[t] # "ToBeRemoved"
                 PROVE  o.run[t] + pending[t] + o.aper[t] + On(t, o.next) = Places(t)
      OBVIOUS
    <3>1. o.run[t] + o.aper[t] + On(t, o.next) = runnable[t] + On(t, cur) + aperiodic[t]
      BY <2>2, <2>5
    <3>2. /\ o.run[t] \in Nat /\ o.aper[t] \in Nat /\ pending[t] \in Nat
          /\ runnable[t] \in Nat /\ aperiodic[t] \in Nat
      BY <1>0, <2>4 DEF QueueType
    <3>3. /\ Places(t) = runnable[t] + pending[t] + aperiodic[t] + On(t, cur)
          /\ On(t, cur) \in Nat /\ On(t, o.next) \in Nat
      BY DEF Places, On
    <3>4. /\ o.run[t] \in Int /\ o.aper[t] \in Int /\ pending[t] \in Int
          /\ runnable[t] \in Int /\ aperiodic[t] \in Int
          /\ On(t, cur) \in Int /\ On(t, o.next) \in Int
      BY <3>2, <3>3
    <3>5. o.run[t] + pending[t] + o.aper[t] + On(t, o.next)
            = runnable[t] + pending[t] + aperiodic[t] + On(t, cur)
      BY <3>1, <3>4
    <3> QED
      BY <3>3, <3>5
  <2>7. o.run[Main] + pending[Main] + o.aper[Main] + On(Main, o.next) = 2
    BY <1>3, <2>6 DEF AccInv
  <2>8. \A t \in Threads \ {Main} :
           status[t] = "Admitted" /\ ~(Class[t] = "Sporadic" /\ u.rt[t] >= Work[t])
              => o.run[t] + pending[t] + o.aper[t] + On(t, o.next) >= 1
    <3> SUFFICES ASSUME NEW t \in Threads \ {Main}, status[t] = "Admitted",
                        ~(Class[t] = "Sporadic" /\ u.rt[t] >= Work[t])
                 PROVE  o.run[t] + pending[t] + o.aper[t] + On(t, o.next) >= 1
      OBVIOUS
    <3>1. CASE t = cur
      BY <1>0, <2>6, <3>1 DEF Places, On, QueueType
    <3>2. CASE t # cur
      <4>1. Places(t) = 1
        BY <1>3, <2>1, <3>2 DEF JobDone
      <4> QED
        BY <2>6, <4>1
    <3> QED
      BY <3>1, <3>2
  <2> QED
    BY <1>0, <1>1, <2>2, <2>3, <2>4, <2>5, <2>7, <2>8, DispatchAcc
<1>6. CASE ~DeadlineMissed(cur)
  <2> DEFINE P0 == Enqueue(pending, cur)
  <2>1. QueueType(P0) /\ \A t \in Threads : P0[t] = pending[t] + On(t, cur)
    BY <1>0, <1>4, EnqueueType, EnqueueExact
  <2>2. PICK o \in Pick(runnable, aperiodic, deadline, prio) :
           Dispatch(o.next, o.run, P0, o.aper, deadline, runTime, prio)
    BY <1>6 DEF SchedulePeriodicDone
  <2>3. /\ o.next \in Threads \cup {NoThread}
        /\ QueueType(o.run) /\ QueueType(o.aper)
    BY <1>0, PickType
  <2>4. /\ \A t \in Threads : status[t] # "ToBeRemoved" =>
              o.run[t] + o.aper[t] + On(t, o.next) = runnable[t] + aperiodic[t]
        /\ o.next # NoThread
    BY <1>0, <1>2, PickExact
  <2>5. \A t \in Threads : status[t] # "ToBeRemoved" =>
           o.run[t] + P0[t] + o.aper[t] + On(t, o.next) = Places(t)
    <3> SUFFICES ASSUME NEW t \in Threads, status[t] # "ToBeRemoved"
                 PROVE  o.run[t] + P0[t] + o.aper[t] + On(t, o.next) = Places(t)
      OBVIOUS
    <3>1. o.run[t] + o.aper[t] + On(t, o.next) = runnable[t] + aperiodic[t]
      BY <2>4
    <3>2. /\ o.run[t] \in Nat /\ o.aper[t] \in Nat /\ pending[t] \in Nat
          /\ runnable[t] \in Nat /\ aperiodic[t] \in Nat
          /\ P0[t] = pending[t] + On(t, cur)
      BY <1>0, <2>1, <2>3 DEF QueueType
    <3> QED
      BY <3>1, <3>2 DEF Places, On
  <2>6. o.run[Main] + P0[Main] + o.aper[Main] + On(Main, o.next) = 2
    BY <1>3, <2>5 DEF AccInv
  <2>7. \A t \in Threads \ {Main} :
           status[t] = "Admitted" /\ ~(Class[t] = "Sporadic" /\ runTime[t] >= Work[t])
              => o.run[t] + P0[t] + o.aper[t] + On(t, o.next) >= 1
    <3> SUFFICES ASSUME NEW t \in Threads \ {Main}, status[t] = "Admitted",
                        ~(Class[t] = "Sporadic" /\ runTime[t] >= Work[t])
                 PROVE  o.run[t] + P0[t] + o.aper[t] + On(t, o.next) >= 1
      OBVIOUS
    <3>1. Places(t) = 1
      BY <1>3 DEF JobDone
    <3> QED
      BY <2>5, <3>1
  <2> QED
    BY <1>0, <1>1, <2>1, <2>2, <2>3, <2>4, <2>6, <2>7, DispatchAcc
<1> QED
  BY <1>5, <1>6


-----------------------------------------------------------------------------
(* The entry to rt_need_resched, the release loop and the thread calls.    *)

\* The running thread is billed a cycle: run_time only grows, so a job that
\* is done stays done, and no descriptor moves.
LEMMA TickAcc ==
    ASSUME AccInv, Tick
    PROVE  AccInv'
<1>0. runTime \in [Threads -> Nat] /\ cur \in Threads
  BY DEF AccInv, BudgetInv, TypeOK
<1>1. BudgetInv'
  BY TickStep DEF AccInv
<1>2. /\ UNCHANGED <<phase, cur, status, runnable, pending, aperiodic>>
      /\ runTime' = [runTime EXCEPT ![cur] = @ + 1]
  BY DEF Tick
<1>3. \A t \in Threads : runTime'[t] >= runTime[t]
  BY <1>0, <1>2
<1>4. \A t \in Threads : JobDone(t) => JobDone(t)'
  <2>1. \A t \in Threads : runTime'[t] \in Nat /\ Work[t] \in Nat
    BY <1>1, SchedAssumption DEF SchedAssumption, BudgetInv, TypeOK
  <2> QED
    BY <1>0, <1>3, <2>1 DEF JobDone
<1> QED
  BY <1>1, <1>2, <1>4 DEF AccInv, Places

\* The timer fires, the thread yields, or the release loop ends: no
\* descriptor moves, no run_time changes, and the phase is not the panic.
LEMMA EntryAcc ==
    ASSUME AccInv, TimerInterrupt \/ Yield \/ ReleaseDone
    PROVE  AccInv'
<1>1. BudgetInv'
  BY EntryStep DEF AccInv
<1>2. /\ UNCHANGED <<cur, status, runnable, pending, aperiodic, runTime>>
      /\ phase' \in {"drain", "select"}
  BY DEF TimerInterrupt, Yield, ReleaseDone
<1> QED
  BY <1>1, <1>2 DEF AccInv, Places, JobDone

\* rt_thread_exit marks a thread other than the bootstrap one TOBE_REMOVED,
\* which the invariant no longer constrains, and moves nothing.
LEMMA ExitThreadAcc ==
    ASSUME AccInv, NEW t \in Threads, ExitThread(t)
    PROVE  AccInv'
<1>1. BudgetInv'
  BY ExitThreadStep DEF AccInv
<1>2. /\ t # Main /\ status' = [status EXCEPT ![t] = "ToBeRemoved"]
      /\ UNCHANGED <<phase, cur, runnable, pending, aperiodic, runTime>>
  BY DEF ExitThread
<1>3. status \in [Threads -> Statuses]
  BY DEF AccInv, BudgetInv, TypeOK
<1> QED
  BY <1>1, <1>2, <1>3 DEF AccInv, Places, JobDone

\* One turn of the release loop moves the pending root to runnable, which
\* has room, and discards only TOBE_REMOVED entries: every live descriptor
\* keeps its count of places, and the one moved is periodic, so resetting
\* its run_time ends no job.
LEMMA ReleaseStepAcc ==
    ASSUME Room, AccInv, ReleaseStep
    PROVE  AccInv'
<1>0. /\ QueueType(runnable) /\ QueueType(pending) /\ QueueType(aperiodic)
      /\ cur \in Threads /\ runTime \in [Threads -> Nat]
      /\ runnable[Main] = 0
      /\ \A u \in Threads \ {Main} : runnable[u] <= 1
  BY AccFacts
<1>1. BudgetInv'
  BY ReleaseStepStep DEF AccInv
<1>2. UNCHANGED <<phase, cur, status, aperiodic>>
  BY DEF ReleaseStep
<1>3. PICK r \in Roots(pending, deadline) :
         \E o \in DequeueFrom(pending, deadline, r) :
            /\ pending' = o.rest
            /\ IF o.res = NoThread
               THEN UNCHANGED <<runnable, deadline, runTime>>
               ELSE LET u == UpdatePeriodic(o.res)
                    IN  /\ deadline' = u.dl
                        /\ runTime' = u.rt
                        /\ runnable' = Enqueue(runnable, o.res)
  BY DEF ReleaseStep
<1>4. PICK o \in DequeueFrom(pending, deadline, r) :
         /\ pending' = o.rest
         /\ IF o.res = NoThread
            THEN UNCHANGED <<runnable, deadline, runTime>>
            ELSE LET u == UpdatePeriodic(o.res)
                 IN  /\ deadline' = u.dl
                     /\ runTime' = u.rt
                     /\ runnable' = Enqueue(runnable, o.res)
  BY <1>3
<1>5. /\ DequeueResultType(o)
      /\ \A t \in Threads : o.rest[t] + On(t, o.res) <= pending[t]
      /\ \A t \in Threads : status[t] # "ToBeRemoved" =>
            o.rest[t] + On(t, o.res) = pending[t]
  BY <1>0, DequeueFromType, DequeueFromCount, DequeueFromExact
     DEF Roots, Earliest
<1>6. \A t \in Threads :
         /\ status[t] # "ToBeRemoved" => Places(t)' = Places(t)
         /\ JobDone(t)' = JobDone(t)
  <2>1. CASE o.res = NoThread
    <3>1. NoThread \notin Threads
      BY SchedAssumption DEF SchedAssumption
    <3> QED
      BY <1>0, <1>2, <1>4, <1>5, <2>1, <3>1
         DEF Places, On, QueueType, DequeueResultType, JobDone
  <2>2. CASE o.res # NoThread
    <3>1. o.res \in Threads /\ pending[o.res] > 0 /\ Class[o.res] = "Periodic"
      BY <1>0, <1>5, <2>2 DEF AccInv, BudgetInv, QueueType, DequeueResultType, On
    <3>2. /\ runTime' = [runTime EXCEPT ![o.res] = 0]
          /\ runnable' = Enqueue(runnable, o.res)
      BY <1>4, <2>2, <3>1 DEF UpdatePeriodic
    <3>3. Size(runnable) < MaxQueue
      BY <1>0, QueueRoom
    <3>4. \A t \in Threads : runnable'[t] = runnable[t] + On(t, o.res)
      BY <1>0, <3>1, <3>2, <3>3, EnqueueExact
    <3>5. \A t \in Threads : JobDone(t)' = JobDone(t)
      BY <1>0, <3>1, <3>2 DEF JobDone
    <3>6. ASSUME NEW t \in Threads, status[t] # "ToBeRemoved"
          PROVE  Places(t)' = Places(t)
      <4>1. /\ o.rest[t] \in Nat /\ runnable[t] \in Nat /\ pending[t] \in Nat
            /\ On(t, o.res) \in Nat
        BY <1>0, <1>5 DEF QueueType, DequeueResultType, On
      <4> QED
        BY <1>2, <1>4, <1>5, <3>4, <3>6, <4>1 DEF Places
    <3> QED
      BY <3>5, <3>6
  <2> QED
    BY <2>1, <2>2
<1>7. Main \in Threads /\ status[Main] = "Admitted"
  BY SchedAssumption DEF SchedAssumption, AccInv
<1> QED
  BY <1>1, <1>2, <1>6, <1>7 DEF AccInv


\* rt_thread_init and rt_admit: a descriptor not yet created, which is in
\* no place, is refused (no place) or parked on the heap of its class,
\* which has room, with run_time 0 (one place, its job not done); the
\* divide error of the sporadic test stops the system before any of this.
LEMMA CreateThreadAcc ==
    ASSUME Room, AccInv, NEW t \in Threads, CreateThread(t)
    PROVE  AccInv'
<1>0. /\ QueueType(runnable) /\ QueueType(pending) /\ QueueType(aperiodic)
      /\ cur \in Threads /\ runTime \in [Threads -> Nat]
      /\ runnable[Main] = 0 /\ pending[Main] = 0
      /\ aperiodic[Main] + On(Main, cur) = 2
      /\ \A u \in Threads \ {Main} :
            runnable[u] <= 1 /\ pending[u] <= 1 /\ aperiodic[u] <= 1
  BY AccFacts
<1>1. BudgetInv'
  BY CreateThreadStep DEF AccInv
<1>2. /\ status[t] = "Unborn" /\ phase = "run" /\ cur' = cur
      /\ runTime' = [runTime EXCEPT ![t] = 0]
  BY DEF CreateThread
<1>3. /\ Main \in Threads /\ status[Main] = "Admitted" /\ Places(Main) = 2
      /\ \A u \in Threads \ {Main} :
            status[u] = "Admitted" /\ ~JobDone(u) => Places(u) = 1
      /\ phase # "panic"
  BY SchedAssumption DEF SchedAssumption, AccInv
<1>4. /\ t # Main /\ t # cur
      /\ runnable[t] = 0 /\ pending[t] = 0 /\ aperiodic[t] = 0
  <2>1. Places(t) = 0
    BY <1>2 DEF AccInv, BudgetInv
  <2> QED
    BY <1>0, <1>2, <1>3, <2>1 DEF Places, QueueType
<1>5. \A u \in Threads \ {t} : JobDone(u)' = JobDone(u)
  BY <1>0, <1>2 DEF JobDone
<1>6. ~JobDone(t)'
  <2>1. Work[t] \in Nat \ {0} /\ runTime'[t] = 0
    BY <1>0, <1>2, SchedAssumption DEF SchedAssumption
  <2> QED
    BY <2>1 DEF JobDone
<1>7. CASE Class[t] = "Sporadic" /\ SporDivByZero(runnable)
  <2>1. /\ UNCHANGED <<status, runnable, pending, aperiodic>>
        /\ phase' = "fault"
    BY <1>7 DEF CreateThread
  <2> QED
    BY <1>1, <1>2, <1>3, <1>5, <2>1 DEF AccInv, Places
<1>8. CASE ~(Class[t] = "Sporadic" /\ SporDivByZero(runnable)) /\ ~Admissible(t)
  <2>1. /\ status' = [status EXCEPT ![t] = "Arrived"]
        /\ UNCHANGED <<phase, runnable, pending, aperiodic>>
    BY <1>8 DEF CreateThread
  <2> QED
    BY <1>1, <1>2, <1>3, <1>4, <1>5, <2>1 DEF AccInv, Places
<1>9. CASE ~(Class[t] = "Sporadic" /\ SporDivByZero(runnable)) /\ Admissible(t)
  <2>1. /\ status' = [status EXCEPT ![t] = "Admitted"]
        /\ UNCHANGED phase
    BY <1>9 DEF CreateThread
  <2>2. /\ Size(runnable) < MaxQueue /\ Size(pending) < MaxQueue
        /\ Size(aperiodic) < MaxQueue
    <3>1. aperiodic[Main] <= 2
      BY <1>0, <1>3 DEF On, QueueType
    <3>2. \E z \in Threads \ {Main} : aperiodic[z] = 0
      BY <1>4
    <3> QED
      BY <1>0, <3>1, <3>2, QueueRoom
  <2>3. \A u \in Threads :
           /\ Enqueue(runnable, t)[u] = runnable[u] + On(u, t)
           /\ Enqueue(pending, t)[u] = pending[u] + On(u, t)
           /\ Enqueue(aperiodic, t)[u] = aperiodic[u] + On(u, t)
    BY <1>0, <2>2, EnqueueExact
  <2>4. \/ pending' = Enqueue(pending, t) /\ UNCHANGED <<runnable, aperiodic>>
        \/ aperiodic' = Enqueue(aperiodic, t) /\ UNCHANGED <<runnable, pending>>
        \/ runnable' = Enqueue(runnable, t) /\ UNCHANGED <<pending, aperiodic>>
    BY <1>9 DEF CreateThread
  <2>5. \A u \in Threads : Places(u)' = Places(u) + On(u, t)
    <3> SUFFICES ASSUME NEW u \in Threads
                 PROVE  Places(u)' = Places(u) + On(u, t)
      OBVIOUS
    <3>1. /\ runnable[u] \in Nat /\ pending[u] \in Nat /\ aperiodic[u] \in Nat
          /\ On(u, t) \in Nat /\ On(u, cur) \in Nat
          /\ Places(u) = runnable[u] + pending[u] + aperiodic[u] + On(u, cur)
          /\ Places(u)' = runnable'[u] + pending'[u] + aperiodic'[u] + On(u, cur)
      BY <1>0, <1>2 DEF QueueType, On, Places
    <3>2. runnable'[u] + pending'[u] + aperiodic'[u]
            = runnable[u] + pending[u] + aperiodic[u] + On(u, t)
      BY <2>3, <2>4, <3>1
    <3> QED
      BY <3>1, <3>2
  <2>6. Places(t)' = 1
    BY <1>0, <1>4, <2>5 DEF Places, On
  <2>7. \A u \in Threads \ {t} : Places(u)' = Places(u) /\ status'[u] = status[u]
    BY <1>0, <2>1, <2>5 DEF On, Places, QueueType
  <2> QED
    BY <1>1, <1>2, <1>3, <1>4, <1>5, <1>6, <2>1, <2>6, <2>7 DEF AccInv
<1> QED
  BY <1>7, <1>8, <1>9


-----------------------------------------------------------------------------
(* The theorems.                                                           *)

\* Every step of the system keeps the accounting invariant.
LEMMA AccNext ==
    ASSUME Room
    PROVE  AccInv /\ [Next]_vars => AccInv'
<1> SUFFICES ASSUME AccInv, [Next]_vars
             PROVE  AccInv'
  OBVIOUS
<1>1. CASE Tick
  BY <1>1, TickAcc
<1>2. CASE TimerInterrupt \/ Yield \/ ReleaseDone
  BY <1>2, EntryAcc
<1>3. CASE ReleaseStep
  BY <1>3, ReleaseStepAcc
<1>4. CASE ScheduleAperiodic
  BY <1>4, ScheduleAperiodicAcc
<1>5. CASE ScheduleSporadicDone
  BY <1>5, ScheduleSporadicDoneAcc
<1>6. CASE SchedulePreempt
  BY <1>6, SchedulePreemptAcc
<1>7. CASE ScheduleKeep
  BY <1>7, ScheduleKeepAcc
<1>8. CASE SchedulePeriodicDone
  BY <1>8, SchedulePeriodicDoneAcc
<1>9. ASSUME NEW t \in Threads, CreateThread(t)
      PROVE  AccInv'
  BY <1>9, CreateThreadAcc
<1>10. ASSUME NEW t \in Threads, ExitThread(t)
       PROVE  AccInv'
  BY <1>10, ExitThreadAcc
<1>11. CASE UNCHANGED vars
  <2>1. BudgetInv'
    BY BudgetNext DEF AccInv
  <2> QED
    BY <1>11, <2>1 DEF AccInv, Places, JobDone, vars
<1> QED
  BY <1>1, <1>2, <1>3, <1>4, <1>5, <1>6, <1>7, <1>8, <1>9, <1>10, <1>11
     DEF Next, Schedule

\* rt_scheduler_init starts in the invariant: the bootstrap thread runs and
\* has its one entry on aperiodic, and no other thread exists.
LEMMA AccInit == Init => AccInv
<1> SUFFICES ASSUME Init PROVE AccInv
  OBVIOUS
<1>1. BudgetInv
  BY BudgetInit
<1>2. Main \in Threads /\ \A t \in Threads : t # Main => status[t] = "Unborn"
  BY SchedAssumption DEF SchedAssumption, Init
<1>3. Places(Main) = 2
  BY <1>2 DEF Init, Places, EmptyQueue
<1> QED
  BY <1>1, <1>2, <1>3 DEF Init, AccInv

\* The accounting invariant gives ThreadAccounted: when the bootstrap
\* thread is not running, both of its places are entries on aperiodic.
LEMMA AccThreadAccounted ==
    AccInv => ThreadAccounted
<1> SUFFICES ASSUME AccInv PROVE ThreadAccounted
  OBVIOUS
<1>1. /\ aperiodic[Main] + On(Main, cur) = 2 /\ QueueType(aperiodic)
      /\ Main \in Threads
  BY AccFacts, SchedAssumption DEF SchedAssumption
<1>2. cur = Main \/ aperiodic[Main] > 0
  BY <1>1 DEF On, QueueType
<1> QED
  BY <1>2 DEF AccInv, BudgetInv, ThreadAccounted

\* No thread is lost or duplicated by the dispatcher (ThreadAccounted),
\* through every branch of rt_need_resched with its re-enqueue of the
\* preempted thread, the release loop with its TOBE_REMOVED skip, rt_admit
\* and rt_thread_exit, whenever every heap can hold one entry of each
\* thread and one more: then no enqueue_thread is dropped on a full heap.
THEOREM ThreadsAccounted ==
    ASSUME Room
    PROVE  Spec => []ThreadAccounted
<1>1. Init => AccInv
  BY AccInit
<1>2. AccInv /\ [Next]_vars => AccInv'
  BY AccNext
<1>3. AccInv => ThreadAccounted
  BY AccThreadAccounted
<1> QED
  BY <1>1, <1>2, <1>3, PTL DEF Spec

\* rt_need_resched never reaches its panic on an empty aperiodic queue
\* (FallbackAvailable), under the same room on the heaps: the bootstrap
\* thread is on aperiodic whenever it does not hold the CPU.
THEOREM NeverPanics ==
    ASSUME Room
    PROVE  Spec => []FallbackAvailable
<1>1. Init => AccInv
  BY AccInit
<1>2. AccInv /\ [Next]_vars => AccInv'
  BY AccNext
<1>3. AccInv => FallbackAvailable
  BY DEF AccInv, FallbackAvailable
<1> QED
  BY <1>1, <1>2, <1>3, PTL DEF Spec

====
