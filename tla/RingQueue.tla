----------------------------- MODULE RingQueue -----------------------------
(***************************************************************************)
(* What a ring queue of rt_scheduler.c (arrival, waiting, sleeping,        *)
(* exited) promises, following spec 4.1: a bounded FIFO of descriptors     *)
(* that drops an enqueue when MAX_QUEUE entries are held, and whose        *)
(* dequeue discards TOBE_REMOVED entries at the front and returns the      *)
(* oldest live one, or NULL when none is left.                             *)
(***************************************************************************)
EXTENDS Integers, Sequences

CONSTANTS
    Items,          \* descriptors
    NoItem,         \* NULL
    Cap,            \* MAX_QUEUE
    SetsStatus      \* TRUE for arrival, waiting and sleeping, whose enqueue
                    \* overwrites the status; FALSE for exited

VARIABLES
    fifo,           \* the entries, oldest first
    removed,        \* descriptors with status TOBE_REMOVED
    out             \* the result of the last dequeue

absVars == <<fifo, removed, out>>

LivePositions == {i \in 1..Len(fifo) : fifo[i] \notin removed}

Init ==
    /\ fifo = <<>>
    /\ removed = {}
    /\ out = NoItem

Put(t) ==
    /\ IF Len(fifo) = Cap
       THEN UNCHANGED <<fifo, removed>>
       ELSE /\ fifo' = Append(fifo, t)
            /\ removed' = IF SetsStatus THEN removed \ {t} ELSE removed
    /\ UNCHANGED out

Take ==
    /\ IF LivePositions = {}
       THEN /\ fifo' = <<>>
            /\ out' = NoItem
       ELSE LET k == CHOOSE i \in LivePositions :
                         \A j \in LivePositions : i <= j
            IN /\ out' = fifo[k]
               /\ fifo' = SubSeq(fifo, k + 1, Len(fifo))
    /\ UNCHANGED removed

Mark(t) ==
    /\ t \notin removed
    /\ removed' = removed \cup {t}
    /\ UNCHANGED <<fifo, out>>

\* rt_thread_exit: mark, then put on the exited ring, in one step.
Exit(t) ==
    /\ t \notin removed
    /\ removed' = removed \cup {t}
    /\ fifo' = IF Len(fifo) = Cap THEN fifo ELSE Append(fifo, t)
    /\ UNCHANGED out

Next ==
    \/ \E t \in Items : Put(t) \/ Mark(t) \/ Exit(t)
    \/ Take

Spec == Init /\ [][Next]_absVars
====
