----------------------------- MODULE HeapQueue -----------------------------
(***************************************************************************)
(* What a heap queue of rt_scheduler.c promises its callers, with the      *)
(* layout left out: the queue is a multiset of descriptors (a count of     *)
(* entries each), enqueue_thread adds an entry unless MAX_QUEUE entries    *)
(* are there, and dequeue_thread returns a live descriptor of least key,   *)
(* discarding on its way every TOBE_REMOVED entry of smaller key (and      *)
(* possibly ones of equal key), or NULL when no live entry is left.        *)
(***************************************************************************)
EXTENDS Integers, Functions

CONSTANTS
    Items,          \* descriptors
    NoItem,         \* NULL
    Cap,            \* MAX_QUEUE
    Keys,           \* the values a key (deadline or priority) may take
    RekeyQueued     \* descriptors whose key the caller rewrites while queued

VARIABLES
    bag,            \* entries per descriptor
    key,            \* the key of every descriptor
    removed,        \* descriptors with status TOBE_REMOVED
    out             \* the result of the last dequeue

absVars == <<bag, key, removed, out>>

EmptyBag == [t \in Items |-> 0]

Entries(b) == {t \in Items : b[t] > 0}

LiveEntries == Entries(bag) \ removed

BagSize(b) == SumFunction(b)

Least(S) == {t \in S : \A u \in S : key[t] <= key[u]}

\* The counts dequeue may leave when it returns live descriptor x: one
\* entry of x goes, every removed entry of smaller key goes, a removed
\* descriptor of key equal to x's may lose some of its entries.
AfterTake(x) ==
    {b \in [Items -> Nat] :
        \A t \in Items :
            CASE t = x -> b[t] = bag[t] - 1
              [] t \in removed /\ key[t] < key[x] -> b[t] = 0
              [] t \in removed /\ key[t] = key[x] -> b[t] <= bag[t]
              [] OTHER -> b[t] = bag[t]}

Init ==
    /\ bag = EmptyBag
    /\ key \in [Items -> Keys]
    /\ removed = {}
    /\ out = NoItem

Put(t) ==
    /\ bag' = IF BagSize(bag) = Cap THEN bag ELSE [bag EXCEPT ![t] = @ + 1]
    /\ UNCHANGED <<key, removed, out>>

Take ==
    /\ \/ /\ LiveEntries = {}
          /\ out' = NoItem
          /\ bag' = EmptyBag
       \/ \E x \in Least(LiveEntries) :
             /\ out' = x
             /\ bag' \in AfterTake(x)
    /\ UNCHANGED <<key, removed>>

Exit(t) ==
    /\ t \notin removed
    /\ removed' = removed \cup {t}
    /\ UNCHANGED <<bag, key, out>>

Rekey(t, k) ==
    /\ bag[t] = 0 \/ t \in RekeyQueued
    /\ key' = [key EXCEPT ![t] = k]
    /\ UNCHANGED <<bag, removed, out>>

Next ==
    \/ \E t \in Items : Put(t)
    \/ Take
    \/ \E t \in Items : Exit(t)
    \/ \E t \in Items, k \in Keys : Rekey(t, k)

Spec == Init /\ [][Next]_absVars
====
