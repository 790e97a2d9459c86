------------------------------ MODULE MC_RTHeap ------------------------------
(* Small instances of RTHeap for TLC: three descriptors, one of them the   *)
(* bootstrap thread, a heap of four slots and keys 0..2, so that ties,     *)
(* two-level sift-downs and the read of slot size all occur.               *)
EXTENDS RTHeap

CONSTANTS main, a1, a2, none

MCItems == {main, a1, a2}

MCKeys == 0..2
====
