------------------------------ MODULE MC_RTRing ------------------------------
(* A small instance of RTRing for TLC: three descriptors and rings of four *)
(* slots, so that the waiting ring wraps within a few steps while neither  *)
(* ring fills (a full ring is the hazard the README describes).            *)
EXTENDS RTRing

CONSTANTS r1, r2, r3, none

MCItems == {r1, r2, r3}
====
