-------------------------- MODULE MC_RTScheduler --------------------------
(***************************************************************************)
(* Small instances of RTScheduler for TLC.  Time is counted in units where *)
(* a slice is one or two cycles; the utilisation arithmetic keeps the      *)
(* code's 10^5 scale, so PERIODIC_UTIL and SPORADIC_UTIL are the code's.   *)
(***************************************************************************)
EXTENDS RTScheduler, TLC

CONSTANTS main, p1, p2, s1, s2, none

\* The bootstrap thread, two periodic threads and one sporadic thread.
MCThreads == {main, p1, p2, s1}

\* As MCThreads with a second sporadic thread.
MCThreadsTwoSporadic == {main, p1, s1, s2}

MCClass == main :> "Aperiodic" @@ p1 :> "Periodic" @@ p2 :> "Periodic"
           @@ s1 :> "Sporadic" @@ s2 :> "Sporadic"

\* p1: period 4, slice 1 (util 25000); p2: period 5, slice 2 (util 40000);
\* together exactly PERIODIC_UTIL.
MCPeriod == main :> 1 @@ p1 :> 4 @@ p2 :> 5 @@ s1 :> 1 @@ s2 :> 1
MCSlice  == main :> 1 @@ p1 :> 1 @@ p2 :> 2 @@ s1 :> 1 @@ s2 :> 1

\* p2 with slice 3 (util 60000): p1 and p2 together exceed PERIODIC_UTIL.
MCSliceOver == main :> 1 @@ p1 :> 1 @@ p2 :> 3 @@ s1 :> 1 @@ s2 :> 1

MCWork        == main :> 1 @@ p1 :> 1 @@ p2 :> 1 @@ s1 :> 1 @@ s2 :> 1
MCRelDeadline == main :> 0 @@ p1 :> 0 @@ p2 :> 0 @@ s1 :> 3 @@ s2 :> 2
MCAperPrio    == main :> 0 @@ p1 :> 0 @@ p2 :> 0 @@ s1 :> 0 @@ s2 :> 0

\* Restrict the class and parameter functions to the thread set in use.
MCClassOf(T)  == [t \in T |-> MCClass[t]]
MCClass4      == MCClassOf(MCThreads)
MCClass4S     == MCClassOf(MCThreadsTwoSporadic)
MCPeriod4     == [t \in MCThreads |-> MCPeriod[t]]
MCPeriod4S    == [t \in MCThreadsTwoSporadic |-> MCPeriod[t]]
MCSlice4      == [t \in MCThreads |-> MCSlice[t]]
MCSlice4S     == [t \in MCThreadsTwoSporadic |-> MCSlice[t]]
MCSliceOver4  == [t \in MCThreads |-> MCSliceOver[t]]
MCWork4       == [t \in MCThreads |-> MCWork[t]]
MCWork4S      == [t \in MCThreadsTwoSporadic |-> MCWork[t]]
MCRel4        == [t \in MCThreads |-> MCRelDeadline[t]]
MCRel4S       == [t \in MCThreadsTwoSporadic |-> MCRelDeadline[t]]
MCPrio4       == [t \in MCThreads |-> MCAperPrio[t]]
MCPrio4S      == [t \in MCThreadsTwoSporadic |-> MCAperPrio[t]]

\* 2^30 stands for 2^64: a wrapped difference is far above every time
\* the model reaches, which is all the code's behaviour depends on.
MCWord == 2^30
=============================================================================
