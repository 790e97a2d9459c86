\* Sporadic admission while a sporadic thread on runnable is at its deadline.
CONSTANTS
    main = main
    p1 = p1
    p2 = p2
    s1 = s1
    s2 = s2
    none = none
    Threads <- MCThreadsTwoSporadic
    Main = main
    NoThread = none
    Class <- MCClass4S
    Period <- MCPeriod4S
    Slice <- MCSlice4S
    Work <- MCWork4S
    RelDeadline <- MCRel4S
    AperPrio <- MCPrio4S
    Quantum = 2
    MaxQueue = 5
    MaxTime = 8
    Word <- MCWord
    PeriodicUtil = 65000
    SporadicUtil = 18000
SPECIFICATION Spec
INVARIANT AdmissionNoFault
