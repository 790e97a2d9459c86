\* EDF choice when the runnable root is a removed thread.
CONSTANTS
    main = main
    p1 = p1
    p2 = p2
    s1 = s1
    s2 = s2
    none = none
    Threads <- MCThreads
    Main = main
    NoThread = none
    Class <- MCClass4
    Period <- MCPeriod4
    Slice <- MCSlice4
    Work <- MCWork4
    RelDeadline <- MCRel4
    AperPrio <- MCPrio4
    Quantum = 2
    MaxQueue = 5
    MaxTime = 8
    Word <- MCWord
    PeriodicUtil = 65000
    SporadicUtil = 18000
SPECIFICATION Spec
PROPERTY EDFDispatch
