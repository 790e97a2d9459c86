\* Heap order and the refinement to the multiset queue, no key rewrites of queued threads.
SPECIFICATION Spec
CONSTANTS
    main = main
    a1 = a1
    a2 = a2
    none = none
    Items <- MCItems
    NoItem = none
    Cap = 4
    Keys <- MCKeys
    RekeyQueued = {}
INVARIANT TypeOK HeapOrdered
PROPERTY Refines
