\* The bootstrap thread's priority is rewritten while a copy of it is queued (lines 238, 1016).
SPECIFICATION Spec
CONSTANTS
    main = main
    a1 = a1
    a2 = a2
    none = none
    Items <- MCItems
    NoItem = none
    Cap = 4
    Keys <- MCKeys
    RekeyQueued = {main}
PROPERTY Refines
