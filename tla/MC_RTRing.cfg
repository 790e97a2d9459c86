\* The waiting and exited rings: each a bounded FIFO with the TOBE_REMOVED skip.
SPECIFICATION Spec
CONSTANTS
    r1 = r1
    r2 = r2
    r3 = r3
    none = none
    Items <- MCItems
    NoItem = none
    Cap = 4
INVARIANT TypeOK RingInv
PROPERTY Refines
