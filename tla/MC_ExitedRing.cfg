\* The exited ring as rt_thread_exit fills it, read by dequeue_thread.
SPECIFICATION Spec
CONSTANTS
    r1 = r1
    r2 = r2
    r3 = r3
    none = none
    Items <- MCItems
    NoItem = none
    Cap = 4
PROPERTY ExitedHandedOver
