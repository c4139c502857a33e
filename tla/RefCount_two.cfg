CONSTANTS
    Threads = {t1, t2}
    Refs = {r1, r2, r3, r4, r5}
    Setters = {}
    RC_HALF = 2
    NoThread = NoThread
    NoRef = NoRef
SPECIFICATION Spec
SYMMETRY FullSymmetry
CHECK_DEADLOCK FALSE
INVARIANTS TypeOK CountsSound NoDeadlock
PROPERTY ImplementsCounter
