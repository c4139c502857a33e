CONSTANTS
    Threads = {t1, t2}
    Refs = {r1, r2, r3, r4}
    Setters = {}
    RC_HALF = 2
    NoThread = NoThread
    NoRef = NoRef
SPECIFICATION Spec
SYMMETRY RefSymmetry
CHECK_DEADLOCK FALSE
INVARIANT NoUnownedUnlock
