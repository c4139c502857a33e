CONSTANTS
    Threads = {t1, t2}
    Refs = {r1, r2, r3}
    Setters = {t1}
    RC_HALF = 2
    NoThread = NoThread
    NoRef = NoRef
    Funcs = {f1}
    nil = nil
    EmptyKey = EmptyKey
    TombstoneKey = TombstoneKey
    Absent = Absent
SPECIFICATION MCSpec
INVARIANTS DeallocOnce NoUseAfterFree NothingLeftBehind DenseMapSound
    InitializeInOrder LoadsInOrder ExactlyTheMappedAreLoaded
PROPERTIES LastReleaseFrees ImplementsMap MessagesFindClassReady EveryMessageDelivered
CHECK_DEADLOCK FALSE
