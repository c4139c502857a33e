\* Both selectors hash to the first bucket of the small arrays and to different ones
\* of the large; the threshold lets one array wait.
CONSTANTS
    Sels = {4, 6}
    Swizzled = {4, 6}
    Imps = {imp1, imp2}
    Readers = {r1}
    Blocks = {1, 2, 3}
    INIT_CACHE_SIZE = 2
    MAX_CACHE_SIZE = 4
    EMPTY_CAPACITY = 2
    garbage_threshold = 3
    SignalsInLock = FALSE
    nil = nil
SPECIFICATION Spec
SYMMETRY Symmetry
INVARIANTS ReadsAreSafe ImpIsCurrent BlocksSound
CHECK_DEADLOCK FALSE
