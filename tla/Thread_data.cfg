CONSTANTS
    Objects = {o1, o2}
    POOL_BOUNDARY = POOL_BOUNDARY
    MaxCount = 1
    Settings <- AllSettings
    MaxPages = 3
    MaxTokens = 2
    MaxPops = 2
    MaxDue <- DueOften
    r1 = r1 r2 = r2 r3 = r3 n1 = n1 n2 = n2 w1 = w1 w2 = w2
    o1 = o1 o2 = o2 o3 = o3 p1 = p1 p2 = p2 p3 = p3 q1 = q1 q2 = q2
    b1 = b1 b2 = b2 b3 = b3
    NoThread = NoThread NoObject = NoObject NoBlock = NoBlock
SPECIFICATION MCSpec
SYMMETRY Symmetry
INVARIANTS NoneLostNoneTwice PagesHold PagesTrimmed WhileCanBeIf MutualExclusion ThreadCountExact NobodyStuck CachesTruthful
PROPERTIES OuterPoolsUntouched
CHECK_DEADLOCK FALSE
