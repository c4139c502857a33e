CONSTANTS
    t1 = t1  t2 = t2
    Threads = {t1, t2}
    NoThread = NoThread
    o1 = o1  o2 = o2
    Objects = {o1, o2}
    nil = nil
    v1 = v1  v2 = v2  v3 = v3  v4 = v4
    Locations = {v1, v2}
    Stripes <- TwoStripes
    StripeOf <- StripeOfTwo
    MaxRefs = 1
    MaxDepth = 2
    u1 = u1  u2 = u2  u3 = u3
    a = a  b = b  c = c  k1 = k1  k2 = k2
SPECIFICATION MCSpec
INVARIANTS NoZombie RegistrationExact NobodyUsesFreed NoDeadlock WeakTableSound
SYMMETRY Symmetry
CHECK_DEADLOCK FALSE
