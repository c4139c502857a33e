CONSTANTS
    t1 = t1  t2 = t2  t3 = t3
    nil = nil  NoEntryYet = NoEntryYet  Null = Null  Garbage = Garbage  Unused = Unused
SPECIFICATION Spec
INVARIANTS ConcurrentPartsSound WordsAndTablesSound SharedTableSound
CHECK_DEADLOCK FALSE
