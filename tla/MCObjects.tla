------------------------------ MODULE MCObjects -----------------------------
(***************************************************************************)
(* The smaller parts, one in each behaviour.  Some are about threads: the  *)
(* locks and fork(), the monitor of the Windows port, its messengers, the  *)
(* zone allocator, objects without a packed isa, and blocks of memory that *)
(* are made once.  The others are about words and tables: tagged pointers, *)
(* isa words, arithmetic, sets, lists, mapped images, the shared cache's   *)
(* perfect hash tables, the markgc tool and the handoff of returned        *)
(* objects.                                                                *)
(*                                                                         *)
(* No two parts are played in one behaviour, so they share the variables   *)
(* x1 to x19: each INSTANCE says which of its own variables is which.      *)
(***************************************************************************)
EXTENDS Integers, FiniteSets, Sequences, TLC

CONSTANTS t1, t2, t3, nil, NoEntryYet, Null, Garbage, Unused

VARIABLES part, x1, x2, x3, x4, x5, x6, x7, x8, x9, x10, x11, x12, x13,
    x14, x15, x16, x17, x18, x19

Others == <<x14, x15, x16, x17, x18, x19>>
xs == <<x1, x2, x3, x4, x5, x6, x7, x8, x9, x10, x11, x12, x13, Others>>
From14 ==
    /\ x14 = Unused /\ x15 = Unused /\ x16 = Unused /\ x17 = Unused
    /\ x18 = Unused /\ x19 = Unused
From13 == x13 = Unused /\ From14
From12 == x12 = Unused /\ From13
From11 == x11 = Unused /\ From12
From10 == x10 = Unused /\ From11
From8 == x8 = Unused /\ x9 = Unused /\ From10
From7 == x7 = Unused /\ From8
From6 == x6 = Unused /\ From7
From5 == x5 = Unused /\ From6
From2 == x2 = Unused /\ x3 = Unused /\ x4 = Unused /\ From5

-----------------------------------------------------------------------------
(* Threads.                                                                *)
Lock ==
    INSTANCE Locks WITH
        Threads <- {t1, t2}, Forker <- t1, StripeCount <- 2, MaxForks <- 1,
        owner <- x1, nest <- x2, owned <- x3, path <- x4, held <- x5, request <- x6,
        forking <- x7, child <- x8, forks <- x9, fatal <- x10

Monitor ==
    INSTANCE WinMonitor WITH
        Threads <- {t1, t2, t3}, MaxGifts <- 2,
        installed <- x1, built <- x2, mutex <- x3, waiters <- x4, waitersDone <- x5,
        waitCount <- x6, didBroadcast <- x7, gifts <- x8, given <- x9, pc <- x10,
        role <- x11, last <- x12

Blocks ==
    INSTANCE Support WITH
        Threads <- {t1, t2, t3}, PtrBits <- 6, InlineCount <- 2, OtherCount <- 3,
        MaxCount <- 5,
        var <- x1, made <- x2, pcOnce <- x3, hook <- x4, oldVariable <- x5,
        oldValue <- x6, pcHook <- x7, vector <- x8, other <- x9, heap <- x10,
        freed <- x11, subject <- x12

Zone ==
    INSTANCE Zalloc WITH
        Threads <- {t1, t2}, Slabs <- 1, PerSlab <- 4, MaxGen <- 5,
        head <- x1, gen <- x2, next <- x3, buf <- x4, slabs <- x5, frame <- x6,
        owner <- x7

RawIsa ==
    INSTANCE RawIsaObject WITH
        Threads <- {t1, t2}, Classes <- {"A", "B"}, Creator <- t1, First <- "A",
        Pinned <- 3, MaxOwned <- 2, None <- NoEntryYet,
        isa <- x1, flagged <- x2, refcnts <- x3, weak <- x4, associated <- x5,
        owned <- x6, pc <- x7, seen <- x8, freed <- x9, overlapped <- x10

\* B's superclass is A; a method that is added later has the slot of another in
\* every cache of two or four; the second world has a warm cache for B.
NoEntry == [name |-> 0, imp |-> nil]
NewCache == [mask |-> 0, occupied |-> 0, buckets |-> 0 :> NoEntry]
WarmCache ==
    [mask |-> 3, occupied |-> 3,
     buckets |-> 0 :> NoEntry @@ 1 :> [name |-> 20, imp |-> "A"]
                 @@ 2 :> [name |-> 4, imp |-> "A"] @@ 3 :> [name |-> 8, imp |-> "forward"]]
Send ==
    INSTANCE MessageSend WITH
        Threads <- {t1, t2}, Classes <- {"A", "B"},
        Superclass <- [c \in {"A", "B"} |-> IF c = "B" THEN "A" ELSE nil],
        Selectors <- {8, 36}, Methods <- {<<"A", 4>>, <<"A", 20>>, <<"B", 36>>},
        Added <- {<<"A", 8>>}, MaxSends <- 3, Nil <- nil, Kinds <- {"stret", "super"},
        Warm <- {[caches |-> <<NewCache>>, cache |-> [c \in {"A", "B"} |-> 1]],
                 [caches |-> <<NewCache, WarmCache>>,
                  cache |-> [c \in {"A", "B"} |-> IF c = "B" THEN 2 ELSE 1]]},
        methods <- x1, caches <- x2, cache <- x3, grow <- x4, adding <- x5, frame <- x6,
        sends <- x7

-----------------------------------------------------------------------------
(* Words and tables.                                                       *)
\* Pointers of 7 bits: 2 bits of a tag, 3 of an extended one and 2 of payload.
Tagged ==
    INSTANCE TaggedPointers WITH
        W <- 7, TagBits <- 2, ExtBits <- 3, Layouts <- {"split", "msb", "lsb"},
        Obfuscators <- {0, 86},
        Permutations60 <- {0 :> 2 @@ 1 :> 0 @@ 2 :> 1 @@ 3 :> 3},
        TagClasses <- {"x", "y"}, nil <- "nil", Unrecognized <- "un",
        MaxRegistrations <- 2,
        layout <- x1, obfuscator <- x2, permutations <- x3, objc_tag_classes <- x4,
        objc_tag_ext_classes <- x5

Isas ==
    INSTANCE IsaWord WITH
        Objects <- {1},
        Layouts <- {"arm64e", "arm64e_strips", "arm64e_swift", "simulator", "arm64",
                    "x86_64", "indexed"},
        IndexesTaken <- {0, 32767}, MaxRetains <- 1,
        layout <- x1, isa <- x2, superclass <- x3, bucket <- x4, index <- x5,
        objc_indexed_classes <- x6, objc_indexed_classes_count <- x7,
        requiresRawIsa <- x8, is <- x9

\* Words of 16 bits, near the powers of two, small, and with every other bit.
Math ==
    INSTANCE MathExtras WITH
        Width <- 16,
        Words <- 0 .. 40 \cup {2^i - 1 : i \in 6 .. 16} \cup {2^i + 1 : i \in 6 .. 15}
                 \cup {65535 - 2^i : i \in 0 .. 15} \cup {43690, 21845},
        Operands <- {0, 1, 3, 6, 8, 256, 32768, 65535},
        word <- x1

Set ==
    INSTANCE DenseSet WITH
        Types <- {"T *", "DisguisedPtr", "const char *", "pair", "unsigned", "int", "long",
                  "char"},
        Bits <- 4, Texts <- {<<>>, <<1>>, <<2, 1>>, <<1, 2>>}, InlineSizes <- {0, 4},
        MinBuckets <- 4,
        KeysOf <- [ty \in {"T *", "DisguisedPtr", "const char *", "pair", "unsigned", "int",
                           "long", "char"} |->
            CASE ty \in {"T *", "DisguisedPtr"} -> {0, 4, 8, 5}
              [] ty = "const char *" -> {<<<<1>>, 0>>, <<<<1>>, 1>>, <<<<2, 1>>, 0>>, <<<<>>, 0>>}
              [] ty = "pair" -> {<<15, 0>>, <<0, 7>>, <<1, 1>>}
              [] ty = "unsigned" -> {0, 1, 13, 8}
              [] ty = "int" -> {0, 6, -7, -1}
              [] ty = "long" -> {0, 5, -8, -1}
              [] ty = "char" -> {0, 7, -8, 1}],
        Reservations <- {7},
        type <- x1, InlineBuckets <- x2, set <- x3, members <- x4

Old ==
    INSTANCE OldList WITH
        Objects <- {"a", "b"}, NotInList <- 4294, MaxCapacity <- 7, MaxOps <- 5,
        dataPtr <- x1, numElements <- x2, maxElements <- x3, list <- x4, answer <- x5,
        ops <- x6

\* An image in the shared cache, one above it with two data segments, one below
\* it that is not slid.
Mapped ==
    INSTANCE Images WITH
        Image <- [i \in {"cached", "app", "low"} |->
            CASE i = "cached" -> [hi |-> 1008, mhdr |-> 1100, text |-> 1100, data |-> <<>>,
                                  preoptimized |-> TRUE]
              [] i = "app" -> [hi |-> 32, mhdr |-> 500, text |-> 100,
                               data |-> <<<<120, 10>>, <<140, 20>>>>, preoptimized |-> FALSE]
              [] i = "low" -> [hi |-> 64, mhdr |-> 200, text |-> 0, data |-> <<<<50, 10>>>>,
                               preoptimized |-> FALSE]],
        SharedCache <- <<1000, 1500>>, Pointers <- {545, 1010, 700},
        offset <- x1, rw <- x2, FirstHeader <- x3, LastHeader <- x4, ranges <- x5,
        size <- x6, sorted <- x7, witness <- x8, allocated <- x9, mapped <- x10

Handoff ==
    INSTANCE OptimizedReturn WITH
        MaxDepth <- 3, MaxCount <- 4,
        rc <- x1, pool <- x2, tls <- x3, stack <- x4, coming <- x5

\* Files for markgc, thin and fat, of either byte order, with slices that it can
\* and cannot read; one of them hides its ARM64 slice from the count.
Word(E, v) == IF E = "little" THEN <<v % 16, v \div 16>> ELSE <<v \div 16, v % 16>>
Sect(E, seg, name, flags) == [seg |-> seg, name |-> name, flags |-> Word(E, flags)]
Cmd(E, cmd, sects) ==
    [cmd |-> Word(E, cmd), nsects |-> Word(E, Len(sects)), sects |-> sects]
Slice(E, magic) ==
    LET LC_SEGMENT == IF magic = 19 THEN 25 ELSE 1
    IN  [order |-> E, magic |-> Word(E, magic), ncmds |-> Word(E, 3),
         cmds |-> <<Cmd(E, LC_SEGMENT, <<Sect(E, "__TEXT", "__text", 128),
                                         Sect(E, "__TEXT", "__init_offsets", 22)>>),
                    Cmd(E, 2, <<>>),
                    Cmd(E, LC_SEGMENT, <<Sect(E, "__DATA", "__mod_init_func", 9),
                                         Sect(E, "__DATA", "__mod_term_func", 10),
                                         Sect(E, "__DATA", "__data", 9)>>)>>]
Junk == [Slice("little", 19) EXCEPT !.magic = <<7, 7>>]
Thin(s) == [size |-> 40, magic |-> s.magic, nfat |-> <<0, 0>>, archs |-> <<>>, slices |-> 0 :> s]
Arch(cpu, at, size) ==
    [cputype |-> Word("big", cpu), offset |-> Word("big", at), size |-> Word("big", size)]
Fat(n, archs, slices) ==
    [size |-> 40, magic |-> Word("big", 69), nfat |-> Word("big", n), archs |-> archs,
     slices |-> slices]
Two == 10 :> Slice("little", 19) @@ 20 :> Slice("big", 18)
Mark ==
    INSTANCE MarkGC WITH
        Files <- {Thin(Slice("little", 18)), Thin(Slice("big", 19)), Thin(Junk),
                  Fat(1, <<Arch(7, 10, 10), Arch(12, 20, 20)>>, Two),
                  Fat(2, <<Arch(7, 10, 10), Arch(7, 20, 20)>>, Two),
                  Fat(2, <<Arch(7, 10, 10), Arch(7, 20, 21)>>, Two),
                  Fat(2, <<Arch(7, 1, 10), Arch(7, 20, 20)>>, Two),
                  Fat(2, <<Arch(7, 10, 10), Arch(7, 20, 20)>>,
                      10 :> Slice("little", 19) @@ 20 :> Junk)},
        MaxRuns <- 2,
        original <- x1, file <- x2, at <- x3, running <- x4, result <- x5, runs <- x6

-----------------------------------------------------------------------------
\* Seven names: five alike in their check byte's length part, the fifth with the
\* first character of the first; the sixth is too far away for an offset, and so
\* is the class of the seventh.
Name(i) == [first |-> IF i = 5 THEN 1 ELSE i, len |-> 3, rest |-> i]
Place(i) == [clsOffset |-> i, hiOffset |-> i + 100]

PlacesOf ==
    (Name(1) :> <<Place(2)>>) @@ (Name(2) :> <<Place(4), Place(6)>>)
    @@ (Name(3) :> <<Place(8)>>)
    @@ (Name(4) :> <<Place(10), Place(12), Place(14)>>)
    @@ [n \in {Name(5), Name(6)} |-> <<Place(16)>>]
    @@ (Name(7) :> <<Place(18), Place(20)>>)

\* Hash values that collide in their high bits, their low bits, both or neither.
Hashes ==
    LET names == {Name(i) : i \in 1 .. 4}
        Onto(S) == {f \in [names -> S] :
                      f[Name(1)] = 0 /\ \A n, m \in names : n # m => f[n] # f[m]}
    IN  {f @@ [n \in {Name(i) : i \in 5 .. 7} |-> f[Name(2)]] :
            f \in UNION {Onto(S) : S \in {{0, 16, 1, 49}, {0, 16, 32, 48}, {0, 16, 1, 17}}}}

Perfect ==
    INSTANCE SharedCacheTable WITH
        Names <- {Name(i) : i \in 1 .. 7}, AddressesOf <- PlacesOf,
        Strings <- {{}, {Name(1), Name(2)}, {Name(i) : i \in 1 .. 4},
                    {Name(1), Name(6)}, {Name(1), Name(7)}},
        FarNames <- {Name(6)}, FarAddresses <- {20},
        HashFunctions <- Hashes, UB8BITS <- 6, SCRAMBLE_LEN <- 8,
        RETRY_INITKEY <- 2, RETRY_PERFECT <- 2, MaxSalts <- 5,
        SectionSizes <- {1000, 1070, 1085, 1100, 1126, 4096},
        table <- x1, strings <- x2, remaining <- x3, phase <- x4, si <- x5,
        lookup8 <- x6, smax <- x7, alen <- x8, blen <- x9, bad_initkey <- x10,
        bad_perfect <- x11, scramble <- x12, mapping <- x13, phash <- x14,
        offsets <- x15, checkbytes <- x16, classOffsets <- x17,
        duplicateOffsets <- x18, todo <- x19

-----------------------------------------------------------------------------
Init ==
    \/ part = "locks" /\ Lock!Init /\ From11
    \/ part = "monitor" /\ Monitor!Init /\ From13
    \/ part = "support" /\ Blocks!Init /\ From13
    \/ part = "zalloc" /\ Zone!Init /\ From8
    \/ part = "rawisa" /\ RawIsa!Init /\ From11
    \/ part = "send" /\ Send!Init /\ From8
    \/ part = "tagged" /\ Tagged!Init /\ From6
    \/ part = "isaword" /\ Isas!Init /\ From10
    \/ part = "math" /\ Math!Init /\ From2
    \/ part = "set" /\ Set!Init /\ From5
    \/ part = "list" /\ Old!Init /\ From7
    \/ part = "images" /\ Mapped!Init /\ From11
    \/ part = "return" /\ Handoff!Init /\ From6
    \/ part = "markgc" /\ Mark!Init /\ From7
    \/ part = "shared" /\ Perfect!Init

Next ==
    \/ part = "locks" /\ Lock!Next /\ UNCHANGED <<part, x11, x12, x13, Others>>
    \/ part = "monitor" /\ Monitor!Next /\ UNCHANGED <<part, x13, Others>>
    \/ part = "support" /\ Blocks!Next /\ UNCHANGED <<part, x13, Others>>
    \/ part = "zalloc" /\ Zone!Next /\ UNCHANGED <<part, x8, x9, x10, x11, x12, x13, Others>>
    \/ part = "rawisa" /\ RawIsa!Next /\ UNCHANGED <<part, x11, x12, x13, Others>>
    \/ part = "send" /\ Send!Next /\ UNCHANGED <<part, x8, x9, x10, x11, x12, x13, Others>>
    \/ part = "tagged" /\ Tagged!Next
       /\ UNCHANGED <<part, x6, x7, x8, x9, x10, x11, x12, x13, Others>>
    \/ part = "isaword" /\ Isas!Next /\ UNCHANGED <<part, x10, x11, x12, x13, Others>>
    \/ part = "math" /\ Math!Next
       /\ UNCHANGED <<part, x2, x3, x4, x5, x6, x7, x8, x9, x10, x11, x12, x13, Others>>
    \/ part = "set" /\ Set!Next
       /\ UNCHANGED <<part, x5, x6, x7, x8, x9, x10, x11, x12, x13, Others>>
    \/ part = "list" /\ Old!Next /\ UNCHANGED <<part, x7, x8, x9, x10, x11, x12, x13, Others>>
    \/ part = "images" /\ Mapped!Next /\ UNCHANGED <<part, x11, x12, x13, Others>>
    \/ part = "return" /\ Handoff!Next
       /\ UNCHANGED <<part, x6, x7, x8, x9, x10, x11, x12, x13, Others>>
    \/ part = "markgc" /\ Mark!Next /\ UNCHANGED <<part, x7, x8, x9, x10, x11, x12, x13, Others>>
    \/ part = "shared" /\ Perfect!Next /\ UNCHANGED part

Spec == Init /\ [][Next]_<<part, xs>>

-----------------------------------------------------------------------------
\* Threads: no lock is taken twice or out of order, in a child of fork() too; no
\* wakeup of the Windows monitor is lost; blocks made once are one block, freed
\* once; the zone allocator never gives one element to two threads; an object
\* with a raw isa is freed when its last reference goes; and every message runs
\* the method that the class has.
ConcurrentPartsSound ==
    /\ part = "locks" => Lock!LocksNest
    /\ part = "monitor" => Monitor!NoLostWakeup
    /\ part = "support" => Blocks!BlocksHold
    /\ part = "zalloc" => Zone!ZoneSound
    /\ part = "rawisa" => RawIsa!RawCountExact
    /\ part = "send" => Send!SendsReachTheMethod

\* Words and tables: what was packed, hashed, listed or registered is what comes
\* out, at every boundary of its width or capacity; the ranges, headers and
\* caches of mapped images agree with dyld; and what a function hands to its
\* caller without the pool is counted once.
WordsAndTablesSound ==
    /\ part = "tagged" => Tagged!TagsResolve
    /\ part = "isaword" => Isas!SignedWordsHold
    /\ part = "math" => Math!MathIsRight
    /\ part = "set" => Set!SetHolds
    /\ part = "list" => Old!ListIsSequence
    /\ part = "images" => Mapped!ImagesAgree
    /\ part = "return" => Handoff!HandoffBalances
    /\ part = "markgc" => Mark!SlicesStripped

\* The runtime finds in a finished shared cache table what the builder was given,
\* and the builder's queue tabq[] in augment() never overflows.
SharedTableSound == part = "shared" => Perfect!FindsWhatWasWritten /\ Perfect!QueueHasRoom
=============================================================================
