------------------------------ MODULE ClassData ------------------------------
(***************************************************************************)
(* The words of a class that its fields share.  bits holds the pointer to  *)
(* the class's data and flags; _flags of the cache the size of instances   *)
(* and flags; the data's flags belong to holders of two different locks;   *)
(* and one word is a tagged pointer either to the read-only data or to the *)
(* extension that replaces it, read by threads that hold no lock.          *)
(***************************************************************************)
EXTENDS Integers, Sequences

CONSTANTS
    Sizes,          \* sizes of instances
    Extras,         \* extra bytes asked for
    Flags,          \* flags of the class that are set and cleared one by one
    BaseLists,      \* compiled method lists: [inCache |-> the ro is in the shared cache, list]
    Category,       \* the method list of a category
    NoLoad          \* nothing read

VARIABLES
    layout,         \* "fast": 64-bit, flags on the class; "rw": all in the data's flags
    bits,           \* class_data_bits_t: [data, flags]
    cacheFlags,     \* cache_t::_flags: [size, flags]
    flags,          \* class_rw_t::flags
    ro_or_rw_ext,   \* PointerUnion: [tag, pointer]
    rwe,            \* class_rw_ext_t: [ro, methods]
    ros,            \* ["ro", "copy" -> class_ro_t: [at, inCache, list, instanceSize]]
    extending,      \* extAlloc has filled the extension and not published it
    pending,        \* [lock -> the changeFlags loop in it, or NoLoad]
    reader,         \* a thread without a lock, reading the ro
    wanted          \* the flags as asked for

vars == <<layout, bits, cacheFlags, flags, ro_or_rw_ext, rwe, ros, extending, pending, reader, wanted>>

RW == {"REALIZED", "REALIZING", "FUTURE", "INITIALIZING", "INITIALIZED", "COPIED_RO"}
OnClass == {"HAS_DEFAULT_RR", "SWIFT_STABLE", "SWIFT_LEGACY"}
OnCache == {"HAS_DEFAULT_AWZ", "HAS_DEFAULT_CORE", "HAS_CXX_CTOR", "HAS_CXX_DTOR", "REQUIRES_RAW_ISA", "META"}
Locks == {"runtimeLock", "classInitLock"}
Free(lock) == pending[lock] = NoLoad

----------------------------------------------------------------------------
(* PointerUnion: the low bit tells the types apart.                        *)
Union(type, p) == [tag |-> IF type = "class_ro_t" THEN 0 ELSE 1, pointer |-> p]
is(u, type) == u.tag = (IF type = "class_ro_t" THEN 0 ELSE 1)

ro == IF is(ro_or_rw_ext, "class_rw_ext_t") THEN rwe.ro ELSE ro_or_rw_ext.pointer
realized == "REALIZED" \in flags
isFuture == "FUTURE" \in flags

(* class_ro_t: the method list's pointer is signed with the place it is    *)
(* in, unless that and the list are both in the shared cache; a duplicate  *)
(* is elsewhere.                                                           *)
baseMethodsOf(r) ==
    IF r.inCache /\ r.list.inCache THEN r.list.id
    ELSE IF r.list.small /\ r.list.signedFor # r.at THEN "fault"
    ELSE r.list.id

duplicate_NotResigned(r) == [r EXCEPT !.at = "heap", !.inCache = FALSE]

duplicate(r) ==
    [r EXCEPT !.at = "heap", !.inCache = FALSE,
        !.list.signedFor = IF @ = r.at \/ (r.inCache /\ r.list.inCache) THEN "heap" ELSE @]

methods ==
    IF is(ro_or_rw_ext, "class_rw_ext_t") THEN rwe.methods ELSE <<baseMethodsOf(ros[ro_or_rw_ext.pointer])>>

----------------------------------------------------------------------------
(* The size of an instance, rounded to words, in bits 3 to 12 of _flags    *)
(* with 8 added, so that rounding up to 16 is a mask; a size that does not *)
(* fit leaves 0 there and is read from the ro.                             *)
FAST_CACHE_ALLOC_DELTA16 == 8
word_align(n) == ((n + 7) \div 8) * 8
align16(n) == ((n + 15) \div 16) * 16
Mask(n) == ((n \div 8) % 1024) * 8
Mask16(n) == ((n \div 16) % 512) * 16

FastSize_Unchecked(n) == Mask((word_align(n) + FAST_CACHE_ALLOC_DELTA16) % 65536)

FastSize(n) ==
    LET sizeBits == Mask((word_align(n) + FAST_CACHE_ALLOC_DELTA16) % 65536)
    IN IF n <= sizeBits THEN sizeBits ELSE 0

(* constant: the compiler knows that no extra bytes are asked for.         *)
fastInstanceSize(extra, constant) ==
    IF constant THEN Mask16(cacheFlags.size)
    ELSE align16(cacheFlags.size + extra - FAST_CACHE_ALLOC_DELTA16)
hasFastInstanceSize(constant) ==
    layout = "fast" /\ (IF constant THEN Mask16(cacheFlags.size) ELSE cacheFlags.size) # 0

alignedInstanceSize == word_align(ros[ro].instanceSize)
instanceSize(extra, constant) ==
    IF hasFastInstanceSize(constant) THEN fastInstanceSize(extra, constant)
    ELSE LET size == alignedInstanceSize + extra IN IF size < 16 THEN 16 ELSE size

setInstanceSize(new) ==
    /\ Free("runtimeLock") /\ ~extending /\ realized /\ "REALIZING" \in flags
    /\ new # ros[ro].instanceSize => "COPIED_RO" \in flags
    /\ ros' = [ros EXCEPT ![ro].instanceSize = new]
    /\ cacheFlags' = [cacheFlags EXCEPT !.size = FastSize(new)]
    /\ UNCHANGED <<layout, bits, flags, ro_or_rw_ext, rwe, extending, pending, reader, wanted>>

----------------------------------------------------------------------------
(* Flags.  Where one is kept depends on the layout.                        *)
has(f) ==
    IF f \in RW \/ (layout = "rw" /\ f \notin {"SWIFT_STABLE", "SWIFT_LEGACY"}) THEN f \in flags
    ELSE IF f \in OnClass THEN f \in bits.flags ELSE f \in cacheFlags.flags

(* setBit, setBits, setFlags and their opposites are one atomic operation. *)
Change(set, clear) ==
    LET New(word) == (word \cup set) \ clear
        f == CHOOSE x \in set \cup clear : TRUE
    IN IF f \in RW \/ (layout = "rw" /\ f \notin {"SWIFT_STABLE", "SWIFT_LEGACY"})
       THEN flags' = New(flags) /\ UNCHANGED <<bits, cacheFlags>>
       ELSE IF f \in OnClass
       THEN bits' = [bits EXCEPT !.flags = New(@)] /\ UNCHANGED <<flags, cacheFlags>>
       ELSE cacheFlags' = [cacheFlags EXCEPT !.flags = New(@)] /\ UNCHANGED <<flags, bits>>

SetOrClear(set, clear) ==
    /\ Free("runtimeLock") /\ realized
    /\ Change(set, clear)
    /\ wanted' = (wanted \cup set) \ clear
    /\ UNCHANGED <<layout, ro_or_rw_ext, rwe, ros, extending, pending, reader>>

fixupBackwardDeployingStableSwift ==
    /\ Free("runtimeLock") /\ has("SWIFT_LEGACY")
    /\ Change({"SWIFT_STABLE"}, {"SWIFT_LEGACY"})
    /\ wanted' = (wanted \cup {"SWIFT_STABLE"}) \ {"SWIFT_LEGACY"}
    /\ UNCHANGED <<layout, ro_or_rw_ext, rwe, ros, extending, pending, reader>>

(* setInitializing is called under classInitLock only.                     *)
setInitializing ==
    /\ Free("classInitLock") /\ realized /\ flags \cap {"INITIALIZING", "INITIALIZED"} = {}
    /\ flags' = flags \cup {"INITIALIZING"} /\ wanted' = wanted \cup {"INITIALIZING"}
    /\ UNCHANGED <<layout, bits, cacheFlags, ro_or_rw_ext, rwe, ros, extending, pending, reader>>

(* changeFlags: a loop around a compare-and-swap.                          *)
changeFlags(lock, set, clear) ==
    /\ Free(lock)
    /\ pending' = [pending EXCEPT ![lock] = [old |-> flags, set |-> set, clear |-> clear]]
    /\ UNCHANGED <<layout, bits, cacheFlags, flags, ro_or_rw_ext, rwe, ros, extending, reader, wanted>>

changeFlagsLoop_NoCompare(lock) ==
    /\ ~Free(lock)
    /\ flags' = (pending[lock].old \cup pending[lock].set) \ pending[lock].clear
    /\ wanted' = (wanted \cup pending[lock].set) \ pending[lock].clear
    /\ pending' = [pending EXCEPT ![lock] = NoLoad]
    /\ UNCHANGED <<layout, bits, cacheFlags, ro_or_rw_ext, rwe, ros, extending, reader>>

changeFlagsLoop(lock) ==
    /\ ~Free(lock)
    /\ LET p == pending[lock]
       IN \/ /\ flags = p.old
             /\ flags' = (p.old \cup p.set) \ p.clear
             /\ wanted' = (wanted \cup p.set) \ p.clear
             /\ pending' = [pending EXCEPT ![lock] = NoLoad]
          \/ /\ flags # p.old
             /\ pending' = [pending EXCEPT ![lock].old = flags]
             /\ UNCHANGED <<flags, wanted>>
    /\ UNCHANGED <<layout, bits, cacheFlags, ro_or_rw_ext, rwe, ros, extending, reader>>

setInitialized ==
    /\ "INITIALIZING" \in flags
    /\ changeFlags("classInitLock", {"INITIALIZED"}, {"INITIALIZING"})

----------------------------------------------------------------------------
(* realizeClassWithoutSwift: fresh data for a compiled class; a future one *)
(* has its data already.                                                   *)
realize ==
    /\ Free("runtimeLock") /\ ~realized /\ ~isFuture
    /\ flags' = {"REALIZED", "REALIZING"} /\ wanted' = wanted \cup flags'
    /\ ro_or_rw_ext' = Union("class_ro_t", "ro")
    /\ bits' = [bits EXCEPT !.data = "rw"]          \* setData
    /\ UNCHANGED <<layout, cacheFlags, rwe, ros, extending, pending, reader>>

realizeFuture == isFuture /\ changeFlags("runtimeLock", {"REALIZED", "REALIZING"}, {"FUTURE"})

endRealizing ==     \* of a class made at run time
    "REALIZING" \in flags /\ changeFlags("runtimeLock", {}, {"REALIZING"})

set_ro(name) ==
    IF is(ro_or_rw_ext, "class_rw_ext_t")
    THEN rwe' = [rwe EXCEPT !.ro = name] /\ UNCHANGED ro_or_rw_ext
    ELSE ro_or_rw_ext' = Union("class_ro_t", name) /\ UNCHANGED rwe

make_ro_writeable ==
    /\ Free("runtimeLock") /\ ~extending /\ realized /\ "COPIED_RO" \notin flags
    /\ flags' = flags \cup {"COPIED_RO"} /\ wanted' = wanted \cup {"COPIED_RO"}
    /\ ros' = [ros EXCEPT !["copy"] = duplicate(ros["ro"])]
    /\ set_ro("copy")
    /\ UNCHANGED <<layout, bits, cacheFlags, extending, pending, reader>>

(* extAlloc: the extension is complete before its pointer is stored.       *)
extAllocIfNeeded ==
    /\ Free("runtimeLock") /\ realized /\ is(ro_or_rw_ext, "class_ro_t")
    /\ \/ /\ ~extending /\ extending' = TRUE
          /\ rwe' = [ro |-> ro, methods |-> <<baseMethodsOf(ros[ro])>>]
          /\ UNCHANGED ro_or_rw_ext
       \/ /\ extending /\ extending' = FALSE
          /\ ro_or_rw_ext' = Union("class_rw_ext_t", "rwe") /\ UNCHANGED rwe
    /\ UNCHANGED <<layout, bits, cacheFlags, flags, ros, pending, reader, wanted>>

attachCategory ==
    /\ Free("runtimeLock") /\ is(ro_or_rw_ext, "class_rw_ext_t") /\ Len(rwe.methods) = 1
    /\ rwe' = [rwe EXCEPT !.methods = <<Category>> \o @]
    /\ UNCHANGED <<layout, bits, cacheFlags, flags, ro_or_rw_ext, ros, extending, pending, reader, wanted>>

----------------------------------------------------------------------------
(* safe_ro, one load at a time: the data, its flags, and, of realized      *)
(* data, the union and the extension's ro.  For a future class the reader  *)
(* takes the data's ro without asking.                                     *)
Read(at, result) ==
    /\ reader' = [reader EXCEPT !.at = at, !.result = result]
    /\ UNCHANGED <<layout, bits, cacheFlags, flags, ro_or_rw_ext, rwe, ros, extending, pending, wanted>>

startReading ==
    /\ reader.at = "idle"
    /\ reader' = [at |-> "data", result |-> bits.data, future |-> bits.data = "rw" /\ isFuture,
                  copied |-> bits.data = "rw" /\ ro = "copy"]
    /\ UNCHANGED <<layout, bits, cacheFlags, flags, ro_or_rw_ext, rwe, ros, extending, pending, wanted>>

safe_ro_Unchecked ==
    \/ reader.at = "data" /\ Read("union", reader.result)
    \/ reader.at = "union" /\ Read(IF is(ro_or_rw_ext, "class_ro_t") THEN "done" ELSE "ext", ro_or_rw_ext.pointer)
    \/ reader.at = "ext" /\ Read("done", rwe.ro)

safe_ro ==
    \/ /\ reader.at = "data"
       /\ IF reader.result = "rw" /\ (realized \/ reader.future)
          THEN Read("union", "rw") ELSE Read("done", reader.result)
    \/ reader.at = "union" /\ Read(IF is(ro_or_rw_ext, "class_ro_t") THEN "done" ELSE "ext", ro_or_rw_ext.pointer)
    \/ reader.at = "ext" /\ Read("done", rwe.ro)

NotReading == [at |-> "idle", result |-> NoLoad, future |-> FALSE, copied |-> FALSE]
endReading ==
    /\ reader.at = "done" /\ reader' = NotReading
    /\ UNCHANGED <<layout, bits, cacheFlags, flags, ro_or_rw_ext, rwe, ros, extending, pending, wanted>>

----------------------------------------------------------------------------
Init ==
    /\ layout \in {"fast", "rw"}
    /\ \E future \in BOOLEAN :
           /\ bits = [data |-> IF future THEN "rw" ELSE "ro", flags |-> {"SWIFT_LEGACY"}]
           /\ flags = IF future THEN {"FUTURE"} ELSE {}
           /\ wanted = flags \cup {"SWIFT_LEGACY"}
           /\ ro_or_rw_ext = Union("class_ro_t", IF future THEN "ro" ELSE "unset")
    /\ cacheFlags = [size |-> 0, flags |-> {}]
    /\ rwe = [ro |-> "unset", methods |-> <<>>]
    /\ \E b \in BaseLists, size \in Sizes :
           ros = [r \in {"ro", "copy"} |->
                     [at |-> "image", inCache |-> b.inCache, list |-> b.list, instanceSize |-> size]]
    /\ extending = FALSE
    /\ pending = [l \in Locks |-> NoLoad]
    /\ reader = NotReading

Next ==
    \/ realize \/ realizeFuture \/ endRealizing \/ make_ro_writeable
    \/ extAllocIfNeeded \/ attachCategory
    \/ \E n \in Sizes : setInstanceSize(n)
    \/ \E f \in Flags : SetOrClear({f}, {}) \/ SetOrClear({}, {f})
    \/ fixupBackwardDeployingStableSwift
    \/ setInitializing \/ setInitialized \/ \E lock \in Locks : changeFlagsLoop(lock)
    \/ startReading \/ safe_ro \/ endReading

----------------------------------------------------------------------------
(* A reader without a lock ends with read-only data, the writable copy if  *)
(* that was there when it began; no flag is lost to a change of another    *)
(* flag, or of the pointer or size it shares a word with; the base methods *)
(* stay last in the class's lists and can be authenticated after every     *)
(* copy; and an instance has room for its variables and the extra bytes,   *)
(* with at most the rounding to 16 to spare.                               *)
ClassDataIntact ==
    /\ reader.at = "done" => reader.result \in (IF reader.copied THEN {"copy"} ELSE {"ro", "copy"})
    /\ \A f \in RW \cup OnClass \cup OnCache : has(f) <=> f \in wanted
    /\ bits.data = "rw" => methods[Len(methods)] = "base" /\ baseMethodsOf(ros[ro]) = "base"
    /\ bits.data = "rw" =>
           \A extra \in Extras, constant \in BOOLEAN : (constant => extra = 0) =>
               LET size == instanceSize(extra, constant)
               IN /\ size >= 16 /\ size >= ros[ro].instanceSize + extra
                  /\ size < ros[ro].instanceSize + extra + 24

=============================================================================
