---------------------------- MODULE MethodCache ----------------------------
(***************************************************************************)
(* cache_t, the method cache of a class (objc-cache.mm, objc-runtime-new.h *)
(* and the lookup loop of Messengers.subproj/objc-msg-x86_64.s), on the    *)
(* targets with an outlined mask and an end marker: x86_64 and i386.       *)
(*                                                                         *)
(* Readers are threads in objc_msgSend: they take no lock and load the     *)
(* mask, the bucket array and the buckets one word at a time.  All changes *)
(* are made by the one thread that holds runtimeLock, one store at a time: *)
(* it fills the cache after a miss, swaps an implementation and flushes,   *)
(* flushes everything and collects the garbage.  Old arrays are freed only *)
(* after _collecting_in_critical() found no reader in the lookup code.     *)
(*                                                                         *)
(* Bounds.  The run has two selectors that collide in an array of two      *)
(* buckets and in one of four, and one of them hashes to the end marker.   *)
(* Arrays of two buckets stand for the code's first size of four, four for *)
(* its limit of 65536, and _objc_empty_cache is as large as the smaller    *)
(* one, so that the larger one needs an allocated empty array.             *)
(*                                                                         *)
(* Data: a selector is a number above 1 (its address; 0 marks an unused    *)
(* bucket and 1 the end marker), an implementation a model value, and the  *)
(* address of bucket array b is the number b.                              *)
(***************************************************************************)
EXTENDS Integers, Sequences, FiniteSets, SequencesExt

CONSTANTS
    Sels,               \* the selectors sent to the class
    Swizzled,           \* those whose implementation is replaced meanwhile
    Imps,               \* the implementations of methods
    Readers,            \* message sends, each by a thread of its own
    Blocks,             \* numbers of the bucket arrays malloc can return
    INIT_CACHE_SIZE, MAX_CACHE_SIZE,
    EMPTY_CAPACITY,     \* buckets of _objc_empty_cache, its end marker aside
    garbage_threshold,  \* in buckets
    SignalsInLock,      \* signals may hit the thread that holds runtimeLock
    nil

\* The statically allocated, read-only array of empty buckets.
_objc_empty_cache == 0

ASSUME CacheAssumption ==
    /\ Sels \subseteq Nat \ {0, 1} /\ Swizzled \subseteq Sels
    /\ Blocks \subseteq Nat \ {_objc_empty_cache}
    /\ INIT_CACHE_SIZE \in Nat /\ \E k \in 0 .. INIT_CACHE_SIZE : INIT_CACHE_SIZE = 2 ^ k
    /\ MAX_CACHE_SIZE \in Nat /\ \E k \in 0 .. MAX_CACHE_SIZE : MAX_CACHE_SIZE = 2 ^ k
    /\ INIT_CACHE_SIZE >= 2 /\ MAX_CACHE_SIZE >= INIT_CACHE_SIZE
    /\ EMPTY_CAPACITY \in Nat /\ garbage_threshold \in Nat
    /\ SignalsInLock \in BOOLEAN
    /\ nil \notin Nat /\ nil \notin Imps /\ nil \notin {"place", "done"}

\* What an exponent means, as far as capacities go: the provers know no power.
ASSUME PowerAssumption ==
    /\ 2 ^ 0 = 1
    /\ \A k \in 0 .. MAX_CACHE_SIZE : 2 ^ k \in Nat \ {0} /\ 2 ^ (k + 1) = 2 * 2 ^ k

VARIABLES
    buckets, mask, occupied,     \* the cache_t
    memory,                      \* contents of each bucket array; <<>> if free
    emptyBucketsList,            \* shared empty arrays, by log2 of the capacity
    garbage_refs, garbage_byte_size,
    shouldUseRestartableRanges,  \* whether the kernel has them; constant
    imps,                        \* current implementation of each selector
    writer,                      \* what the holder of runtimeLock is doing
    reader,                      \* what each message send is doing
    current                      \* history: for each reader, the implementations
                                 \* its selector had since the send began

vars == <<buckets, mask, occupied, memory, emptyBucketsList, garbage_refs,
          garbage_byte_size, shouldUseRestartableRanges, imps, writer, reader,
          current>>

-----------------------------------------------------------------------------
\* struct bucket_t.  An implementation is stored xor-ed with the class, which
\* every reader of this cache undoes; the end marker's is stored as it is.
Unused == [sel |-> 0, imp |-> nil]
endMarker(b) == [sel |-> 1, imp |-> b]

capacity == IF mask # 0 THEN mask + 1 ELSE 0

\* How many buckets of 16 bytes an array has.
Zeroed(n) == [i \in 1 .. n |-> Unused]
Bucket(b, i) == memory[b][i + 1]

Free == {b \in Blocks : memory[b] = <<>>}
Malloc == CHOOSE b \in Free : \A c \in Free : b <= c

cache_fill_ratio(n) == (n * 3) \div 4
cache_hash(sel, m) == sel % (m + 1)

\* The bucket n applications of cache_next() after the one the selector hashes to.
Probe(sel, n) == (cache_hash(sel, mask) + n) % (mask + 1)

\* The first unused or matching bucket in that order; mask + 1 if there is none.
Slot(sel) ==
    LET ends == {n \in 0 .. mask : Bucket(buckets, Probe(sel, n)).sel \in {0, sel}}
    IN  IF ends = {} THEN mask + 1 ELSE Probe(sel, Min(ends))

log2u(n) == CHOOSE k \in 0 .. n : 2 ^ k <= n /\ n < 2 ^ (k + 1)

\* emptyBucketsForCapacity(capacity, false)
SharedEmpty(n) ==
    IF n <= EMPTY_CAPACITY + 1 THEN _objc_empty_cache
    ELSE IF log2u(n) >= Len(emptyBucketsList) THEN nil
    ELSE emptyBucketsList[log2u(n) + 1]

isConstantEmptyCache == occupied = 0 /\ buckets = SharedEmpty(capacity)

Idle == [pc |-> "idle", sel |-> nil, i |-> 0, b |-> nil, wrapped |-> FALSE]
Unlocked == [pc |-> "idle", imp |-> nil, sel |-> nil, new |-> nil, mask |-> 0,
             old |-> nil, size |-> 0, then |-> nil, changed |-> {}, toCheck |-> {},
             aLot |-> FALSE]

Init ==
    /\ buckets = _objc_empty_cache /\ mask = 0 /\ occupied = 0
    /\ memory = [b \in Blocks \cup {_objc_empty_cache} |->
                   IF b = _objc_empty_cache THEN Zeroed(EMPTY_CAPACITY + 1) ELSE <<>>]
    /\ emptyBucketsList = <<>>
    /\ garbage_refs = {} /\ garbage_byte_size = 0
    /\ shouldUseRestartableRanges \in BOOLEAN
    /\ imps \in {f \in [Sels -> Imps] : \A s1, s2 \in Sels : f[s1] = f[s2] => s1 = s2}
    /\ writer = Unlocked
    /\ reader = [t \in Readers |-> Idle]
    /\ current = [t \in Readers |-> {}]

cacheVars == <<buckets, mask, occupied>>
garbageVars == <<garbage_refs, garbage_byte_size, shouldUseRestartableRanges>>

-----------------------------------------------------------------------------
(* The readers: CacheLookup.  From the load of the mask to the load of the *)
(* implementation a thread is inside the restartable range.                *)

InRange == {"buckets", "compare", "end", "wrap", "hit"}

Shared == <<buckets, mask, occupied, memory, emptyBucketsList, garbage_refs,
            garbage_byte_size, shouldUseRestartableRanges, imps, writer>>

ReaderStep == UNCHANGED <<Shared, current>>

\* The implementations a lookup may find: while a change is being flushed, still
\* the old one.
MayFind(s) == {imps[s]} \cup {c.old : c \in {d \in writer.changed : d.sel = s}}

Send(t, s) ==
    /\ reader[t].pc = "idle" /\ buckets # nil
    /\ reader' = [reader EXCEPT ![t] =
                    [@ EXCEPT !.pc = "buckets", !.sel = s, !.i = cache_hash(s, mask)]]
    /\ current' = [current EXCEPT ![t] = MayFind(s)]
    /\ UNCHANGED Shared

LoadBuckets(t) ==
    /\ reader[t].pc = "buckets"
    /\ reader' = [reader EXCEPT ![t] = [@ EXCEPT !.pc = "compare", !.b = buckets]]
    /\ ReaderStep

\* A signal, or task_restartable_ranges_synchronize(), makes a thread inside the
\* range continue at its miss path.
Missed(r) == [Idle EXCEPT !.pc = "miss", !.sel = r.sel]

SignalHits(t) ==
    /\ shouldUseRestartableRanges
    /\ reader[t].pc \in InRange
    /\ reader' = [reader EXCEPT ![t] = Missed(@)]
    /\ ReaderStep

Compare(t) ==
    LET r == reader[t] IN
    /\ r.pc = "compare"
    /\ reader' = [reader EXCEPT ![t].pc =
                    IF Bucket(r.b, r.i).sel = r.sel THEN "hit" ELSE "end"]
    /\ ReaderStep

\* The same word is loaded a second time: it may have been filled in between.
CompareEnd(t) ==
    LET r == reader[t]
        sel == Bucket(r.b, r.i).sel IN
    /\ r.pc = "end"
    /\ \/ /\ sel > 1
          /\ reader' = [reader EXCEPT ![t] = [@ EXCEPT !.pc = "compare", !.i = r.i + 1]]
       \/ /\ sel = 1 /\ ~r.wrapped
          /\ reader' = [reader EXCEPT ![t].pc = "wrap"]
       \/ /\ sel = 0 \/ (sel = 1 /\ r.wrapped)
          /\ reader' = [reader EXCEPT ![t] = Missed(@)]
    /\ ReaderStep

Wrap(t) ==
    LET r == reader[t] IN
    /\ r.pc = "wrap"
    /\ reader' = [reader EXCEPT ![t] =
                    [@ EXCEPT !.pc = "compare", !.b = Bucket(r.b, r.i).imp,
                              !.i = 0, !.wrapped = TRUE]]
    /\ ReaderStep

\* The implementation, kept in b, is called: the send is over.
CacheHit(t) ==
    LET r == reader[t] IN
    /\ r.pc = "hit"
    /\ reader' = [reader EXCEPT ![t] =
                    [@ EXCEPT !.pc = "called", !.b = Bucket(r.b, r.i).imp,
                              !.i = 0, !.wrapped = FALSE]]
    /\ ReaderStep

-----------------------------------------------------------------------------
(* The writer.                                                             *)

\* The bucket array is in place: what the caller does next.
Continue(w) == [Unlocked EXCEPT !.pc = w.then, !.sel = w.sel, !.imp = w.imp,
                                !.changed = w.changed]

\* setBucketsAndMask(new, m), then collect_free(old, size) unless old is nil.
Install(w, new, m, old, then) ==
    writer' = [w EXCEPT !.pc = "setBuckets", !.new = new, !.mask = m, !.old = old,
                        !.size = capacity, !.then = then]

\* The lock is released; the thread that filled the cache calls what it found.
Finish ==
    /\ writer' = Unlocked
    /\ reader' = [t \in Readers |->
                    IF reader[t].pc = "filling" THEN [reader[t] EXCEPT !.pc = "called"]
                    ELSE reader[t]]

\* reallocate(): allocateBuckets() puts the end marker into the last bucket.
reallocate(w, newCapacity, freeOld) ==
    /\ Free # {}
    /\ memory' = [memory EXCEPT ![Malloc] =
                    [Zeroed(newCapacity) EXCEPT ![newCapacity] = endMarker(Malloc)]]
    /\ Install(w, Malloc, newCapacity - 1, IF freeOld THEN buckets ELSE nil, "place")

\* Mutants: the replaced empty array is thrown away; the end marker and the fill
\* ratio are forgotten.
MakeRoom_FreesEmpty(w) ==
    \/ reallocate(w, IF capacity = 0 THEN INIT_CACHE_SIZE ELSE capacity, TRUE)
    \/ /\ ~isConstantEmptyCache
       /\ writer' = [w EXCEPT !.pc = "place"] /\ UNCHANGED memory

MakeRoom_Full(w) ==
    \/ /\ isConstantEmptyCache
       /\ reallocate(w, IF capacity = 0 THEN INIT_CACHE_SIZE ELSE capacity, FALSE)
    \/ /\ ~isConstantEmptyCache /\ occupied + 1 <= capacity
       /\ writer' = [w EXCEPT !.pc = "place"] /\ UNCHANGED memory

\* insert() up to the point where the cache has room.
MakeRoom(w) ==
    \/ /\ isConstantEmptyCache
       /\ reallocate(w, IF capacity = 0 THEN INIT_CACHE_SIZE ELSE capacity, FALSE)
    \/ /\ ~isConstantEmptyCache
       /\ occupied + 1 + 1 <= cache_fill_ratio(capacity)
       /\ writer' = [w EXCEPT !.pc = "place"]
       /\ UNCHANGED memory
    \/ /\ ~isConstantEmptyCache
       /\ occupied + 1 + 1 > cache_fill_ratio(capacity)
       /\ LET double == IF capacity = 0 THEN INIT_CACHE_SIZE ELSE capacity * 2
          IN  reallocate(w, IF double > MAX_CACHE_SIZE THEN MAX_CACHE_SIZE ELSE double,
                         TRUE)

\* lookUpImpOrForward() after a miss: method list and cache fill under one lock.
LookUp(t) ==
    LET r == reader[t]
        w == [Unlocked EXCEPT !.sel = r.sel, !.imp = imps[r.sel]] IN
    /\ r.pc = "miss" /\ writer.pc = "idle"
    /\ reader' = [reader EXCEPT ![t] = [@ EXCEPT !.pc = "filling", !.b = w.imp]]
    /\ MakeRoom(w)
    /\ UNCHANGED <<cacheVars, emptyBucketsList, garbageVars, imps, current>>

\* The same by a thread that is none of the Readers, or that came here without a
\* look at the cache (class_getInstanceMethod()).
LookUpElsewhere(s) ==
    /\ writer.pc = "idle"
    /\ MakeRoom([Unlocked EXCEPT !.sel = s, !.imp = imps[s]])
    /\ UNCHANGED <<cacheVars, emptyBucketsList, garbageVars, imps, reader, current>>

WriterStep == UNCHANGED <<emptyBucketsList, imps, current>>

setBuckets ==
    /\ writer.pc = "setBuckets"
    /\ buckets' = writer.new
    /\ writer' = [writer EXCEPT !.pc = "setMask"]
    /\ UNCHANGED <<mask, occupied, memory, garbageVars, reader>> /\ WriterStep

setMask ==
    /\ writer.pc = "setMask"
    /\ mask' = writer.mask /\ occupied' = 0
    /\ writer' = IF writer.old = nil THEN Continue(writer)
                 ELSE [writer EXCEPT !.pc = "collect_free", !.new = nil, !.mask = 0]
    /\ UNCHANGED <<buckets, memory, garbageVars, reader>> /\ WriterStep

\* b[i].set<Atomic, Encoded>(): the implementation first, then the selector.
StoreImp ==
    LET i == Slot(writer.sel) IN
    /\ writer.pc = "place"
    /\ \/ /\ i <= mask /\ Bucket(buckets, i).sel = 0
          /\ occupied' = occupied + 1
          /\ memory' = [memory EXCEPT ![buckets][i + 1].imp = writer.imp]
          /\ writer' = [writer EXCEPT !.pc = "storeSel"]
          /\ UNCHANGED reader
       \/ /\ i <= mask /\ Bucket(buckets, i).sel = writer.sel
          /\ Finish
          /\ UNCHANGED <<occupied, memory>>
       \/ /\ i > mask
          /\ writer' = [writer EXCEPT !.pc = "bad_cache"]
          /\ UNCHANGED <<occupied, memory, reader>>
    /\ UNCHANGED <<buckets, mask, garbageVars>> /\ WriterStep

StoreSel ==
    LET i == Slot(writer.sel) IN
    /\ writer.pc = "storeSel"
    /\ memory' = [memory EXCEPT ![buckets][i + 1].sel = writer.sel]
    /\ Finish
    /\ UNCHANGED <<buckets, mask, occupied, garbageVars>> /\ WriterStep

-----------------------------------------------------------------------------
(* Flushing.                                                               *)

\* emptyBucketsForCapacity(capacity, true) and the list it leaves behind.
emptyBucketsForCapacity(n) ==
    IF SharedEmpty(n) # nil THEN <<SharedEmpty(n), emptyBucketsList>>
    ELSE <<Malloc, [k \in 1 .. log2u(n) + 1 |->
                      IF k <= Len(emptyBucketsList) THEN emptyBucketsList[k] ELSE Malloc]>>

\* Mutant: the cache shrinks to nothing.
eraseNolock_Shrinks(w, then) ==
    \/ /\ occupied > 0
       /\ Install(w, _objc_empty_cache, 0, buckets, then)
       /\ UNCHANGED <<emptyBucketsList, memory>>
    \/ /\ occupied = 0
       /\ writer' = [w EXCEPT !.pc = then]
       /\ UNCHANGED <<emptyBucketsList, memory>>

\* eraseNolock(): the mask stays, the buckets become shared empty ones.
eraseNolock(w, then) ==
    \/ /\ occupied > 0
       /\ SharedEmpty(capacity) # nil \/ Free # {}
       /\ LET e == emptyBucketsForCapacity(capacity) IN
          /\ emptyBucketsList' = e[2]
          /\ memory' = IF e[2] = emptyBucketsList THEN memory
                       ELSE [memory EXCEPT ![e[1]] = Zeroed(capacity)]
          /\ Install(w, e[1], capacity - 1, buckets, then)
    \/ /\ occupied = 0
       /\ writer' = [w EXCEPT !.pc = then]
       /\ UNCHANGED <<emptyBucketsList, memory>>

\* cache_getImp(): the same lookup, run by the holder of the lock.
cache_getImp(sel) ==
    LET i == Slot(sel) IN
    IF i <= mask /\ Bucket(buckets, i).sel = sel THEN Bucket(buckets, i).imp ELSE nil

\* method_setImplementation() and method_exchangeImplementations(): the methods
\* of the selectors in S get other implementations, and the cache is flushed if
\* it holds one of the old ones.
SetImplementations(S, new) ==
    LET changed == {[sel |-> s, old |-> imps[s]] : s \in S} IN
    /\ writer.pc = "idle"
    /\ imps' = [s \in Sels |-> IF s \in S THEN new[s] ELSE imps[s]]
    /\ current' = [t \in Readers |->
                     IF reader[t].pc # "idle" /\ reader[t].sel \in S
                     THEN current[t] \cup {new[reader[t].sel]} ELSE current[t]]
    /\ writer' = [Unlocked EXCEPT !.pc = "shouldFlush", !.changed = changed]
    /\ UNCHANGED <<cacheVars, memory, emptyBucketsList, garbageVars, reader>>

method_setImplementation ==
    \E s \in Swizzled : \E imp \in Imps :
        SetImplementations({s}, [x \in {s} |-> imp])

method_exchangeImplementations ==
    \E s1, s2 \in Swizzled :
        /\ s1 # s2
        /\ SetImplementations({s1, s2},
               [x \in {s1, s2} |-> IF x = s1 THEN imps[s2] ELSE imps[s1]])

\* Mutant: only one of two exchanged methods is looked for.
FlushChanged_OnlyOne ==
    LET c == CHOOSE d \in writer.changed : \A e \in writer.changed : d.sel <= e.sel IN
    /\ writer.pc = "shouldFlush"
    /\ \/ cache_getImp(c.sel) = c.old /\ eraseNolock(writer, "done")
       \/ /\ cache_getImp(c.sel) # c.old
          /\ writer' = Unlocked /\ UNCHANGED <<emptyBucketsList, memory>>
    /\ UNCHANGED <<cacheVars, garbageVars, imps, reader, current>>

\* flushCaches() with the predicate cache.shouldFlush(sel, old).  A signal that
\* hits cache_getImp() inside its restartable range makes it return nil.
FlushChanged ==
    LET stale == {c \in writer.changed : cache_getImp(c.sel) = c.old} IN
    /\ writer.pc = "shouldFlush"
    /\ \E seen \in (IF SignalsInLock THEN SUBSET stale ELSE {stale}) :
          \/ seen # {} /\ eraseNolock(writer, "done")
          \/ seen = {} /\ writer' = Unlocked /\ UNCHANGED <<emptyBucketsList, memory>>
    /\ UNCHANGED <<cacheVars, garbageVars, imps, reader, current>>

\* _objc_flush_caches(nil): flush everything, then collect for certain.  The lock
\* is given up in between.
_objc_flush_caches ==
    /\ writer.pc = "idle"
    /\ eraseNolock(Unlocked, "done")
    /\ UNCHANGED <<cacheVars, garbageVars, imps, reader, current>>

CollectALot ==
    /\ writer.pc = "idle" /\ garbage_refs # {}
    /\ writer' = [Unlocked EXCEPT !.pc = "collect", !.then = "done", !.aLot = TRUE,
                                  !.toCheck = Readers]
    /\ UNCHANGED <<cacheVars, memory, emptyBucketsList, garbageVars, imps, reader, current>>

\* cache_t::destroy(): the class is disposed of, when nobody sends to it any more.
destroy ==
    /\ writer.pc = "idle" /\ \A t \in Readers : reader[t].pc \in {"idle", "called"}
    /\ memory' = IF isConstantEmptyCache THEN memory ELSE [memory EXCEPT ![buckets] = <<>>]
    /\ buckets' = nil
    /\ writer' = [Unlocked EXCEPT !.pc = "destroyed"]
    /\ UNCHANGED <<mask, occupied, emptyBucketsList, garbageVars, imps, reader, current>>

Done ==
    /\ writer.pc = "done"
    /\ writer' = Unlocked
    /\ UNCHANGED <<cacheVars, memory, emptyBucketsList, garbageVars, imps, reader, current>>

-----------------------------------------------------------------------------
(* Garbage collection: collect_free(), collectNolock(),                    *)
(* _collecting_in_critical().                                              *)

\* An array that becomes garbage while no reader is in it can only be freed: its
\* contents do not matter any more, and are zero here so that states do not differ
\* in them.
Disconnected(b) ==
    IF \E t \in Readers : reader[t].pc \in InRange /\ reader[t].b = b
    THEN memory ELSE [memory EXCEPT ![b] = Zeroed(Len(@))]

collect_free ==
    /\ writer.pc = "collect_free"
    /\ garbage_refs' = garbage_refs \cup {writer.old}
    /\ memory' = Disconnected(writer.old)
    /\ garbage_byte_size' = garbage_byte_size + writer.size
    /\ UNCHANGED shouldUseRestartableRanges
    /\ writer' = IF garbage_byte_size' < garbage_threshold
                 THEN Continue(writer)
                 ELSE [writer EXCEPT !.pc = "collect", !.old = nil, !.size = 0,
                                     !.toCheck = Readers]
    /\ UNCHANGED <<cacheVars, reader>> /\ WriterStep

FreeGarbage(w) ==
    /\ memory' = [b \in DOMAIN memory |->
                    IF b \in garbage_refs THEN <<>> ELSE memory[b]]
    /\ garbage_refs' = {} /\ garbage_byte_size' = 0
    /\ UNCHANGED shouldUseRestartableRanges
    /\ writer' = Continue(w)

\* task_restartable_ranges_synchronize(): every thread inside the range continues
\* at its miss path.
Synchronize ==
    /\ writer.pc = "collect" /\ shouldUseRestartableRanges
    /\ reader' = [t \in Readers |->
                    IF reader[t].pc \in InRange THEN Missed(reader[t]) ELSE reader[t]]
    /\ FreeGarbage(writer)
    /\ UNCHANGED cacheVars /\ WriterStep

\* Without restartable ranges the PC of one thread after the other is looked at.
CheckThread(t) ==
    /\ writer.pc = "collect" /\ ~shouldUseRestartableRanges
    /\ t \in writer.toCheck
    /\ writer' = IF reader[t].pc \notin InRange
                 THEN [writer EXCEPT !.toCheck = @ \ {t}]
                 ELSE IF writer.aLot
                 THEN [writer EXCEPT !.toCheck = Readers]
                 ELSE Continue(writer)
    /\ UNCHANGED <<cacheVars, memory, garbageVars, reader>> /\ WriterStep

AllChecked ==
    /\ writer.pc = "collect" /\ ~shouldUseRestartableRanges
    /\ writer.toCheck = {}
    /\ FreeGarbage(writer)
    /\ UNCHANGED <<cacheVars, reader>> /\ WriterStep

-----------------------------------------------------------------------------
ReaderNext ==
    \E t \in Readers :
        \/ \E s \in Sels : Send(t, s)
        \/ LoadBuckets(t) \/ Compare(t) \/ CompareEnd(t) \/ Wrap(t) \/ CacheHit(t)
        \/ SignalHits(t)
        \/ LookUp(t)

WriterNext ==
    \/ \E s \in Sels : LookUpElsewhere(s)
    \/ setBuckets \/ setMask \/ StoreImp \/ StoreSel
    \/ method_setImplementation \/ method_exchangeImplementations \/ FlushChanged
    \/ _objc_flush_caches \/ CollectALot \/ Done \/ destroy
    \/ collect_free \/ Synchronize \/ AllChecked
    \/ \E t \in Readers : CheckThread(t)

Next == ReaderNext \/ WriterNext

Spec == Init /\ [][Next]_vars

-----------------------------------------------------------------------------
(* Properties                                                              *)

\* A message send never reads a bucket array that was freed, nor a bucket behind
\* the end of one, whatever mask and array it has loaded: setBucketsAndMask()
\* orders its stores for this, and the garbage waits for it.
ReadsAreSafe ==
    \A t \in Readers :
        reader[t].pc \in {"compare", "end", "wrap", "hit"} =>
            /\ reader[t].b \in DOMAIN memory
            /\ reader[t].i < Len(memory[reader[t].b])

\* What a message send calls is an implementation its selector had at some time
\* since the send began (or until the flush after the change is over): the cache
\* never gives "an incorrect result" (objc-cache.mm:36-40).
ImpIsCurrent ==
    \A t \in Readers : reader[t].pc = "called" => reader[t].b \in current[t]

shared == ToSet(emptyBucketsList) \cup {_objc_empty_cache}

live == {b \in Blocks : memory[b] # <<>>}

moving ==
    IF writer.pc \in {"setBuckets", "setMask", "collect_free"}
    THEN {writer.new, writer.old} \ {nil} ELSE {}

\* Every bucket array is owned once: it is the cache's, garbage, shared and empty,
\* or on its way between these; and the shared ones stay empty for ever.  An array
\* that is in no place leaks, one in two is freed twice or freed in use.
BlocksAccountedFor ==
    /\ \A b \in shared : \A i \in DOMAIN memory[b] : memory[b][i] = Unused
    /\ garbage_refs \cap (shared \cup {buckets} \cup moving) = {}
    /\ live \subseteq shared \cup garbage_refs \cup {buckets} \cup moving
    /\ garbage_refs \cup ({buckets} \ {nil}) \subseteq live \cup shared

\* insert() always finds a bucket: "There is guaranteed to be an empty slot"
\* (objc-cache.mm:882), which is what keeps lookups from running for ever.
RoomInCache == writer.pc # "bad_cache"

-----------------------------------------------------------------------------
(* The inductive invariant.                                                *)

Addresses == Blocks \cup {_objc_empty_cache}

Capacities ==
    {n \in INIT_CACHE_SIZE .. MAX_CACHE_SIZE : \E k \in 0 .. n : n = 2 ^ k}

Loops == {"compare", "end", "wrap", "hit"}

WriterType ==
    [pc : {"idle", "setBuckets", "setMask", "collect_free", "collect", "place",
           "storeSel", "shouldFlush", "done", "destroyed"},
     imp : Imps \cup {nil}, sel : Sels \cup {nil},
     new : Addresses \cup {nil}, mask : Nat, old : Addresses \cup {nil}, size : Nat,
     then : {"place", "done", nil}, changed : SUBSET [sel : Sels, old : Imps],
     toCheck : SUBSET Readers, aLot : BOOLEAN]

ReaderType ==
    [pc : {"idle", "miss", "filling", "called"} \cup InRange, sel : Sels \cup {nil},
     i : Nat, b : Imps \cup Addresses \cup {nil}, wrapped : BOOLEAN]

TypeOK ==
    /\ buckets \in Addresses \cup {nil} /\ mask \in Nat /\ occupied \in Nat
    /\ memory \in [Addresses -> Seq([sel : Nat, imp : Imps \cup Addresses \cup {nil}])]
    /\ emptyBucketsList \in Seq(Blocks)
    /\ garbage_refs \in SUBSET Blocks /\ garbage_byte_size \in Nat
    /\ shouldUseRestartableRanges \in BOOLEAN
    /\ imps \in [Sels -> Imps]
    /\ writer \in WriterType /\ reader \in [Readers -> ReaderType]
    /\ current \in [Readers -> SUBSET Imps]

\* What an array holds: entries, unused buckets, and end markers with its own
\* address; the last bucket is never an entry, so no scan runs past it.
ArraysOK ==
    \A b \in Addresses : memory[b] # <<>> =>
        /\ Last(memory[b]).sel \in {0, 1}
        /\ \A i \in DOMAIN memory[b] :
            LET e == memory[b][i] IN
            /\ e.sel = 1 => e.imp = b
            /\ e.sel > 1 => e.sel \in Sels

\* Shared arrays are unused, and as large as the capacity they are handed out for.
SharedOK ==
    /\ \A b \in shared : memory[b] # <<>> /\ memory[b] = Zeroed(Len(memory[b]))
    /\ \A n \in Capacities \cup {0} :
        SharedEmpty(n) # nil => Len(memory[SharedEmpty(n)]) >= n

Entries(b) == {i \in DOMAIN memory[b] : memory[b][i].sel > 1}

\* An array of the cache's own: probing for a selector that is there finds it, and
\* occupied counts the entries.
Owned ==
    /\ Len(memory[buckets]) = mask + 1 /\ mask + 1 \in Capacities
    /\ \A i \in DOMAIN memory[buckets] : memory[buckets][i].sel = 1 <=> i = mask + 1
    /\ \A i \in Entries(buckets) : Slot(memory[buckets][i].sel) + 1 = i
    /\ occupied = Cardinality(Entries(buckets))
                    + (IF writer.pc = "storeSel" THEN 1 ELSE 0)

CacheOK ==
    buckets # nil =>
        /\ mask < Len(memory[buckets])
        /\ mask = 0 \/ mask + 1 \in Capacities
        /\ writer.pc # "setMask" =>
            IF buckets \in shared THEN isConstantEmptyCache ELSE Owned

Filling == writer.pc \in {"place", "storeSel"} \/ writer.then = "place"

\* A new array is larger or as large, and is in nobody's hands; the old one is in
\* the cache's until the new one is, and has to be collected unless it is shared.
InstallOK ==
    /\ writer.pc \in {"setBuckets", "setMask"} =>
        /\ writer.mask + 1 \in Capacities /\ mask <= writer.mask
        /\ writer.new \in Addresses \ garbage_refs
        /\ IF writer.new \in shared
           THEN writer.new = SharedEmpty(writer.mask + 1) /\ writer.then = "done"
           ELSE memory[writer.new] = [Zeroed(writer.mask + 1) EXCEPT
                                        ![writer.mask + 1] = endMarker(writer.new)]
        /\ writer.then # nil
    /\ writer.pc = "setBuckets" =>
        /\ writer.new # buckets
        /\ writer.old = (IF buckets \in shared THEN nil ELSE buckets)
    /\ writer.pc = "setMask" => writer.new = buckets
    /\ writer.pc \in {"setMask", "collect_free"} /\ writer.old # nil =>
        /\ writer.old \notin shared \cup {buckets} \cup garbage_refs
        /\ memory[writer.old] # <<>>
    /\ writer.pc = "collect_free" => writer.old # nil /\ writer.new = nil
    /\ writer.pc \in {"collect_free", "collect"} =>
        /\ writer.then # nil
        /\ writer.then = "place" => buckets \notin shared /\ occupied = 0

\* The implementation to be stored is the current one, and there is room for it.
FillOK ==
    /\ Filling => /\ writer.sel \in Sels /\ writer.imp = imps[writer.sel]
                  /\ writer.changed = {}
    /\ writer.pc = "place" => buckets \notin shared /\ occupied < mask
    /\ writer.pc = "storeSel" =>
        /\ buckets \notin shared /\ Slot(writer.sel) <= mask
        /\ Bucket(buckets, Slot(writer.sel)) = [sel |-> 0, imp |-> writer.imp]

WriterOK ==
    /\ InstallOK /\ FillOK
    /\ writer.pc = "idle" => writer = Unlocked
    /\ writer.pc = "destroyed" <=> buckets = nil
    /\ writer.pc = "destroyed" => \A t \in Readers : reader[t].pc \in {"idle", "called"}

\* No array in use is empty or free, and a thread that was looked at has not come
\* back to garbage.
ReaderOK(t) ==
    LET r == reader[t] IN
    /\ r.pc # "idle" => r.sel \in Sels
    /\ r.pc = "buckets" => r.i <= mask
    /\ r.pc \in Loops =>
        /\ r.b \in Addresses /\ r.i < Len(memory[r.b])
        /\ r.pc = "hit" => Bucket(r.b, r.i).sel = r.sel
        /\ r.pc = "wrap" => Bucket(r.b, r.i).sel = 1
        /\ writer.pc = "collect" /\ ~shouldUseRestartableRanges =>
                t \in writer.toCheck \/ r.b \notin garbage_refs

\* The cache holds implementations that a lookup may find, and nothing once the
\* flush is over.
CacheFresh ==
    /\ buckets # nil => \A i \in Entries(buckets) :
            memory[buckets][i].imp \in MayFind(memory[buckets][i].sel)
    /\ /\ writer.changed # {}
       /\ writer.pc \in {"setMask", "collect_free", "collect", "done"}
       => Entries(buckets) = {}

\* A thread finds nothing in its array that its selector did not have meanwhile.
SendFresh(t) ==
    LET r == reader[t] IN
    /\ r.pc # "idle" => MayFind(r.sel) \subseteq current[t]
    /\ r.pc \in {"filling", "called"} => r.b \in current[t]
    /\ r.pc \in Loops => \A i \in DOMAIN memory[r.b] :
            memory[r.b][i].sel = r.sel => memory[r.b][i].imp \in current[t]

ReadersOK == \A t \in Readers : ReaderOK(t)

FreshOK == ~SignalsInLock => CacheFresh /\ \A t \in Readers : SendFresh(t)

CacheInv ==
    /\ TypeOK /\ ArraysOK /\ SharedOK /\ CacheOK /\ WriterOK /\ ReadersOK
    /\ FreshOK /\ BlocksAccountedFor

\* Every bucket array is owned once, and insert() finds a bucket in the cache's; with
\* the inductive invariant, from which MethodCacheProofs proves both.
BlocksSound == BlocksAccountedFor /\ RoomInCache /\ CacheInv

\* For TLC: implementations are interchangeable.
Symmetry == Permutations(Imps)

=============================================================================
