------------------------------- MODULE DenseMap -------------------------------
(***************************************************************************)
(* DenseMap and SmallDenseMap of runtime/llvm-DenseMap.h, the hash table   *)
(* behind the side table's counts, the associations, the selectors, the    *)
(* pending +initialize calls and the remapped classes.  It probes          *)
(* quadratically, leaves tombstones, and, for the counts, treats an entry  *)
(* with a purgeable (zero) value as one that may be reused.                *)
(***************************************************************************)
EXTENDS Integers, FiniteSets, FiniteSetsExt

CONSTANTS
    Keys, Values,
    EmptyKey, TombstoneKey,  \* -1 and -2: never keys of the map
    Absent,                  \* what find() returns for end()
    DefaultValue,            \* ValueT()
    Purgeable,               \* the values ValueInfoT::isPurgeable accepts
    HashValue,               \* KeyInfoT::getHashValue
    InlineChoices,           \* InlineBuckets of a SmallDenseMap; 0: a DenseMap
    Reservations,            \* the arguments of reserve()
    MIN_BUCKETS, MIN_COMPACT,
    UnsignedBits             \* the width of unsigned: 32

VARIABLES
    InlineBuckets,  \* the template parameter: never changes
    map, other,     \* two maps of one type
    corrupt         \* FatalCorruptHashTables() was called

vars == <<InlineBuckets, map, other, corrupt>>

-----------------------------------------------------------------------------
(* llvm-MathExtras.h *)

Unsigned(x) == x % 2^UnsignedBits

\* The next power of two strictly greater than a, 0 on overflow.
NextPowerOf2(a) ==
    LET e == CHOOSE e \in 0 .. UnsignedBits : 2^e > a /\ (e = 0 \/ 2^(e-1) <= a)
    IN  Unsigned(2^e)

Log2_32_Ceil(n) ==
    CHOOSE e \in 0 .. UnsignedBits : 2^e >= n /\ (e = 0 \/ 2^(e-1) < n)

-----------------------------------------------------------------------------
(* A map: its buckets, and the counts it keeps.  The value of a bucket     *)
(* without an entry is memory nobody reads.                                *)

EmptyBucket == [key |-> EmptyKey]

initEmpty(n) ==
    [Buckets |-> [i \in 0 .. n - 1 |-> EmptyBucket],
     NumEntries |-> 0, NumTombstones |-> 0]

NumBuckets(m) == Cardinality(DOMAIN m.Buckets)

\* A DenseMap of 0 buckets has none at all, a small map at least the inline.
isSmall(m) == InlineBuckets # 0 /\ NumBuckets(m) = InlineBuckets

HasEntry(b) == b.key \notin {EmptyKey, TombstoneKey}

Reusable(b) == b.key = TombstoneKey \/ (HasEntry(b) /\ b.val \in Purgeable)

\* The buckets probed for hash value h, in a table of n.
Probe(h, n, i) == (h + (i * (i + 1)) \div 2) % n

NoBucket == -1

\* Mutant: a purgeable entry ends the search like an empty bucket.
LookupBucketFor_StopsAtZero(m, k) ==
    LET n == NumBuckets(m)
        At(i) == Probe(HashValue[k], n, i)
        search[i \in 0 .. n + 1] ==
            LET b == m.Buckets[At(i)] IN
            IF i > n THEN i
            ELSE IF b.key \in {k, EmptyKey} \/ Reusable(b) THEN i ELSE search[i + 1]
        stop == search[0]
    IN  IF n = 0 \/ stop > n THEN [found |-> FALSE, bucket |-> NoBucket]
        ELSE [found |-> m.Buckets[At(stop)].key = k, bucket |-> At(stop)]

\* The bucket of k, or the one it should go to: the first it may reuse on the
\* way to an empty bucket.
LookupBucketFor(m, k) ==
    LET n == NumBuckets(m)
        At(i) == Probe(HashValue[k], n, i)
        search[i \in 0 .. n + 1] ==
            IF i > n \/ m.Buckets[At(i)].key \in {k, EmptyKey} THEN i
            ELSE search[i + 1]
        stop == search[0]
        Before == {i \in 0 .. stop - 1 : Reusable(m.Buckets[At(i)])}
    IN  IF n = 0 \/ stop > n THEN [found |-> FALSE, bucket |-> NoBucket]
        ELSE IF m.Buckets[At(stop)].key = k THEN [found |-> TRUE, bucket |-> At(stop)]
        ELSE [found |-> FALSE, bucket |-> At(Min(Before \cup {stop}))]

\* The search runs into more buckets than there are.
Corrupts(m, k) == NumBuckets(m) # 0 /\ LookupBucketFor(m, k).bucket = NoBucket

\* One entry to the new table; a purgeable one is dropped.
MoveBucket(m, b) ==
    IF ~HasEntry(b) \/ Reusable(b) THEN m
    ELSE [m EXCEPT !.Buckets[LookupBucketFor(m, b.key).bucket] = b,
                   !.NumEntries = @ + 1]

\* Mutant: the last of the old buckets is not visited.
moveFromOldBuckets_NotLast(old, n) ==
    LET moved[i \in 0 .. Cardinality(DOMAIN old)] ==
            IF i = 0 THEN initEmpty(n) ELSE MoveBucket(moved[i - 1], old[i - 1])
    IN  moved[IF DOMAIN old = {} THEN 0 ELSE Cardinality(DOMAIN old) - 1]

\* A new table of n buckets with the old entries, in the order of their buckets.
moveFromOldBuckets(old, n) ==
    LET moved[i \in 0 .. Cardinality(DOMAIN old)] ==
            IF i = 0 THEN initEmpty(n) ELSE MoveBucket(moved[i - 1], old[i - 1])
    IN  moved[Cardinality(DOMAIN old)]

\* A DenseMap doubles, or keeps its size to get rid of its tombstones.
DenseMap_grow(m, AtLeast) ==
    moveFromOldBuckets(m.Buckets,
        Max({MIN_BUCKETS, NextPowerOf2(Unsigned(AtLeast - 1))}))

\* A SmallDenseMap leaves its inline buckets, doubles, or goes back to them.
SmallDenseMap_grow(m, AtLeast) ==
    LET n == IF AtLeast >= InlineBuckets
             THEN Max({MIN_BUCKETS, NextPowerOf2(AtLeast)}) ELSE AtLeast
    IN  IF isSmall(m) /\ n < InlineBuckets THEN m
        ELSE moveFromOldBuckets(m.Buckets, Max({n, InlineBuckets}))

grow(m, AtLeast) ==
    IF InlineBuckets = 0 THEN DenseMap_grow(m, AtLeast)
    ELSE SmallDenseMap_grow(m, AtLeast)

getMinBucketToReserveForEntries(n) ==
    IF n = 0 THEN 0 ELSE NextPowerOf2((n * 4) \div 3 + 1)

\* DenseMap's init takes a number of entries, SmallDenseMap's of buckets.
init(n) ==
    initEmpty(IF InlineBuckets = 0 THEN getMinBucketToReserveForEntries(n)
              ELSE Max({n, InlineBuckets}))

DenseMap_shrink_and_clear(m) ==
    LET n == IF m.NumEntries = 0 THEN 0
             ELSE Max({MIN_BUCKETS, 2^(Log2_32_Ceil(m.NumEntries) + 1)})
    IN  IF n = NumBuckets(m) THEN initEmpty(n) ELSE init(n)

SmallDenseMap_shrink_and_clear(m) ==
    LET p == 2^(Log2_32_Ceil(m.NumEntries) + 1)
        n == IF m.NumEntries = 0 THEN 0
             ELSE IF p > InlineBuckets /\ p < MIN_BUCKETS THEN MIN_BUCKETS ELSE p
    IN  IF isSmall(m) /\ n <= InlineBuckets THEN initEmpty(InlineBuckets)
        ELSE IF ~isSmall(m) /\ n = NumBuckets(m) THEN initEmpty(n) ELSE init(n)

shrink_and_clear(m) ==
    IF InlineBuckets = 0 THEN DenseMap_shrink_and_clear(m)
    ELSE SmallDenseMap_shrink_and_clear(m)

\* Free what an emptied, or a nearly empty large, map holds.
compact(m) ==
    IF m.NumEntries = 0 THEN shrink_and_clear(m)
    ELSE IF NumBuckets(m) \div 16 > m.NumEntries /\ NumBuckets(m) > MIN_COMPACT
         THEN grow(m, m.NumEntries * 2) ELSE m

-----------------------------------------------------------------------------
(* The operations of DenseMapBase, as functions from a map to a map *)

\* Mutant: the table is not rehashed when tombstones have filled it.
MakeRoom_IgnoresTombstones(m) ==
    LET n == NumBuckets(m) IN
    IF (m.NumEntries + 1) * 4 >= n * 3 THEN grow(m, n * 2) ELSE m

\* Before an insertion: over three quarters full, or under an eighth empty.
MakeRoom(m) ==
    LET n == NumBuckets(m)
        NewNumEntries == m.NumEntries + 1
    IN  IF NewNumEntries * 4 >= n * 3 THEN grow(m, n * 2)
        ELSE IF Unsigned(n - (NewNumEntries + m.NumTombstones)) <= n \div 8
             THEN grow(m, n)
             ELSE m

\* k is not in m.  It takes an empty bucket, a tombstone, or the place of an
\* entry with a purgeable value.
InsertIntoBucket(m, k, v) ==
    LET room == MakeRoom(m)
        b    == LookupBucketFor(room, k).bucket
        old  == room.Buckets[b].key
    IN  [room EXCEPT
          !.Buckets[b]    = [key |-> k, val |-> v],
          !.NumEntries    = @ + (IF old \in {EmptyKey, TombstoneKey} THEN 1 ELSE 0),
          !.NumTombstones = @ - (IF old = TombstoneKey THEN 1 ELSE 0)]

try_emplace(m, k, v) ==
    IF LookupBucketFor(m, k).found THEN m ELSE InsertIntoBucket(m, k, v)

find(m, k) ==
    LET l == LookupBucketFor(m, k)
    IN  IF l.found THEN m.Buckets[l.bucket].val ELSE Absent

\* it->second = v, or map[k] = v where k is in the map.
SetSecond(m, k, v) ==
    [m EXCEPT !.Buckets[LookupBucketFor(m, k).bucket].val = v]

\* map[k]: an absent key gets an entry with the default value.
FindAndConstruct(m, k) ==
    IF LookupBucketFor(m, k).found THEN m ELSE InsertIntoBucket(m, k, DefaultValue)

erase(m, k) ==
    LET l == LookupBucketFor(m, k)
    IN  IF ~l.found THEN m
        ELSE compact([m EXCEPT !.Buckets[l.bucket] = [key |-> TombstoneKey],
                               !.NumEntries = @ - 1,
                               !.NumTombstones = @ + 1])

clear(m) ==
    IF m.NumEntries = 0 /\ m.NumTombstones = 0 THEN m
    ELSE IF m.NumEntries * 4 < NumBuckets(m) /\ NumBuckets(m) > MIN_BUCKETS
         THEN shrink_and_clear(m)
         ELSE initEmpty(NumBuckets(m))

reserve(m, n) ==
    LET least == getMinBucketToReserveForEntries(n)
    IN  IF least > NumBuckets(m) THEN grow(m, least) ELSE m

\* What an iteration meets, bucket by bucket; begin() takes a short cut.
Iterated(m) ==
    IF m.NumEntries = 0 THEN {}
    ELSE {i \in DOMAIN m.Buckets : HasEntry(m.Buckets[i])}

\* operator==
Equal(lhs, rhs) ==
    /\ lhs.NumEntries = rhs.NumEntries
    /\ \A i \in Iterated(lhs) :
          find(rhs, lhs.Buckets[i].key) = lhs.Buckets[i].val

\* A copy has the same buckets in the same places, its tombstones too.
copyFrom(m) == m

-----------------------------------------------------------------------------
Init ==
    /\ InlineBuckets \in InlineChoices
    /\ map = init(0) /\ other = init(0)
    /\ corrupt = FALSE

\* Every operation with a key searches for it, and an insertion once more after
\* it made room.
Searched(m, k) == corrupt' = (Corrupts(m, k) \/ Corrupts(MakeRoom(m), k))

Insert(k, v) ==
    /\ map' = try_emplace(map, k, v)
    /\ Searched(map, k)
    /\ UNCHANGED <<InlineBuckets, other>>

Assign(k, v) ==
    /\ map' = SetSecond(FindAndConstruct(map, k), k, v)
    /\ Searched(map, k)
    /\ UNCHANGED <<InlineBuckets, other>>

\* Through the iterator of a find(): the side table's counts go to 0 this way.
Update(k, v) ==
    /\ LookupBucketFor(map, k).found
    /\ map' = SetSecond(map, k, v)
    /\ corrupt' = Corrupts(map, k)
    /\ UNCHANGED <<InlineBuckets, other>>

Erase(k) ==
    /\ map' = erase(map, k)
    /\ corrupt' = Corrupts(map, k)
    /\ UNCHANGED <<InlineBuckets, other>>

Clear == map' = clear(map) /\ UNCHANGED <<InlineBuckets, other, corrupt>>

Reserve(n) == map' = reserve(map, n) /\ UNCHANGED <<InlineBuckets, other, corrupt>>

\* A small map moves inline entries one by one, a large one exchanges pointers.
Swap ==
    /\ map' = other /\ other' = map
    /\ UNCHANGED <<InlineBuckets, corrupt>>

\* other = map
CopyAssign == other' = copyFrom(map) /\ UNCHANGED <<InlineBuckets, map, corrupt>>

\* other = std::move(map): other starts anew and is swapped with map.
MoveAssign ==
    /\ other' = map /\ map' = init(0)
    /\ UNCHANGED <<InlineBuckets, corrupt>>

\* ~DenseMap() of the second map, and a new one.
Destroy == other' = init(0) /\ UNCHANGED <<InlineBuckets, map, corrupt>>

\* Bound: map is changed only while the second map is a new one.  (Two maps share
\* nothing; without this the states are all pairs of tables.)
Alone == other = init(0)

Next ==
    /\ ~corrupt
    /\ \/ /\ Alone
          /\ \/ \E k \in Keys, v \in Values : Insert(k, v) \/ Update(k, v) \/ Assign(k, v)
             \/ \E k \in Keys : Erase(k)
             \/ Clear
             \/ \E n \in Reservations : Reserve(n)
       \/ Swap \/ CopyAssign \/ MoveAssign \/ Destroy

Spec == Init /\ [][Next]_vars

-----------------------------------------------------------------------------
(* Properties *)

\* A failing search ends: a table with buckets keeps an empty one through every
\* insertion, purge, erasure and rehash, so FatalCorruptHashTables() is never
\* reached, and its size is a power of two, which the masks rely on.
SearchEnds ==
    /\ ~corrupt
    /\ \A m \in {map, other} : NumBuckets(m) # 0 =>
          /\ \E i \in DOMAIN m.Buckets : m.Buckets[i].key = EmptyKey
          /\ \E e \in 0 .. UnsignedBits : NumBuckets(m) = 2^e

\* What an iteration over a map tells of it.
Contents(m) ==
    LET met == {m.Buckets[i] : i \in Iterated(m)}
    IN  [k \in Keys |-> IF \E b \in met : b.key = k
                        THEN (CHOOSE b \in met : b.key = k).val ELSE Absent]

\* The three ways to read a map agree: an iteration meets exactly the entries that
\* find() finds, each once; size() is their number; and two maps are == exactly
\* when find() finds the same in both.  (The iteration and == rely on the counts,
\* which a reused purgeable entry must leave alone.)
ReadersAgree ==
    /\ \A m \in {map, other} :
          /\ \A k \in Keys : find(m, k) = Contents(m)[k]
          /\ m.NumEntries = Cardinality({k \in Keys : find(m, k) # Absent})
          /\ m.NumEntries = Cardinality(Iterated(m))
          /\ m.NumTombstones = Cardinality({i \in DOMAIN m.Buckets :
                                             m.Buckets[i].key = TombstoneKey})
    /\ Equal(map, other) <=> \A k \in Keys : find(map, k) = find(other, k)

Abstract == INSTANCE AbstractMap WITH mine <- Contents(map), theirs <- Contents(other)

\* The table implements the map of AbstractMap: no probing order, tombstone,
\* rehash, shrinking or copy makes an entry appear, change or vanish, except one
\* with a purgeable value.
ImplementsMap == Abstract!ASpec
=============================================================================
