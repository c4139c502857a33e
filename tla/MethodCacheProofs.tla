-------------------------- MODULE MethodCacheProofs --------------------------
(***************************************************************************)
(* The properties of MethodCache, for all constants.  The order is:        *)
(* capacities; probing; the first state; what a step leaves alone; the     *)
(* steps of a reader; those of the writer, by what they do to the arrays;  *)
(* the inductive invariant and what follows from it.                       *)
(***************************************************************************)
EXTENDS MethodCache, FiniteSetTheorems, WellFoundedInduction, TLAPS

-----------------------------------------------------------------------------
(* Minima.                                                                 *)

\* A set of numbers that is bounded has a least element.
LEMMA MinOf ==
    ASSUME NEW m \in Nat, NEW S \in SUBSET (0..m), S # {}
    PROVE  Min(S) \in S /\ \A y \in S : Min(S) <= y
<1> DEFINE F == FiniteSubsetsOf(0..m)
           R == StrictSubsetOrdering(0..m)
           T == {0..n : n \in S}
<1>1. IsWellFoundedOn(R, F)
  BY FS_StrictSubsetOrderingWellFounded
<1>2. T \subseteq F /\ T # {}
  <2>1. \A n \in S : n \in 0..m /\ 0..n \subseteq 0..m /\ IsFiniteSet(0..n)
    BY FS_Interval
  <2> QED
    BY <2>1 DEF FiniteSubsetsOf
<1>3. \E x \in T : \A y \in T : <<y, x>> \notin R
  BY <1>1, <1>2, WFMin
<1>4. PICK n \in S : \A k \in S : <<0..k, 0..n>> \notin R
  BY <1>3
<1>5. \A k \in S : n <= k
  <2> SUFFICES ASSUME NEW k \in S, k < n PROVE FALSE
    OBVIOUS
  <2>1. 0..k \subseteq 0..n /\ 0..n \subseteq 0..m /\ n \in 0..n /\ n \notin 0..k
    OBVIOUS
  <2>2. <<0..k, 0..n>> \in R
    BY <2>1 DEF StrictSubsetOrdering
  <2> QED
    BY <1>4, <2>2
<1> QED
  BY <1>5 DEF Min

-----------------------------------------------------------------------------
(* Capacities.                                                             *)

\* The powers of two that occur grow with their exponents.
LEMMA PowersGrow ==
    ASSUME NEW i \in 0 .. MAX_CACHE_SIZE, NEW j \in 0 .. MAX_CACHE_SIZE + 1, i < j
    PROVE  2 ^ i < 2 ^ j
<1> DEFINE S == {k \in 0 .. MAX_CACHE_SIZE + 1 : i < k /\ ~(2 ^ i < 2 ^ k)}
<1>1. MAX_CACHE_SIZE \in Nat /\ MAX_CACHE_SIZE + 1 \in Nat
  BY CacheAssumption
<1>2. SUFFICES ASSUME S # {} PROVE FALSE
  OBVIOUS
<1>3. PICK k \in S : \A l \in S : k <= l
  <2>1. S \in SUBSET (0 .. MAX_CACHE_SIZE + 1)
    OBVIOUS
  <2> HIDE DEF S
  <2> QED
    BY <1>1, <1>2, <2>1, MinOf
<1>4. k - 1 \in 0 .. MAX_CACHE_SIZE /\ k - 1 \notin S /\ (k - 1) + 1 = k
  <2>1. k \in Nat /\ k \in 0 .. MAX_CACHE_SIZE + 1 /\ i < k /\ i \in Nat
    BY <1>1
  <2>2. \A l \in S : k <= l
    BY <1>3
  <2> HIDE DEF S
  <2> QED
    BY <1>1, <2>1, <2>2
<1>5. 2 ^ k = 2 * 2 ^ (k - 1) /\ 2 ^ (k - 1) \in Nat \ {0} /\ 2 ^ i \in Nat \ {0}
  BY <1>4, PowerAssumption
<1>6. 2 ^ i < 2 ^ k
  <2> DEFINE a == 2 ^ i
             b == 2 ^ (k - 1)
  <2>1. a \in Nat \ {0} /\ b \in Nat \ {0} /\ 2 ^ k = 2 * b
    BY <1>5
  <2>2. a = b \/ a < b
    <3>1. k - 1 = i \/ i < k - 1
      BY <1>1, <1>3, <1>4
    <3>2. k - 1 \in 0 .. MAX_CACHE_SIZE + 1
      BY <1>1, <1>4
    <3> QED
      BY <1>4, <3>1, <3>2
  <2> HIDE DEF a, b
  <2>3. a < 2 * b
    BY <2>1, <2>2
  <2> QED
    BY <2>1, <2>3 DEF a
<1> QED
  BY <1>3, <1>6

\* log2u() of a capacity is its exponent.
LEMMA LogOf ==
    ASSUME NEW n \in Capacities
    PROVE  /\ n \in Nat /\ n >= 2 /\ n <= MAX_CACHE_SIZE
           /\ log2u(n) \in 0 .. n /\ n = 2 ^ log2u(n)
<1>1. n \in Nat /\ n >= 2 /\ n <= MAX_CACHE_SIZE /\ MAX_CACHE_SIZE \in Nat
  BY CacheAssumption DEF Capacities
<1>2. PICK k \in 0 .. n : n = 2 ^ k
  BY DEF Capacities
<1>3. 2 ^ k <= n /\ n < 2 ^ (k + 1)
  BY <1>1, <1>2, PowerAssumption
<1>4. ASSUME NEW l \in 0 .. n, 2 ^ l <= n, n < 2 ^ (l + 1) PROVE l = k
  <2>1. ~(l < k)
    <3> SUFFICES ASSUME l < k PROVE FALSE
      OBVIOUS
    <3>1. l + 1 = k \/ l + 1 < k
      BY <1>1
    <3>2. l + 1 \in 0 .. MAX_CACHE_SIZE /\ k \in 0 .. MAX_CACHE_SIZE + 1
      BY <1>1
    <3>3. 2 ^ (l + 1) \in Nat /\ 2 ^ k \in Nat
      BY <1>1, <3>2, PowerAssumption
    <3>4. l + 1 < k => 2 ^ (l + 1) < 2 ^ k
      BY <3>2, PowersGrow
    <3> QED
      BY <1>2, <1>4, <3>1, <3>3, <3>4
  <2>2. ~(k < l)
    <3> SUFFICES ASSUME k < l PROVE FALSE
      OBVIOUS
    <3>1. k \in 0 .. MAX_CACHE_SIZE /\ l \in 0 .. MAX_CACHE_SIZE + 1
      BY <1>1
    <3>2. 2 ^ k < 2 ^ l
      BY <3>1, PowersGrow
    <3>3. 2 ^ k \in Nat /\ 2 ^ l \in Nat
      BY <1>1, PowerAssumption
    <3> QED
      BY <1>2, <1>4, <3>2, <3>3
  <2> QED
    BY <1>1, <2>1, <2>2
<1>5. log2u(n) = k
  BY <1>3, <1>4 DEF log2u
<1> QED
  BY <1>1, <1>2, <1>5

\* A larger capacity has a larger logarithm.
LEMMA LogGrows ==
    ASSUME NEW m \in Capacities, NEW n \in Capacities, m < n
    PROVE  log2u(m) < log2u(n)
<1>1. /\ m \in Nat /\ n \in Nat /\ MAX_CACHE_SIZE \in Nat
      /\ log2u(m) \in 0 .. MAX_CACHE_SIZE /\ log2u(n) \in 0 .. MAX_CACHE_SIZE
      /\ m = 2 ^ log2u(m) /\ n = 2 ^ log2u(n)
  BY LogOf, CacheAssumption
<1>2. ASSUME log2u(n) < log2u(m) PROVE FALSE
  <2>1. n < m
    BY <1>1, <1>2, PowersGrow
  <2> QED
    BY <1>1, <2>1
<1>3. log2u(n) # log2u(m)
  BY <1>1
<1> HIDE DEF log2u
<1> QED
  BY <1>1, <1>2, <1>3

\* The capacities of an allocated cache: from the first size to the limit, by doubling.
LEMMA CapacityFacts ==
    /\ INIT_CACHE_SIZE \in Capacities /\ MAX_CACHE_SIZE \in Capacities
    /\ \A n \in Capacities : n \in Nat /\ n >= 2 /\ n <= MAX_CACHE_SIZE
    /\ \A n \in Capacities : n * 2 <= MAX_CACHE_SIZE => n * 2 \in Capacities
<1>1. INIT_CACHE_SIZE \in Capacities /\ MAX_CACHE_SIZE \in Capacities
  BY CacheAssumption DEF Capacities
<1>2. \A n \in Capacities : n \in Nat /\ n >= 2 /\ n <= MAX_CACHE_SIZE
  BY LogOf
<1>3. ASSUME NEW n \in Capacities, n * 2 <= MAX_CACHE_SIZE PROVE n * 2 \in Capacities
  <2>1. n \in Nat /\ n >= 2 /\ n >= INIT_CACHE_SIZE /\ MAX_CACHE_SIZE \in Nat
        /\ INIT_CACHE_SIZE \in Nat
    BY <1>2, CacheAssumption DEF Capacities
  <2>2. PICK k \in 0 .. n : n = 2 ^ k
    BY DEF Capacities
  <2>3. k + 1 \in 0 .. n * 2 /\ n * 2 = 2 ^ (k + 1)
    <3>1. k \in 0 .. MAX_CACHE_SIZE
      BY <1>2, <2>1
    <3>2. 2 ^ (k + 1) = 2 * 2 ^ k
      BY <3>1, PowerAssumption
    <3> QED
      BY <2>1, <2>2, <3>2
  <2> QED
    BY <1>3, <2>1, <2>3 DEF Capacities
<1> QED
  BY <1>1, <1>2, <1>3

-----------------------------------------------------------------------------
(* Probing.                                                                *)

\* Bucket n of the probes for s is the first that is unused or has s.
FirstAt(array, m, s, n) ==
    /\ n \in 0 .. m
    /\ array[(((s % (m + 1)) + n) % (m + 1)) + 1].sel \in {0, s}
    /\ \A k \in 0 .. n - 1 : array[(((s % (m + 1)) + k) % (m + 1)) + 1].sel \notin {0, s}

ProbeOf(m, s, n) == ((s % (m + 1)) + n) % (m + 1)

\* cache_next() stays inside the array.
LEMMA ProbeRange ==
    ASSUME NEW m \in Nat, NEW s \in Nat, NEW n \in 0 .. m
    PROVE  ProbeOf(m, s, n) \in 0 .. m
<1>1. m + 1 \in Nat \ {0} /\ s % (m + 1) \in 0 .. m
  OBVIOUS
<1> DEFINE h == s % (m + 1)
<1>2. h + n \in Nat
  BY <1>1
<1> HIDE DEF h
<1>3. (h + n) % (m + 1) \in 0 .. m
  BY <1>1, <1>2
<1> QED
  BY <1>3 DEF ProbeOf, h

\* Every bucket is probed.
LEMMA ProbeAll ==
    ASSUME NEW m \in Nat, NEW s \in Nat, NEW x \in 0 .. m
    PROVE  \E n \in 0 .. m : ProbeOf(m, s, n) = x
<1> DEFINE h == s % (m + 1)
<1>1. m + 1 \in Nat \ {0} /\ h \in 0 .. m
  OBVIOUS
<1> HIDE DEF h
<1>2. CASE x >= h
  <2>1. x - h \in 0 .. m /\ (h + (x - h)) % (m + 1) = x
    BY <1>1, <1>2
  <2> QED
    BY <2>1 DEF ProbeOf, h
<1>3. CASE x < h
  <2> DEFINE n == x - h + (m + 1)
  <2>1. n \in 0 .. m /\ h + n = x + (m + 1)
    BY <1>1, <1>3
  <2>2. (x + (m + 1)) % (m + 1) = x
    BY <1>1
  <2> HIDE DEF n
  <2>3. (h + n) % (m + 1) = x
    BY <2>1, <2>2
  <2> QED
    BY <2>1, <2>3 DEF ProbeOf, h
<1> QED
  BY <1>1, <1>2, <1>3

\* Slot() is the first probe.
SlotIsFirst ==
    mask \in Nat =>
        \A s \in Nat :
            /\ \A n : FirstAt(memory[buckets], mask, s, n) =>
                        Slot(s) = ProbeOf(mask, s, n)
            /\ \/ Slot(s) = mask + 1
                  /\ \A x \in 0 .. mask : memory[buckets][x + 1].sel \notin {0, s}
               \/ \E n : FirstAt(memory[buckets], mask, s, n)

\* Slot() is the first bucket of the probe sequence that is unused or matches, or the
\* value behind the last one when the sequence has none.
LEMMA SlotFirst == SlotIsFirst
<1> SUFFICES ASSUME mask \in Nat, NEW s \in Nat
             PROVE  /\ \A n : FirstAt(memory[buckets], mask, s, n) =>
                                Slot(s) = ProbeOf(mask, s, n)
                    /\ \/ Slot(s) = mask + 1
                          /\ \A x \in 0 .. mask :
                                memory[buckets][x + 1].sel \notin {0, s}
                       \/ \E n : FirstAt(memory[buckets], mask, s, n)
  BY DEF SlotIsFirst
<1> DEFINE ends == {n \in 0 .. mask : memory[buckets][ProbeOf(mask, s, n) + 1].sel \in {0, s}}
<1>1. Slot(s) = IF ends = {} THEN mask + 1 ELSE ProbeOf(mask, s, Min(ends))
  BY DEF Slot, Probe, ProbeOf, cache_hash, Bucket
<1>2. ASSUME NEW n, FirstAt(memory[buckets], mask, s, n)
      PROVE  n \in ends /\ \A k \in ends : n <= k
  <2>1. n \in ends
    BY <1>2 DEF FirstAt, ProbeOf
  <2>2. ASSUME NEW k \in ends, ~(n <= k) PROVE FALSE
    <3>1. k \in 0 .. mask /\ n \in 0 .. mask
      BY <2>1
    <3>2. k \in 0 .. n - 1
      BY <2>2, <3>1
    <3>3. memory[buckets][ProbeOf(mask, s, k) + 1].sel \notin {0, s}
      BY <1>2, <3>2 DEF FirstAt, ProbeOf
    <3> QED
      BY <3>3
  <2> QED
    BY <2>1, <2>2
<1>3. ends # {} => Min(ends) \in ends /\ \A k \in ends : Min(ends) <= k
  <2>1. ends \in SUBSET (0 .. mask)
    OBVIOUS
  <2> HIDE DEF ends
  <2> QED
    BY <2>1, MinOf
<1>4. ASSUME NEW n, FirstAt(memory[buckets], mask, s, n)
      PROVE  Slot(s) = ProbeOf(mask, s, n)
  <2>1. ends # {} /\ Min(ends) <= n /\ n <= Min(ends) /\ n \in Nat /\ Min(ends) \in Nat
    <3>1. n \in ends /\ \A k \in ends : n <= k
      BY <1>2, <1>4
    <3>2. \A k \in ends : k \in Nat
      OBVIOUS
    <3> HIDE DEF ends
    <3> QED
      BY <1>3, <3>1, <3>2
  <2>2. n = Min(ends)
    <3> HIDE DEF ends
    <3> QED
      BY <2>1
  <2> QED
    BY <1>1, <2>1, <2>2
<1>5. CASE ends = {}
  <2>1. ASSUME NEW x \in 0 .. mask PROVE memory[buckets][x + 1].sel \notin {0, s}
    <3>1. PICK n \in 0 .. mask : ProbeOf(mask, s, n) = x
      BY ProbeAll
    <3> QED
      BY <1>5, <3>1
  <2> QED
    BY <1>1, <1>4, <1>5, <2>1
<1>6. CASE ends # {}
  <2> DEFINE n == Min(ends)
  <2>1. n \in ends /\ \A k \in ends : n <= k
    BY <1>3, <1>6
  <2>2. FirstAt(memory[buckets], mask, s, n)
    <3> HIDE DEF n
    <3> QED
      BY <2>1 DEF FirstAt, ProbeOf
  <2> QED
    BY <1>4, <2>2
<1> QED
  BY <1>5, <1>6

\* The same in the next state.
LEMMA SlotFirstNext == SlotIsFirst'
<1>1. SlotIsFirst
  BY SlotFirst
<1> QED
  BY <1>1, PTL

\* What Slot() finds.
LEMMA SlotFacts ==
    ASSUME mask \in Nat, NEW s \in Nat
    PROVE  /\ Slot(s) \in 0 .. mask + 1
           /\ Slot(s) <= mask => Bucket(buckets, Slot(s)).sel \in {0, s}
           /\ \A x \in 0 .. mask : Bucket(buckets, x).sel \in {0, s} => Slot(s) <= mask
<1>1. CASE Slot(s) = mask + 1 /\ \A x \in 0 .. mask : memory[buckets][x + 1].sel \notin {0, s}
  BY <1>1 DEF Bucket
<1>2. CASE \E n : FirstAt(memory[buckets], mask, s, n)
  <2>1. PICK n : FirstAt(memory[buckets], mask, s, n)
    BY <1>2
  <2>2. n \in 0 .. mask /\ Slot(s) = ProbeOf(mask, s, n)
    BY <2>1, SlotFirst DEF SlotIsFirst, FirstAt
  <2>3. Slot(s) \in 0 .. mask
    BY <2>2, ProbeRange
  <2>4. memory[buckets][Slot(s) + 1].sel \in {0, s}
    BY <2>1, <2>2 DEF FirstAt, ProbeOf
  <2> QED
    BY <2>3, <2>4 DEF Bucket
<1> QED
  BY <1>1, <1>2, SlotFirst DEF SlotIsFirst

\* The same in the next state, for the first fact.
LEMMA SlotSame ==
    ASSUME mask \in Nat, mask' = mask, NEW s \in Nat,
           \A x \in 0 .. mask :
                memory[buckets][x + 1].sel \in {0, s} <=>
                memory'[buckets'][x + 1].sel \in {0, s}
    PROVE  Slot(s)' = Slot(s)
<1>1. \A n \in 0 .. mask : ProbeOf(mask, s, n) \in 0 .. mask
  BY ProbeRange
<1>2. ASSUME NEW n, FirstAt(memory[buckets], mask, s, n)
      PROVE  FirstAt(memory'[buckets'], mask', s, n)
  <2>1. n \in 0 .. mask /\ \A k \in 0 .. n - 1 : k \in 0 .. mask
    BY <1>2 DEF FirstAt
  <2> QED
    BY <1>1, <1>2, <2>1 DEF FirstAt, ProbeOf
<1>3. CASE \E n : FirstAt(memory[buckets], mask, s, n)
  BY <1>2, <1>3, SlotFirst, SlotFirstNext DEF SlotIsFirst
<1>4. CASE Slot(s) = mask + 1 /\ \A x \in 0 .. mask : memory[buckets][x + 1].sel \notin {0, s}
  <2>1. \A n : ~FirstAt(memory'[buckets'], mask', s, n)
    <3> SUFFICES ASSUME NEW n, FirstAt(memory'[buckets'], mask', s, n) PROVE FALSE
      OBVIOUS
    <3>1. n \in 0 .. mask /\ memory'[buckets'][ProbeOf(mask, s, n) + 1].sel \in {0, s}
      BY DEF FirstAt, ProbeOf
    <3> QED
      BY <1>1, <1>4, <3>1
  <2> QED
    BY <1>4, <2>1, SlotFirstNext DEF SlotIsFirst
<1> QED
  BY <1>3, <1>4, SlotFirst DEF SlotIsFirst

\* An entry that is made in the first unused bucket of its selector is found there, and
\* the entries that were found still are.
LEMMA SlotAfterStore ==
    ASSUME mask \in Nat, mask' = mask, NEW s \in Nat \ {0}, Slot(s) <= mask,
           memory[buckets][Slot(s) + 1].sel = 0,
           memory'[buckets'][Slot(s) + 1].sel = s,
           \A x \in 0 .. mask : x # Slot(s) =>
                memory'[buckets'][x + 1].sel = memory[buckets][x + 1].sel
    PROVE  /\ Slot(s)' = Slot(s)
           /\ \A u \in Nat \ {0} :
                /\ u # s /\ Slot(u) <= mask
                /\ memory[buckets][Slot(u) + 1].sel = u
                => Slot(u)' = Slot(u)
<1> DEFINE z == Slot(s)
<1>1. z \in 0 .. mask
  BY SlotFacts
<1>2. Slot(s)' = z
  <2>1. \A x \in 0 .. mask : memory[buckets][x + 1].sel \in {0, s} <=>
                             memory'[buckets'][x + 1].sel \in {0, s}
    OBVIOUS
  <2> QED
    BY <2>1, SlotSame
<1>3. ASSUME NEW u \in Nat \ {0}, u # s, Slot(u) <= mask,
             memory[buckets][Slot(u) + 1].sel = u
      PROVE  Slot(u)' = Slot(u)
  <2>1. PICK n : FirstAt(memory[buckets], mask, u, n)
    <3>1. Slot(u) # mask + 1
      BY <1>3
    <3> QED
      BY <3>1, SlotFirst DEF SlotIsFirst
  <2>2. n \in 0 .. mask /\ Slot(u) = ProbeOf(mask, u, n)
    BY <2>1, SlotFirst DEF SlotIsFirst, FirstAt
  <2>3. Slot(u) # z
    BY <1>3
  <2>4. \A k \in 0 .. n - 1 : /\ k \in 0 .. mask
                              /\ memory[buckets][ProbeOf(mask, u, k) + 1].sel \notin {0, u}
    <3> TAKE k \in 0 .. n - 1
    <3>1. k \in 0 .. mask
      BY <2>2
    <3>2. memory[buckets][ProbeOf(mask, u, k) + 1].sel \notin {0, u}
      BY <2>1 DEF FirstAt, ProbeOf
    <3> QED
      BY <3>1, <3>2
  <2>5. \A k \in 0 .. n - 1 : ProbeOf(mask, u, k) # z
    BY <2>4
  <2>6. \A k \in 0 .. mask : ProbeOf(mask, u, k) \in 0 .. mask
    BY ProbeRange
  <2>7. \A k \in 0 .. n - 1 : memory'[buckets'][ProbeOf(mask, u, k) + 1].sel \notin {0, u}
    BY <2>4, <2>5, <2>6
  <2>8. memory'[buckets'][ProbeOf(mask, u, n) + 1].sel = u
    BY <1>3, <2>2, <2>3, <2>6
  <2>9. FirstAt(memory'[buckets'], mask', u, n)
    BY <2>2, <2>7, <2>8 DEF FirstAt, ProbeOf
  <2> QED
    BY <2>2, <2>9, SlotFirstNext DEF SlotIsFirst
<1> QED
  BY <1>2, <1>3

-----------------------------------------------------------------------------
(* What the invariant says of numbers and addresses.                       *)

BucketType == [sel : Nat, imp : Imps \cup Addresses \cup {nil}]

\* A bucket array is a sequence of buckets, and its end marker is the last of them.
LEMMA ArrayFacts ==
    ASSUME TypeOK, NEW b \in Addresses
    PROVE  /\ memory[b] \in Seq(BucketType) /\ Len(memory[b]) \in Nat
           /\ DOMAIN memory[b] = 1 .. Len(memory[b])
           /\ \A i \in 1 .. Len(memory[b]) :
                /\ memory[b][i] \in BucketType /\ memory[b][i].sel \in Nat
                /\ memory[b][i] = [sel |-> memory[b][i].sel, imp |-> memory[b][i].imp]
           /\ memory[b] # <<>> <=> Len(memory[b]) > 0
           /\ memory[b] # <<>> => Last(memory[b]) = memory[b][Len(memory[b])]
<1>1. memory[b] \in Seq(BucketType)
  BY DEF TypeOK, BucketType
<1>2. /\ Len(memory[b]) \in Nat /\ DOMAIN memory[b] = 1 .. Len(memory[b])
      /\ \A i \in 1 .. Len(memory[b]) : memory[b][i] \in BucketType
      /\ memory[b] # <<>> <=> Len(memory[b]) > 0
  BY <1>1
<1>3. \A i \in 1 .. Len(memory[b]) :
        /\ memory[b][i].sel \in Nat
        /\ memory[b][i] = [sel |-> memory[b][i].sel, imp |-> memory[b][i].imp]
  BY <1>2 DEF BucketType
<1> QED
  BY <1>1, <1>2, <1>3 DEF Last

\* Addresses and selectors are numbers, and nil is none of them.
LEMMA Numbers ==
    /\ _objc_empty_cache \in Addresses /\ Blocks \subseteq Addresses
    /\ Addresses \subseteq Nat /\ nil \notin Addresses /\ nil \notin Blocks
    /\ nil \notin Imps /\ _objc_empty_cache \notin Blocks
    /\ Sels \subseteq Nat /\ \A s \in Sels : s > 1
    /\ EMPTY_CAPACITY \in Nat /\ INIT_CACHE_SIZE \in Nat /\ MAX_CACHE_SIZE \in Nat
<1>1. /\ \A s \in Sels : s \in Nat /\ s # 0 /\ s # 1
      /\ \A b \in Blocks : b \in Nat /\ b # 0
      /\ nil \notin Nat /\ nil \notin Imps
      /\ EMPTY_CAPACITY \in Nat /\ INIT_CACHE_SIZE \in Nat /\ MAX_CACHE_SIZE \in Nat
  BY CacheAssumption DEF _objc_empty_cache
<1>2. \A s \in Sels : s > 1
  BY <1>1
<1> QED
  BY <1>1, <1>2 DEF Addresses, _objc_empty_cache

\* The shared arrays are _objc_empty_cache and those in emptyBucketsList.
LEMMA SharedFacts ==
    ASSUME TypeOK
    PROVE  /\ shared \subseteq Addresses /\ _objc_empty_cache \in shared
           /\ \A k \in 1 .. Len(emptyBucketsList) :
                emptyBucketsList[k] \in shared /\ emptyBucketsList[k] \in Blocks
           /\ Len(emptyBucketsList) \in Nat
<1>1. emptyBucketsList \in Seq(Blocks)
  BY DEF TypeOK
<1>2. /\ Len(emptyBucketsList) \in Nat
      /\ DOMAIN emptyBucketsList = 1 .. Len(emptyBucketsList)
      /\ \A k \in 1 .. Len(emptyBucketsList) : emptyBucketsList[k] \in Blocks
  BY <1>1
<1>3. shared = {emptyBucketsList[k] : k \in 1 .. Len(emptyBucketsList)} \cup {_objc_empty_cache}
  BY <1>2 DEF shared, ToSet
<1> QED
  BY <1>2, <1>3, Numbers

\* SharedEmpty() hands out shared arrays only.
LEMMA SharedEmptyShared ==
    ASSUME TypeOK, NEW n \in Capacities \cup {0}, SharedEmpty(n) # nil
    PROVE  SharedEmpty(n) \in shared
<1>1. CASE n <= EMPTY_CAPACITY + 1
  BY <1>1, SharedFacts DEF SharedEmpty
<1>2. CASE ~(n <= EMPTY_CAPACITY + 1)
  <2>1. n \in Capacities
    BY <1>2, Numbers
  <2>2. log2u(n) \in Nat
    BY <2>1, LogOf
  <2>3. ~(log2u(n) >= Len(emptyBucketsList)) /\ SharedEmpty(n) = emptyBucketsList[log2u(n) + 1]
    BY <1>2 DEF SharedEmpty
  <2>4. Len(emptyBucketsList) \in Nat
    BY SharedFacts
  <2> HIDE DEF log2u
  <2>5. log2u(n) + 1 \in 1 .. Len(emptyBucketsList)
    BY <2>2, <2>3, <2>4
  <2> QED
    BY <2>3, <2>5, SharedFacts
<1> QED
  BY <1>1, <1>2

\* The capacity of a cache that is there.
LEMMA CapacityOf ==
    ASSUME TypeOK, mask = 0 \/ mask + 1 \in Capacities
    PROVE  /\ capacity \in Capacities \cup {0}
           /\ mask = 0 <=> capacity = 0
           /\ mask # 0 => capacity = mask + 1 /\ capacity >= 2 /\ capacity <= MAX_CACHE_SIZE
<1>1. mask \in Nat
  BY DEF TypeOK
<1> QED
  BY <1>1, CapacityFacts DEF capacity

\* The two kinds of cache.
LEMMA CacheKinds ==
    ASSUME CacheInv, buckets # nil
    PROVE  /\ buckets \in Addresses /\ memory[buckets] # <<>>
           /\ buckets \notin garbage_refs
           /\ mask \in Nat /\ mask + 1 <= Len(memory[buckets])
           /\ mask = 0 \/ mask + 1 \in Capacities
           /\ occupied \in Nat
           /\ writer.pc # "setMask" =>
                /\ buckets \in shared => isConstantEmptyCache /\ occupied = 0
                                         /\ buckets = SharedEmpty(capacity)
                /\ buckets \notin shared => Owned /\ ~isConstantEmptyCache
                /\ isConstantEmptyCache <=> buckets \in shared
<1>1. /\ buckets \in Addresses /\ mask \in Nat /\ occupied \in Nat /\ TypeOK
      /\ mask < Len(memory[buckets]) /\ (mask = 0 \/ mask + 1 \in Capacities)
      /\ buckets \notin garbage_refs
  BY DEF CacheInv, TypeOK, CacheOK, BlocksAccountedFor
<1>2. Len(memory[buckets]) \in Nat
  BY <1>1, ArrayFacts
<1>3. memory[buckets] # <<>> /\ mask + 1 <= Len(memory[buckets])
  BY <1>1, <1>2, ArrayFacts
<1>4. isConstantEmptyCache => buckets \in shared
  <2> SUFFICES ASSUME isConstantEmptyCache PROVE buckets \in shared
    OBVIOUS
  <2>1. buckets = SharedEmpty(capacity)
    BY DEF isConstantEmptyCache
  <2>2. capacity \in Capacities \cup {0}
    BY <1>1, CapacityOf
  <2> QED
    BY <1>1, <2>1, <2>2, SharedEmptyShared
<1>5. writer.pc # "setMask" =>
        /\ buckets \in shared => isConstantEmptyCache /\ occupied = 0
                                 /\ buckets = SharedEmpty(capacity)
        /\ buckets \notin shared => Owned
  BY DEF CacheInv, CacheOK, isConstantEmptyCache
<1> QED
  BY <1>1, <1>3, <1>4, <1>5

\* Shared arrays have no entries.
LEMMA SharedUnused ==
    ASSUME CacheInv, NEW b \in shared
    PROVE  /\ b \in Addresses /\ memory[b] # <<>> /\ Entries(b) = {}
           /\ \A i \in DOMAIN memory[b] : memory[b][i] = Unused
<1>1. b \in Addresses /\ memory[b] # <<>>
  BY SharedFacts DEF CacheInv, SharedOK
<1>2. \A i \in DOMAIN memory[b] : memory[b][i] = Unused
  BY DEF CacheInv, BlocksAccountedFor
<1>3. Entries(b) = {}
  BY <1>2 DEF Entries, Unused
<1> QED
  BY <1>1, <1>2, <1>3

\* A reader's array is in use.
LEMMA ReaderFacts ==
    ASSUME CacheInv, NEW t \in Readers, reader[t].pc \in Loops
    PROVE  /\ reader[t].b \in Addresses /\ memory[reader[t].b] # <<>>
           /\ reader[t].i \in Nat /\ reader[t].i + 1 \in 1 .. Len(memory[reader[t].b])
           /\ reader[t].sel \in Sels
<1>1. /\ reader[t].b \in Addresses /\ reader[t].i < Len(memory[reader[t].b])
      /\ reader[t].i \in Nat /\ TypeOK
      /\ reader[t].sel \in Sels
  BY DEF CacheInv, ReadersOK, ReaderOK, TypeOK, Loops, ReaderType
<1>2. Len(memory[reader[t].b]) \in Nat
      /\ (memory[reader[t].b] # <<>> <=> Len(memory[reader[t].b]) > 0)
  BY <1>1, ArrayFacts
<1> QED
  BY <1>1, <1>2

-----------------------------------------------------------------------------
(* The beginning.                                                          *)

\* The invariant holds at the beginning: every cache is _objc_empty_cache.
LEMMA InvInit == Init => CacheInv
<1> SUFFICES ASSUME Init PROVE CacheInv
  OBVIOUS
<1> DEFINE E == _objc_empty_cache
<1>1. /\ buckets = E /\ mask = 0 /\ occupied = 0
      /\ memory = [b \in Addresses |-> IF b = E THEN Zeroed(EMPTY_CAPACITY + 1) ELSE <<>>]
      /\ emptyBucketsList = <<>> /\ garbage_refs = {} /\ garbage_byte_size = 0
      /\ writer = Unlocked /\ reader = [t \in Readers |-> Idle]
      /\ current = [t \in Readers |-> {}]
  BY DEF Init, Addresses
<1>2. /\ E \in Addresses /\ EMPTY_CAPACITY \in Nat /\ nil \notin Addresses
      /\ EMPTY_CAPACITY + 1 \in Nat \ {0}
  BY Numbers
<1> DEFINE Z == Zeroed(EMPTY_CAPACITY + 1)
<1>3. /\ Z \in Seq(BucketType) /\ Len(Z) = EMPTY_CAPACITY + 1
      /\ DOMAIN Z = 1 .. EMPTY_CAPACITY + 1
      /\ \A i \in 1 .. EMPTY_CAPACITY + 1 : Z[i] = Unused
      /\ Z # <<>> /\ Last(Z) = Unused /\ Z = Zeroed(Len(Z))
  <2>1. Unused \in BucketType
    BY DEF Unused, BucketType
  <2>2. Z \in Seq(BucketType) /\ Len(Z) = EMPTY_CAPACITY + 1
    BY <1>2, <2>1 DEF Zeroed
  <2>3. DOMAIN Z = 1 .. EMPTY_CAPACITY + 1 /\ \A i \in 1 .. EMPTY_CAPACITY + 1 : Z[i] = Unused
    BY DEF Zeroed
  <2>4. Last(Z) = Z[EMPTY_CAPACITY + 1]
    BY <2>2 DEF Last
  <2> QED
    BY <1>2, <2>2, <2>3, <2>4
<1>4. memory[E] = Z /\ \A b \in Addresses : b # E => memory[b] = <<>>
  BY <1>1, <1>2
<1>5. shared = {E}
  BY <1>1 DEF shared, ToSet
<1> HIDE DEF Z
<1>6. TypeOK
  <2>1. memory \in [Addresses -> Seq(BucketType)]
    BY <1>1, <1>3 DEF Z
  <2>2. writer \in WriterType
    BY <1>1 DEF Unlocked, WriterType
  <2>3. reader \in [Readers -> ReaderType]
    BY <1>1 DEF Idle, ReaderType
  <2>4. imps \in [Sels -> Imps] /\ shouldUseRestartableRanges \in BOOLEAN
    BY DEF Init
  <2>5. emptyBucketsList \in Seq(Blocks) /\ current \in [Readers -> SUBSET Imps]
    BY <1>1
  <2> QED
    BY <1>1, <1>2, <2>1, <2>2, <2>3, <2>4, <2>5 DEF TypeOK, BucketType
<1>7. ArraysOK
  BY <1>2, <1>3, <1>4 DEF ArraysOK, Unused
<1>8. SharedOK
  <2>1. ASSUME NEW n \in Capacities \cup {0}, SharedEmpty(n) # nil
        PROVE  Len(memory[SharedEmpty(n)]) >= n
    <3>1. SharedEmpty(n) = E
      BY <1>5, <1>6, <2>1, SharedEmptyShared
    <3>2. CASE n <= EMPTY_CAPACITY + 1
      <4>1. n \in Nat
        BY CapacityFacts
      <4> QED
        BY <1>2, <1>3, <1>4, <3>1, <3>2, <4>1
    <3>3. CASE ~(n <= EMPTY_CAPACITY + 1)
      <4>1. n \in Capacities
        BY <1>2, <3>3
      <4>2. log2u(n) \in Nat /\ Len(emptyBucketsList) = 0
        BY <1>1, <4>1, LogOf
      <4> HIDE DEF log2u
      <4>3. SharedEmpty(n) = nil
        BY <3>3, <4>2 DEF SharedEmpty
      <4> QED
        BY <2>1, <4>3
    <3> QED
      BY <3>2, <3>3
  <2> QED
    BY <1>3, <1>4, <1>5, <2>1 DEF SharedOK
<1>9. CacheOK
  <2>1. isConstantEmptyCache
    BY <1>1, <1>2 DEF isConstantEmptyCache, SharedEmpty, capacity
  <2> QED
    BY <1>1, <1>2, <1>3, <1>4, <1>5, <2>1 DEF CacheOK
<1>10. WriterOK
  <2>1. writer.pc = "idle" /\ writer.then = nil /\ nil # "place"
    BY <1>1, CacheAssumption DEF Unlocked
  <2> QED
    BY <1>1, <1>2, <2>1 DEF WriterOK, InstallOK, FillOK, Filling
<1>11. ReadersOK
  BY <1>1 DEF ReadersOK, ReaderOK, Idle, Loops
<1>12. FreshOK
  <2>1. Entries(buckets) = {}
    BY <1>1, <1>3, <1>4 DEF Entries, Unused
  <2> QED
    BY <1>1, <2>1 DEF FreshOK, CacheFresh, SendFresh, Idle, Loops, Unlocked
<1>13. BlocksAccountedFor
  <2>1. \A b \in Blocks : memory[b] = <<>>
    BY <1>4, Numbers
  <2>2. live = {} /\ moving = {}
    BY <1>1, <2>1 DEF live, moving, Unlocked
  <2> QED
    BY <1>1, <1>3, <1>4, <1>5, <2>2 DEF BlocksAccountedFor
<1> QED
  BY <1>6, <1>7, <1>8, <1>9, <1>10, <1>11, <1>12, <1>13 DEF CacheInv

-----------------------------------------------------------------------------
(* What a step leaves alone.                                               *)

\* Whether an array is shared depends only on emptyBucketsList.
LEMMA SharedKept ==
    ASSUME UNCHANGED emptyBucketsList
    PROVE  shared' = shared /\ \A n : SharedEmpty(n)' = SharedEmpty(n)
<1>1. shared' = shared
  BY DEF shared
<1>2. ASSUME NEW n PROVE SharedEmpty(n)' = SharedEmpty(n)
  BY DEF SharedEmpty
<1> QED
  BY <1>1, <1>2

\* Probing depends only on the mask and on the array.
LEMMA SlotsKept ==
    ASSUME UNCHANGED <<mask, buckets>>, memory'[buckets] = memory[buckets]
    PROVE  /\ \A s : Slot(s)' = Slot(s)
           /\ Entries(buckets)' = Entries(buckets) /\ capacity' = capacity
           /\ \A i : Bucket(buckets, i)' = Bucket(buckets, i)
<1>1. ASSUME NEW s PROVE Slot(s)' = Slot(s)
  BY DEF Slot, Bucket, Probe, cache_hash
<1>2. Entries(buckets)' = Entries(buckets)
  BY DEF Entries
<1>3. capacity' = capacity
  BY DEF capacity
<1>4. ASSUME NEW i PROVE Bucket(buckets, i)' = Bucket(buckets, i)
  BY DEF Bucket
<1> QED
  BY <1>1, <1>2, <1>3, <1>4

\* The cache stays in order when neither it nor its array changes.
LEMMA CacheKept ==
    ASSUME CacheOK, TypeOK, UNCHANGED <<mask, buckets, occupied, emptyBucketsList>>,
           memory'[buckets] = memory[buckets],
           (writer.pc = "setMask") <=> (writer'.pc = "setMask"),
           (writer.pc = "storeSel") <=> (writer'.pc = "storeSel")
    PROVE  CacheOK'
<1>1. /\ shared' = shared /\ \A n : SharedEmpty(n)' = SharedEmpty(n)
      /\ \A s : Slot(s)' = Slot(s)
      /\ Entries(buckets)' = Entries(buckets) /\ capacity' = capacity
  BY SharedKept, SlotsKept
<1>2. isConstantEmptyCache' <=> isConstantEmptyCache
  <2>1. SharedEmpty(capacity)' = SharedEmpty(capacity)
    BY <1>1
  <2> QED
    BY <2>1 DEF isConstantEmptyCache
<1>3. Owned => Owned'
  <2> SUFFICES ASSUME Owned PROVE Owned'
    OBVIOUS
  <2>1. /\ Len(memory'[buckets']) = mask' + 1 /\ mask' + 1 \in Capacities
        /\ \A i \in DOMAIN memory'[buckets'] : memory'[buckets'][i].sel = 1 <=> i = mask' + 1
    BY DEF Owned
  <2>2. \A i \in Entries(buckets)' : Slot(memory[buckets][i].sel)' + 1 = i
    BY <1>1 DEF Owned
  <2>3. occupied' = Cardinality(Entries(buckets)') + (IF writer'.pc = "storeSel" THEN 1 ELSE 0)
    BY <1>1 DEF Owned
  <2> QED
    BY <2>1, <2>2, <2>3 DEF Owned
<1> QED
  BY <1>1, <1>2, <1>3 DEF CacheOK

\* The arrays stay in order when those that change are.
LEMMA ArraysKept ==
    ASSUME ArraysOK,
           \A b \in Addresses : \/ memory'[b] = memory[b] \/ memory'[b] = <<>>
                                \/ /\ Last(memory'[b]).sel \in {0, 1}
                                   /\ \A i \in DOMAIN memory'[b] :
                                        /\ memory'[b][i].sel = 1 => memory'[b][i].imp = b
                                        /\ memory'[b][i].sel > 1 => memory'[b][i].sel \in Sels
    PROVE  ArraysOK'
BY DEF ArraysOK

\* The shared arrays stay in order when they are not written.
LEMMA SharedStays ==
    ASSUME SharedOK, TypeOK, UNCHANGED emptyBucketsList,
           \A b \in shared : memory'[b] = memory[b]
    PROVE  SharedOK'
<1>1. shared' = shared /\ \A n : SharedEmpty(n)' = SharedEmpty(n)
  BY SharedKept
<1>2. \A b \in shared' : memory'[b] # <<>> /\ memory'[b] = Zeroed(Len(memory'[b]))
  BY <1>1 DEF SharedOK
<1>3. ASSUME NEW n \in Capacities \cup {0}, SharedEmpty(n)' # nil
      PROVE  Len(memory'[SharedEmpty(n)']) >= n
  BY <1>1, <1>3, SharedEmptyShared DEF SharedOK
<1> QED
  BY <1>2, <1>3 DEF SharedOK

-----------------------------------------------------------------------------
(* What a step that is not theirs leaves the readers.                      *)

\* No array that a reader is in changes.
InUse == {reader[t].b : t \in {u \in Readers : reader[u].pc \in Loops}}

\* A reader is in order after a step that moves neither it nor its array, unless the
\* collector asks more of it.
LEMMA ReaderKept ==
    ASSUME CacheInv, NEW t \in Readers, reader'[t] = reader[t],
           mask' \in Nat, mask <= mask',
           reader[t].pc \in Loops => memory'[reader[t].b] = memory[reader[t].b],
           UNCHANGED shouldUseRestartableRanges,
           writer'.pc = "collect" /\ ~shouldUseRestartableRanges /\ reader[t].pc \in Loops =>
                t \in writer'.toCheck \/ reader[t].b \notin garbage_refs'
    PROVE  ReaderOK(t)'
<1>1. ReaderOK(t) /\ mask \in Nat /\ reader[t].i \in Nat
  <2>1. mask \in Nat /\ reader \in [Readers -> ReaderType] /\ ReaderOK(t)
    BY DEF CacheInv, ReadersOK, TypeOK
  <2>2. reader[t].i \in Nat
    BY <2>1 DEF ReaderType
  <2> QED
    BY <2>1, <2>2
<1>2. reader[t].pc = "buckets" => reader[t].i <= mask'
  BY <1>1 DEF ReaderOK
<1>3. ASSUME reader[t].pc \in Loops
      PROVE  /\ reader[t].b \in Addresses /\ reader[t].i < Len(memory'[reader[t].b])
             /\ reader[t].pc = "hit" => memory'[reader[t].b][reader[t].i + 1].sel = reader[t].sel
             /\ reader[t].pc = "wrap" => memory'[reader[t].b][reader[t].i + 1].sel = 1
  BY <1>1, <1>3 DEF ReaderOK, Bucket
<1> QED
  BY <1>1, <1>2, <1>3 DEF ReaderOK, Bucket

\* What a reader may find was current, if neither it nor its array changes.
LEMMA SendKept ==
    ASSUME CacheInv, NEW t \in Readers, reader'[t] = reader[t], SendFresh(t),
           current[t] \subseteq current'[t],
           reader[t].pc \in Loops => memory'[reader[t].b] = memory[reader[t].b],
           reader[t].pc # "idle" => MayFind(reader[t].sel)' \subseteq current'[t]
    PROVE  SendFresh(t)'
<1>1. reader[t].pc \in {"filling", "called"} => reader[t].b \in current'[t]
  BY DEF SendFresh
<1>2. reader[t].pc \in Loops =>
        \A i \in DOMAIN memory'[reader[t].b] :
            memory'[reader[t].b][i].sel = reader[t].sel =>
                memory'[reader[t].b][i].imp \in current'[t]
  BY DEF SendFresh
<1>3. reader'[t].pc # "idle" => MayFind(reader[t].sel)' \subseteq current'[t]
  OBVIOUS
<1> QED
  BY <1>1, <1>2, <1>3 DEF SendFresh

\* What may be found depends on the methods and on the changes that are not flushed.
LEMMA FindKept ==
    ASSUME UNCHANGED imps, writer'.changed \subseteq writer.changed
    PROVE  \A s : MayFind(s)' \subseteq MayFind(s)
BY DEF MayFind

\* The same for all readers, when no method changes.
LEMMA FreshKept ==
    ASSUME CacheInv, ~SignalsInLock, UNCHANGED <<reader, imps, current>>,
           writer'.changed \subseteq writer.changed,
           \A b \in InUse : memory'[b] = memory[b]
    PROVE  \A t \in Readers : SendFresh(t)'
<1> TAKE t \in Readers
<1>1. SendFresh(t)
  BY DEF CacheInv, FreshOK
<1>2. reader[t].pc \in Loops => memory'[reader[t].b] = memory[reader[t].b]
  BY DEF InUse
<1>3. reader[t].pc # "idle" => MayFind(reader[t].sel)' \subseteq current'[t]
  <2>1. \A s : MayFind(s)' \subseteq MayFind(s)
    BY FindKept
  <2>2. MayFind(reader[t].sel)' \subseteq MayFind(reader[t].sel)
    BY FindKept DEF MayFind
  <2> QED
    BY <1>1, <2>2 DEF SendFresh
<1> QED
  BY <1>1, <1>2, <1>3, SendKept

\* All readers are in order after a step of the writer that keeps their arrays.
LEMMA ReadersKept ==
    ASSUME CacheInv, UNCHANGED reader, mask' \in Nat, mask <= mask',
           \A b \in InUse : memory'[b] = memory[b],
           UNCHANGED shouldUseRestartableRanges,
           writer'.pc = "collect" /\ ~shouldUseRestartableRanges =>
                \A t \in Readers : reader[t].pc \in Loops =>
                    t \in writer'.toCheck \/ reader[t].b \notin garbage_refs'
    PROVE  ReadersOK'
<1>1. \A t \in Readers : reader[t].pc \in Loops => memory'[reader[t].b] = memory[reader[t].b]
  BY DEF InUse
<1>2. \A t \in Readers : ReaderOK(t)'
  BY <1>1, ReaderKept
<1> QED
  BY <1>2 DEF ReadersOK

\* An array in use is not empty.
LEMMA InUseFacts ==
    ASSUME CacheInv, NEW b \in InUse
    PROVE  b \in Addresses /\ memory[b] # <<>>
BY ReaderFacts DEF InUse

-----------------------------------------------------------------------------
(* The steps of a reader.                                                  *)

\* A step of one reader keeps what is said of everybody else.
LEMMA ReaderOnly ==
    ASSUME CacheInv, UNCHANGED Shared, NEW t \in Readers, NEW r \in ReaderType,
           reader' = [reader EXCEPT ![t] = r],
           current' \in [Readers -> SUBSET Imps],
           \A u \in Readers \ {t} : current'[u] = current[u],
           writer.pc # "destroyed", ReaderOK(t)', ~SignalsInLock => SendFresh(t)'
    PROVE  CacheInv'
<1>1. /\ UNCHANGED <<buckets, mask, occupied, memory, emptyBucketsList, garbage_refs,
                     garbage_byte_size, shouldUseRestartableRanges, imps, writer>>
      /\ TypeOK /\ ArraysOK /\ SharedOK /\ CacheOK /\ WriterOK /\ ReadersOK /\ FreshOK
      /\ BlocksAccountedFor
  BY DEF CacheInv, Shared
<1>2. TypeOK'
  BY <1>1 DEF TypeOK
<1>3. ArraysOK' /\ SharedOK' /\ CacheOK'
  <2>1. ArraysOK'
    BY <1>1 DEF ArraysOK
  <2>2. SharedOK'
    BY <1>1, SharedStays
  <2>3. CacheOK'
    BY <1>1, CacheKept
  <2> QED
    BY <2>1, <2>2, <2>3
<1>4. WriterOK'
  <2>1. /\ shared' = shared /\ \A n : SharedEmpty(n)' = SharedEmpty(n)
        /\ \A s : Slot(s)' = Slot(s) /\ \A i : Bucket(buckets, i)' = Bucket(buckets, i)
    BY <1>1, SharedKept, SlotsKept
  <2>2. InstallOK'
    BY <1>1, <2>1 DEF WriterOK, InstallOK
  <2>3. FillOK'
    <3>1. Filling' = Filling /\ Slot(writer.sel)' = Slot(writer.sel)
      BY <1>1, <2>1 DEF Filling
    <3>2. Bucket(buckets, Slot(writer.sel))' = Bucket(buckets, Slot(writer.sel))
      BY <1>1, <3>1 DEF Bucket
    <3> QED
      BY <1>1, <2>1, <3>1, <3>2 DEF WriterOK, FillOK
  <2> QED
    BY <1>1, <2>2, <2>3 DEF WriterOK
<1>5. ReadersOK'
  <2>1. ASSUME NEW u \in Readers \ {t} PROVE ReaderOK(u)'
    <3>1. reader'[u] = reader[u] /\ mask' \in Nat /\ mask <= mask'
      BY <1>1 DEF TypeOK
    <3>2. reader[u].pc \in Loops /\ writer.pc = "collect" /\ ~shouldUseRestartableRanges =>
            u \in writer.toCheck \/ reader[u].b \notin garbage_refs
      BY <1>1 DEF ReadersOK, ReaderOK
    <3> QED
      BY <1>1, <3>1, <3>2, ReaderKept
  <2> QED
    BY <2>1 DEF ReadersOK
<1>6. FreshOK'
  <2> SUFFICES ASSUME ~SignalsInLock PROVE CacheFresh' /\ \A u \in Readers : SendFresh(u)'
    BY DEF FreshOK
  <2>1. CacheFresh'
    BY <1>1 DEF FreshOK, CacheFresh, Entries, MayFind
  <2>2. ASSUME NEW u \in Readers \ {t} PROVE SendFresh(u)'
    <3>1. reader'[u] = reader[u] /\ current'[u] = current[u] /\ SendFresh(u)
      BY <1>1 DEF TypeOK, FreshOK
    <3>2. MayFind(reader[u].sel)' \subseteq MayFind(reader[u].sel)
      BY <1>1, <3>1 DEF MayFind
    <3>3. reader[u].pc # "idle" => MayFind(reader[u].sel)' \subseteq current'[u]
      BY <3>1, <3>2 DEF SendFresh
    <3> QED
      BY <1>1, <3>1, <3>3, SendKept
  <2> QED
    BY <2>1, <2>2
<1>7. BlocksAccountedFor'
  <2>1. shared' = shared /\ live' = live /\ moving' = moving
    BY <1>1, SharedKept DEF live, moving
  <2> QED
    BY <1>1, <2>1 DEF BlocksAccountedFor
<1> QED
  BY <1>2, <1>3, <1>4, <1>5, <1>6, <1>7 DEF CacheInv

\* What every step of a reader starts from.
LEMMA ReaderStart ==
    ASSUME CacheInv, NEW t \in Readers
    PROVE  /\ reader[t] \in ReaderType /\ current \in [Readers -> SUBSET Imps]
           /\ ReaderOK(t) /\ (~SignalsInLock => SendFresh(t) /\ CacheFresh)
           /\ reader[t].pc \notin {"idle", "called"} => writer.pc # "destroyed"
           /\ mask \in Nat
BY DEF CacheInv, TypeOK, ReadersOK, FreshOK, WriterOK

\* A message is sent: what a lookup may find at that moment is current.
LEMMA StepSend ==
    ASSUME CacheInv, NEW t \in Readers, NEW s \in Sels, Send(t, s) PROVE CacheInv'
<1> DEFINE r == [reader[t] EXCEPT !.pc = "buckets", !.sel = s, !.i = cache_hash(s, mask)]
<1>1. /\ reader' = [reader EXCEPT ![t] = r] /\ current' = [current EXCEPT ![t] = MayFind(s)]
      /\ UNCHANGED Shared /\ buckets # nil
  BY DEF Send
<1>2. cache_hash(s, mask) \in 0 .. mask
  BY ReaderStart, Numbers DEF cache_hash
<1>3. r \in ReaderType
  <2>1. reader[t] \in ReaderType /\ cache_hash(s, mask) \in Nat
    BY <1>2, ReaderStart
  <2> QED
    BY <2>1 DEF ReaderType, InRange
<1>4. MayFind(s) \in SUBSET Imps
  BY DEF MayFind, CacheInv, TypeOK, WriterType
<1>5. current' \in [Readers -> SUBSET Imps] /\ current'[t] = MayFind(s) /\ reader'[t] = r
      /\ \A u \in Readers \ {t} : current'[u] = current[u]
  BY <1>1, <1>4, ReaderStart DEF CacheInv, TypeOK
<1>6. r.pc = "buckets" /\ r.sel = s /\ r.i = cache_hash(s, mask)
  BY ReaderStart DEF ReaderType
<1>7. writer.pc # "destroyed"
  BY <1>1 DEF CacheInv, WriterOK
<1>8. ReaderOK(t)'
  <2>1. r.i <= mask /\ mask' = mask
    BY <1>1, <1>2, <1>6, ReaderStart DEF Shared
  <2> HIDE DEF r
  <2> QED
    BY <1>5, <1>6, <2>1 DEF ReaderOK, Loops
<1>9. SendFresh(t)'
  <2>1. MayFind(s)' = MayFind(s)
    BY <1>1 DEF MayFind, Shared
  <2> QED
    BY <1>5, <1>6, <2>1 DEF SendFresh, Loops
<1> HIDE DEF r
<1> QED
  BY <1>1, <1>3, <1>5, <1>7, <1>8, <1>9, ReaderOnly

\* A step of a reader that stays with its selector.
LEMMA ReaderMoves ==
    ASSUME CacheInv, NEW t \in Readers, NEW r \in ReaderType, ReaderStep,
           reader' = [reader EXCEPT ![t] = r], r.sel = reader[t].sel,
           reader[t].pc \notin {"idle", "called"}, r.pc # "idle", r.pc # "buckets",
           r.pc \in Loops =>
                /\ r.b \in Addresses /\ r.i < Len(memory[r.b])
                /\ r.pc = "hit" => Bucket(r.b, r.i).sel = r.sel
                /\ r.pc = "wrap" => Bucket(r.b, r.i).sel = 1
                /\ r.b = buckets \/ (reader[t].pc \in Loops /\ r.b = reader[t].b),
           r.pc = "filling" => FALSE,
           r.pc = "called" /\ ~SignalsInLock => r.b \in current[t]
    PROVE  CacheInv'
<1>1. /\ UNCHANGED Shared /\ current' = current /\ reader'[t] = r
      /\ UNCHANGED <<buckets, mask, occupied, memory, emptyBucketsList, garbage_refs,
                     garbage_byte_size, shouldUseRestartableRanges, imps, writer>>
  BY DEF ReaderStep, Shared, CacheInv, TypeOK
<1>2. writer.pc # "destroyed" /\ buckets # nil
  BY ReaderStart DEF CacheInv, WriterOK
<1>3. ReaderOK(t)'
  <2>1. r.sel \in Sels
    BY ReaderStart DEF ReaderOK
  <2>2. ASSUME r.pc \in Loops, writer.pc = "collect", ~shouldUseRestartableRanges
        PROVE  t \in writer.toCheck \/ r.b \notin garbage_refs
    <3>1. CASE r.b = buckets
      BY <1>2, <3>1, CacheKinds
    <3>2. CASE reader[t].pc \in Loops /\ r.b = reader[t].b
      BY <2>2, <3>2, ReaderStart DEF ReaderOK
    <3> QED
      BY <2>2, <3>1, <3>2
  <2>3. r.pc \in Loops =>
            /\ r.pc = "hit" => Bucket(r.b, r.i)'.sel = r.sel
            /\ r.pc = "wrap" => Bucket(r.b, r.i)'.sel = 1
    BY <1>1 DEF Bucket
  <2> QED
    BY <1>1, <2>1, <2>2, <2>3 DEF ReaderOK, Bucket
<1>4. ASSUME ~SignalsInLock PROVE SendFresh(t)'
  <2>1. SendFresh(t) /\ CacheFresh
    BY <1>4, ReaderStart
  <2>2. MayFind(r.sel)' = MayFind(r.sel) /\ MayFind(r.sel) \subseteq current[t]
    BY <1>1, <2>1 DEF MayFind, SendFresh
  <2>3. ASSUME r.pc \in Loops, NEW i \in DOMAIN memory[r.b], memory[r.b][i].sel = r.sel
        PROVE  memory[r.b][i].imp \in current[t]
    <3>1. CASE r.b = buckets
      <4>1. r.sel \in Sels /\ r.sel > 1
        BY ReaderStart, Numbers DEF ReaderOK
      <4>2. i \in Entries(buckets)
        BY <2>3, <3>1, <4>1 DEF Entries
      <4>3. memory[r.b][i].imp \in MayFind(r.sel)
        BY <1>2, <2>1, <2>3, <3>1, <4>2 DEF CacheFresh
      <4> QED
        BY <2>2, <4>3
    <3>2. CASE reader[t].pc \in Loops /\ r.b = reader[t].b
      BY <2>1, <2>3, <3>2 DEF SendFresh
    <3> QED
      BY <2>3, <3>1, <3>2
  <2> QED
    BY <1>1, <1>4, <2>2, <2>3 DEF SendFresh
<1>5. current' \in [Readers -> SUBSET Imps] /\ \A u \in Readers \ {t} : current'[u] = current[u]
  BY <1>1, ReaderStart
<1> QED
  BY <1>1, <1>2, <1>3, <1>4, <1>5, ReaderOnly

\* The array is loaded after the mask, so it is as large as the mask says or larger.
LEMMA StepLoadBuckets ==
    ASSUME CacheInv, NEW t \in Readers, LoadBuckets(t) PROVE CacheInv'
<1> DEFINE r == [reader[t] EXCEPT !.pc = "compare", !.b = buckets]
<1>1. /\ reader' = [reader EXCEPT ![t] = r] /\ ReaderStep /\ reader[t].pc = "buckets"
  BY DEF LoadBuckets
<1>2. buckets # nil /\ buckets \in Addresses
  <2>1. buckets # nil
    BY <1>1, ReaderStart DEF CacheInv, WriterOK
  <2> QED
    BY <2>1, CacheKinds
<1>3. r \in ReaderType /\ r.pc = "compare" /\ r.b = buckets /\ r.sel = reader[t].sel
      /\ r.i = reader[t].i
  BY <1>2, ReaderStart DEF ReaderType, InRange
<1>4. r.i < Len(memory[r.b])
  <2>1. r.i \in Nat /\ r.i <= mask /\ mask \in Nat
    BY <1>1, <1>3, ReaderStart DEF ReaderOK, ReaderType
  <2>2. Len(memory[buckets]) \in Nat /\ mask + 1 <= Len(memory[buckets])
    BY <1>2, CacheKinds, ArrayFacts DEF CacheInv
  <2> HIDE DEF r
  <2> QED
    BY <1>3, <2>1, <2>2
<1> HIDE DEF r
<1> QED
  BY <1>1, <1>2, <1>3, <1>4, ReaderMoves DEF Loops

\* A thread that is sent to its miss path holds no array any more.
LEMMA MissedFacts ==
    ASSUME CacheInv, NEW t \in Readers, reader[t].pc \in InRange
    PROVE  /\ Missed(reader[t]) \in ReaderType /\ Missed(reader[t]).pc = "miss"
           /\ Missed(reader[t]).sel = reader[t].sel
BY ReaderStart DEF Missed, Idle, ReaderType

\* A thread is sent to its miss path.
LEMMA StepMissed ==
    ASSUME CacheInv, NEW t \in Readers, reader[t].pc \in InRange, ReaderStep,
           reader' = [reader EXCEPT ![t] = Missed(reader[t])]
    PROVE  CacheInv'
<1> DEFINE r == Missed(reader[t])
<1>1. r \in ReaderType /\ r.pc = "miss" /\ r.sel = reader[t].sel
  BY MissedFacts
<1>2. reader[t].pc \notin {"idle", "called"}
  BY DEF InRange
<1>3. r.pc \notin Loops /\ r.pc \notin {"idle", "buckets", "called", "filling"}
  BY <1>1 DEF Loops
<1>4. reader' = [reader EXCEPT ![t] = r]
  OBVIOUS
<1> HIDE DEF r
<1> QED
  BY <1>1, <1>2, <1>3, <1>4, ReaderMoves

\* A signal does so.
LEMMA StepSignalHits ==
    ASSUME CacheInv, NEW t \in Readers, SignalHits(t) PROVE CacheInv'
BY StepMissed DEF SignalHits

\* The selector of a bucket is loaded and compared.
LEMMA StepCompare ==
    ASSUME CacheInv, NEW t \in Readers, Compare(t) PROVE CacheInv'
<1> DEFINE c == IF Bucket(reader[t].b, reader[t].i).sel = reader[t].sel THEN "hit" ELSE "end"
           r == [reader[t] EXCEPT !.pc = c]
<1>1. /\ reader' = [reader EXCEPT ![t] = r] /\ ReaderStep /\ reader[t].pc = "compare"
  BY DEF Compare, CacheInv, TypeOK
<1>2. r \in ReaderType /\ r.pc = c /\ r.b = reader[t].b /\ r.sel = reader[t].sel
      /\ r.i = reader[t].i /\ c \in {"hit", "end"}
  BY ReaderStart DEF ReaderType, InRange
<1>3. reader[t].pc \in Loops /\ r.b \in Addresses /\ r.i < Len(memory[r.b])
  BY <1>1, <1>2, ReaderStart DEF ReaderOK, Loops
<1>4. c = "hit" => Bucket(r.b, r.i).sel = r.sel
  BY <1>2
<1> HIDE DEF r, c
<1> QED
  BY <1>1, <1>2, <1>3, <1>4, ReaderMoves DEF Loops

\* It is loaded again, to see whether the bucket is unused or an end marker.
LEMMA StepCompareEnd ==
    ASSUME CacheInv, NEW t \in Readers, CompareEnd(t) PROVE CacheInv'
<1> DEFINE sel == Bucket(reader[t].b, reader[t].i).sel
<1>1. /\ ReaderStep /\ reader[t].pc = "end" /\ reader[t].pc \in Loops /\ reader[t].pc \in InRange
      /\ reader[t].b \in Addresses /\ reader[t].i < Len(memory[reader[t].b])
      /\ reader[t].i \in Nat
  BY ReaderStart DEF CompareEnd, ReaderOK, Loops, InRange, ReaderType
<1>2. CASE sel > 1 /\ reader' = [reader EXCEPT ![t] = [@ EXCEPT !.pc = "compare", !.i = reader[t].i + 1]]
  <2> DEFINE r == [reader[t] EXCEPT !.pc = "compare", !.i = reader[t].i + 1]
  <2>1. reader' = [reader EXCEPT ![t] = r]
    BY <1>2
  <2>2. /\ r \in ReaderType /\ r.pc = "compare" /\ r.b = reader[t].b /\ r.sel = reader[t].sel
        /\ r.i = reader[t].i + 1
    <3>1. reader[t] \in ReaderType /\ reader[t].i + 1 \in Nat
      BY <1>1, ReaderStart
    <3> QED
      BY <3>1 DEF ReaderType, InRange
  <2>3. r.i < Len(memory[r.b])
    <3>1. /\ Len(memory[r.b]) \in Nat /\ memory[r.b] # <<>>
          /\ Last(memory[r.b]) = memory[r.b][Len(memory[r.b])]
      BY <1>1, <2>2, ArrayFacts, ReaderFacts DEF CacheInv
    <3>2. Last(memory[r.b]).sel \in {0, 1}
      BY <1>1, <2>2, <3>1 DEF CacheInv, ArraysOK
    <3>3. reader[t].i + 1 # Len(memory[r.b])
      BY <1>2, <2>2, <3>1, <3>2 DEF Bucket
    <3> HIDE DEF r
    <3> QED
      BY <1>1, <2>2, <3>1, <3>3
  <2> HIDE DEF r
  <2> QED
    BY <1>1, <2>1, <2>2, <2>3, ReaderMoves DEF Loops
<1>3. CASE sel = 1 /\ reader' = [reader EXCEPT ![t].pc = "wrap"]
  <2> DEFINE r == [reader[t] EXCEPT !.pc = "wrap"]
  <2>1. reader' = [reader EXCEPT ![t] = r]
    BY <1>3 DEF CacheInv, TypeOK
  <2>2. /\ r \in ReaderType /\ r.pc = "wrap" /\ r.b = reader[t].b /\ r.sel = reader[t].sel
        /\ r.i = reader[t].i
    BY <1>1, ReaderStart DEF ReaderType, InRange
  <2>3. Bucket(r.b, r.i).sel = 1
    BY <1>3, <2>2
  <2> HIDE DEF r, sel
  <2> QED
    BY <1>1, <2>1, <2>2, <2>3, ReaderMoves DEF Loops
<1>4. CASE reader' = [reader EXCEPT ![t] = Missed(@)]
  BY <1>1, <1>4, StepMissed
<1> QED
  BY <1>2, <1>3, <1>4 DEF CompareEnd

\* An end marker holds the address of its own array, so the scan goes on in the same.
LEMMA StepWrap ==
    ASSUME CacheInv, NEW t \in Readers, Wrap(t) PROVE CacheInv'
<1> DEFINE e == Bucket(reader[t].b, reader[t].i)
           r == [reader[t] EXCEPT !.pc = "compare", !.b = e.imp, !.i = 0, !.wrapped = TRUE]
<1>1. /\ reader' = [reader EXCEPT ![t] = r] /\ ReaderStep /\ reader[t].pc = "wrap"
      /\ reader[t].pc \in Loops
  BY DEF Wrap, Loops
<1>2. /\ reader[t].b \in Addresses /\ memory[reader[t].b] # <<>>
      /\ reader[t].i + 1 \in 1 .. Len(memory[reader[t].b])
      /\ Len(memory[reader[t].b]) \in Nat /\ Len(memory[reader[t].b]) > 0
      /\ DOMAIN memory[reader[t].b] = 1 .. Len(memory[reader[t].b])
  BY <1>1, ReaderFacts, ArrayFacts DEF CacheInv
<1>3. e.imp = reader[t].b
  <2>1. e.sel = 1
    BY <1>1, ReaderStart DEF ReaderOK
  <2> QED
    BY <1>2, <2>1 DEF CacheInv, ArraysOK, Bucket
<1> HIDE DEF e
<1>4. /\ r \in ReaderType /\ r.pc = "compare" /\ r.b = reader[t].b /\ r.sel = reader[t].sel
      /\ r.i = 0
  BY <1>2, <1>3, ReaderStart DEF ReaderType, InRange
<1> HIDE DEF r
<1> QED
  BY <1>1, <1>2, <1>4, ReaderMoves DEF Loops

\* The implementation is loaded: it was stored before the selector was.
LEMMA StepCacheHit ==
    ASSUME CacheInv, NEW t \in Readers, CacheHit(t) PROVE CacheInv'
<1> DEFINE e == Bucket(reader[t].b, reader[t].i)
           r == [reader[t] EXCEPT !.pc = "called", !.b = e.imp, !.i = 0, !.wrapped = FALSE]
<1>1. /\ reader' = [reader EXCEPT ![t] = r] /\ ReaderStep /\ reader[t].pc = "hit"
      /\ reader[t].pc \in Loops
  BY DEF CacheHit, Loops
<1>2. /\ reader[t].b \in Addresses
      /\ reader[t].i + 1 \in 1 .. Len(memory[reader[t].b])
      /\ DOMAIN memory[reader[t].b] = 1 .. Len(memory[reader[t].b])
  BY <1>1, ReaderFacts, ArrayFacts DEF CacheInv
<1>3. e.imp \in Imps \cup Addresses \cup {nil} /\ e.sel = reader[t].sel
  <2>1. e.imp \in Imps \cup Addresses \cup {nil}
    BY <1>2, ArrayFacts DEF CacheInv, Bucket, BucketType
  <2> QED
    BY <1>1, <2>1, ReaderStart DEF ReaderOK
<1>4. ~SignalsInLock => e.imp \in current[t]
  BY <1>1, <1>2, <1>3, ReaderStart DEF SendFresh, Bucket
<1> HIDE DEF e
<1>5. /\ r \in ReaderType /\ r.pc = "called" /\ r.b = e.imp /\ r.sel = reader[t].sel
  BY <1>3, ReaderStart DEF ReaderType
<1> HIDE DEF r
<1> QED
  BY <1>1, <1>4, <1>5, ReaderMoves DEF Loops

-----------------------------------------------------------------------------
(* The steps of the writer that leave the arrays alone.                    *)

\* The records of a writer.
LEMMA UnlockedFacts ==
    /\ Unlocked \in WriterType
    /\ Unlocked.pc = "idle" /\ Unlocked.then = nil /\ Unlocked.changed = {}
    /\ Unlocked.new = nil /\ Unlocked.old = nil
    /\ nil # "place" /\ nil # "done"
<1>1. nil # "place" /\ nil # "done"
  BY CacheAssumption
<1> QED
  BY <1>1 DEF Unlocked, WriterType

\* The writer goes on after an array is installed, or garbage collected.
LEMMA ContinueFacts ==
    ASSUME NEW w \in WriterType, w.then # nil
    PROVE  /\ Continue(w) \in WriterType
           /\ Continue(w).pc = w.then /\ w.then \in {"place", "done"}
           /\ Continue(w).sel = w.sel /\ Continue(w).imp = w.imp
           /\ Continue(w).changed = w.changed /\ Continue(w).then = nil
           /\ Continue(w).new = nil /\ Continue(w).old = nil
BY DEF Continue, Unlocked, WriterType

\* What every step of the writer starts from.
LEMMA WriterStart ==
    ASSUME CacheInv
    PROVE  /\ TypeOK /\ ArraysOK /\ SharedOK /\ CacheOK /\ InstallOK /\ FillOK /\ ReadersOK
           /\ FreshOK /\ BlocksAccountedFor
           /\ writer \in WriterType /\ mask \in Nat /\ occupied \in Nat
           /\ writer.pc = "idle" => writer = Unlocked
           /\ writer.pc # "destroyed" => buckets # nil
           /\ imps \in [Sels -> Imps] /\ garbage_refs \subseteq Blocks
           /\ reader \in [Readers -> ReaderType]
BY DEF CacheInv, WriterOK, TypeOK

Places == {"setBuckets", "setMask", "storeSel", "collect_free", "destroyed"}

\* The arrays and the cache are in order after a step that only moves the writer.
LEMMA DataKept ==
    ASSUME CacheInv, UNCHANGED <<cacheVars, memory, emptyBucketsList, garbage_refs>>,
           writer.pc \notin Places, writer'.pc \notin Places
    PROVE  /\ ArraysOK' /\ SharedOK' /\ CacheOK' /\ BlocksAccountedFor'
           /\ shared' = shared /\ buckets # nil
<1>1. UNCHANGED <<buckets, mask, occupied, memory, emptyBucketsList, garbage_refs>>
  BY DEF cacheVars
<1>2. shared' = shared
  BY <1>1, SharedKept
<1>3. ArraysOK'
  BY <1>1, WriterStart DEF ArraysOK
<1>4. SharedOK'
  BY <1>1, SharedStays, WriterStart
<1>5. CacheOK'
  <2>1. CacheOK /\ TypeOK
    BY WriterStart
  <2>2. /\ writer.pc # "setMask" /\ writer'.pc # "setMask"
        /\ writer.pc # "storeSel" /\ writer'.pc # "storeSel"
    BY DEF Places
  <2> QED
    BY <1>1, <2>1, <2>2, CacheKept
<1>6. BlocksAccountedFor'
  <2>1. live' = live /\ moving = {} /\ moving' = {}
    BY <1>1 DEF live, moving, Places
  <2> QED
    BY <1>1, <1>2, <2>1, WriterStart DEF BlocksAccountedFor
<1>7. buckets # nil
  BY WriterStart DEF Places
<1> QED
  BY <1>2, <1>3, <1>4, <1>5, <1>6, <1>7

\* What the writer has to have in order at the places where it owns nothing.
LEMMA WriterKept ==
    ASSUME CacheInv, UNCHANGED <<cacheVars, memory, emptyBucketsList, garbage_refs>>,
           writer.pc \notin Places, writer'.pc \notin Places,
           writer'.pc = "idle" => writer' = Unlocked,
           writer'.pc = "collect" =>
                /\ writer'.then # nil
                /\ writer'.then = "place" => buckets \notin shared /\ occupied = 0,
           writer'.pc = "place" => buckets \notin shared /\ occupied < mask,
           Filling' => /\ writer'.sel \in Sels /\ writer'.imp = imps'[writer'.sel]
                       /\ writer'.changed = {}
    PROVE  WriterOK'
<1>1. UNCHANGED <<buckets, mask, occupied>> /\ shared' = shared /\ buckets # nil
  BY DataKept DEF cacheVars
<1>2. InstallOK'
  BY <1>1 DEF InstallOK, Places
<1>3. FillOK'
  BY <1>1 DEF FillOK, Places
<1> QED
  BY <1>1, <1>2, <1>3 DEF WriterOK, Places

\* The lock is released.
LEMMA StepDone == ASSUME CacheInv, Done PROVE CacheInv'
<1>1. /\ writer.pc = "done" /\ writer' = Unlocked
      /\ UNCHANGED <<cacheVars, memory, emptyBucketsList, garbage_refs>>
      /\ UNCHANGED <<buckets, mask, occupied, garbage_byte_size, shouldUseRestartableRanges,
                     imps, reader, current>>
  BY DEF Done, garbageVars, cacheVars
<1>2. writer.pc \notin Places /\ writer'.pc \notin Places /\ writer'.pc = "idle"
      /\ writer'.then = nil /\ writer'.changed = {}
  BY <1>1, UnlockedFacts DEF Places
<1>3. TypeOK'
  BY <1>1, UnlockedFacts, WriterStart DEF TypeOK
<1>4. ~Filling'
  BY <1>1, <1>2, UnlockedFacts DEF Filling
<1>5. WriterOK'
  BY <1>1, <1>2, <1>4, WriterKept
<1>6. ReadersOK'
  BY <1>1, <1>2, WriterStart, ReadersKept
<1>7. FreshOK'
  <2> SUFFICES ASSUME ~SignalsInLock PROVE CacheFresh' /\ \A t \in Readers : SendFresh(t)'
    BY DEF FreshOK
  <2>1. \A t \in Readers : SendFresh(t)'
    BY <1>1, <1>2, FreshKept
  <2>2. CacheFresh'
    <3>1. CacheFresh
      BY WriterStart DEF FreshOK
    <3>2. CASE writer.changed = {}
      <4>1. UNCHANGED <<buckets, memory, imps>> /\ writer'.changed = writer.changed
        BY <1>1, <1>2, <3>2
      <4> QED
        BY <1>2, <3>1, <4>1 DEF CacheFresh, Entries, MayFind
    <3>3. CASE writer.changed # {}
      <4>1. Entries(buckets) = {}
        BY <1>1, <3>1, <3>3 DEF CacheFresh
      <4> QED
        BY <1>1, <1>2, <4>1 DEF CacheFresh, Entries
    <3> QED
      BY <3>2, <3>3
  <2> QED
    BY <2>1, <2>2
<1> QED
  BY <1>1, <1>2, <1>3, <1>5, <1>6, <1>7, DataKept DEF CacheInv

\* The garbage is collected for certain.
LEMMA StepCollectALot == ASSUME CacheInv, CollectALot PROVE CacheInv'
<1>1. /\ writer.pc = "idle" /\ writer = Unlocked
      /\ writer' = [Unlocked EXCEPT !.pc = "collect", !.then = "done", !.aLot = TRUE,
                                    !.toCheck = Readers]
      /\ UNCHANGED <<cacheVars, memory, emptyBucketsList, garbage_refs>>
      /\ UNCHANGED <<buckets, mask, occupied, garbage_byte_size, shouldUseRestartableRanges,
                     imps, reader, current>>
  BY WriterStart DEF CollectALot, garbageVars, cacheVars
<1>2. /\ writer.pc \notin Places /\ writer'.pc \notin Places /\ writer'.pc = "collect"
      /\ writer'.then = "done" /\ writer'.changed = {} /\ writer.changed = {}
      /\ writer'.toCheck = Readers /\ writer' \in WriterType
  BY <1>1 DEF Places, Unlocked, WriterType
<1>3. TypeOK'
  BY <1>1, <1>2, WriterStart DEF TypeOK
<1>4. ~Filling'
  BY <1>2, UnlockedFacts DEF Filling
<1>5. WriterOK'
  BY <1>1, <1>2, <1>4, UnlockedFacts, WriterKept
<1>6. ReadersOK'
  BY <1>1, <1>2, WriterStart, ReadersKept
<1>7. FreshOK'
  <2> SUFFICES ASSUME ~SignalsInLock PROVE CacheFresh' /\ \A t \in Readers : SendFresh(t)'
    BY DEF FreshOK
  <2>1. \A t \in Readers : SendFresh(t)'
    BY <1>1, <1>2, FreshKept
  <2>2. CacheFresh'
    BY <1>1, <1>2, WriterStart DEF FreshOK, CacheFresh, Entries, MayFind
  <2> QED
    BY <2>1, <2>2
<1> QED
  BY <1>1, <1>2, <1>3, <1>5, <1>6, <1>7, DataKept DEF CacheInv

\* One thread is looked at: if it is outside of the lookup code it has no array, and if
\* it comes back it loads the one in use.
LEMMA StepCheckThread ==
    ASSUME CacheInv, NEW t \in Readers, CheckThread(t) PROVE CacheInv'
<1>1. /\ writer.pc = "collect" /\ ~shouldUseRestartableRanges /\ t \in writer.toCheck
      /\ UNCHANGED <<cacheVars, memory, emptyBucketsList, garbage_refs>>
      /\ UNCHANGED <<buckets, mask, occupied, garbage_byte_size, shouldUseRestartableRanges,
                     imps, reader, current>>
  BY DEF CheckThread, garbageVars, cacheVars, WriterStep
<1>2. /\ writer \in WriterType /\ writer.then # nil
      /\ writer.then = "place" => buckets \notin shared /\ occupied = 0
  BY <1>1, WriterStart DEF InstallOK
<1>3. /\ writer' \in WriterType /\ writer'.changed = writer.changed
      /\ writer'.sel = writer.sel /\ writer'.imp = writer.imp
      /\ \/ writer'.pc = "collect" /\ writer'.then = writer.then
            /\ (writer'.toCheck = Readers
                \/ (writer'.toCheck = writer.toCheck \ {t} /\ reader[t].pc \notin InRange))
         \/ writer'.pc = writer.then /\ writer.then \in {"place", "done"} /\ writer'.then = nil
  <2>1. CASE reader[t].pc \notin InRange
    <3>1. writer' = [writer EXCEPT !.toCheck = writer.toCheck \ {t}]
      BY <2>1 DEF CheckThread
    <3> QED
      BY <1>1, <1>2, <2>1, <3>1 DEF WriterType
  <2>2. CASE reader[t].pc \in InRange /\ writer.aLot
    <3>1. writer' = [writer EXCEPT !.toCheck = Readers]
      BY <2>2 DEF CheckThread
    <3> QED
      BY <1>1, <1>2, <3>1 DEF WriterType
  <2>3. CASE reader[t].pc \in InRange /\ ~writer.aLot
    <3>1. writer' = Continue(writer)
      BY <2>3 DEF CheckThread
    <3> QED
      BY <1>2, <3>1, ContinueFacts
  <2> QED
    BY <2>1, <2>2, <2>3
<1>4. writer.pc \notin Places /\ writer'.pc \notin Places /\ writer'.pc # "idle"
  BY <1>1, <1>3 DEF Places
<1>5. TypeOK'
  BY <1>1, <1>3, WriterStart DEF TypeOK
<1>6. buckets \notin shared => Owned
  BY <1>1, <1>4, DataKept, CacheKinds
<1>7. buckets \notin shared /\ occupied = 0 => occupied < mask
  BY <1>6, WriterStart, CapacityFacts DEF Owned
<1>8. WriterOK'
  <2>1. Filling' => Filling
    BY <1>3, UnlockedFacts DEF Filling
  <2>2. Filling' => /\ writer'.sel \in Sels /\ writer'.imp = imps'[writer'.sel]
                    /\ writer'.changed = {}
    BY <1>1, <1>3, <2>1, WriterStart DEF FillOK
  <2> QED
    BY <1>1, <1>2, <1>3, <1>4, <1>7, <2>2, WriterKept
<1>9. ReadersOK'
  <2>1. ASSUME writer'.pc = "collect", NEW u \in Readers, reader[u].pc \in Loops
        PROVE  u \in writer'.toCheck \/ reader[u].b \notin garbage_refs'
    <3>1. u \in writer.toCheck \/ reader[u].b \notin garbage_refs
      BY <1>1, <2>1, WriterStart DEF ReadersOK, ReaderOK
    <3>2. reader[u].pc \in InRange
      BY <2>1 DEF Loops, InRange
    <3>3. ~(writer'.pc = writer.then /\ writer.then \in {"place", "done"})
      BY <2>1
    <3> QED
      BY <1>1, <1>3, <3>1, <3>2, <3>3
  <2> QED
    BY <1>1, <2>1, WriterStart, ReadersKept
<1>10. FreshOK'
  <2> SUFFICES ASSUME ~SignalsInLock PROVE CacheFresh' /\ \A u \in Readers : SendFresh(u)'
    BY DEF FreshOK
  <2>1. \A u \in Readers : SendFresh(u)'
    BY <1>1, <1>3, FreshKept
  <2>2. CacheFresh'
    <3>1. UNCHANGED <<buckets, memory, imps>> /\ writer'.changed = writer.changed
      BY <1>1, <1>3
    <3>2. CacheFresh
      BY WriterStart DEF FreshOK
    <3> QED
      BY <1>1, <3>1, <3>2 DEF CacheFresh, Entries, MayFind
  <2> QED
    BY <2>1, <2>2
<1> QED
  BY <1>1, <1>4, <1>5, <1>8, <1>9, <1>10, DataKept DEF CacheInv

-----------------------------------------------------------------------------
(* New arrays.                                                             *)

\* calloc() gives unused buckets.
LEMMA ZeroedFacts ==
    ASSUME NEW n \in Nat \ {0}
    PROVE  /\ Zeroed(n) \in Seq(BucketType) /\ Len(Zeroed(n)) = n
           /\ DOMAIN Zeroed(n) = 1 .. n /\ \A i \in 1 .. n : Zeroed(n)[i] = Unused
           /\ Zeroed(n) # <<>> /\ Last(Zeroed(n)) = Unused
<1>1. Unused \in BucketType
  BY DEF Unused, BucketType
<1>2. /\ Zeroed(n) \in Seq(BucketType) /\ Len(Zeroed(n)) = n
      /\ DOMAIN Zeroed(n) = 1 .. n /\ \A i \in 1 .. n : Zeroed(n)[i] = Unused
  BY <1>1 DEF Zeroed
<1>3. Zeroed(n) # <<>>
  BY <1>2
<1>4. Last(Zeroed(n)) = Zeroed(n)[n]
  BY <1>2 DEF Last
<1> QED
  BY <1>2, <1>3, <1>4

NewArray(b, n) == [Zeroed(n) EXCEPT ![n] = endMarker(b)]

\* allocateBuckets() puts the end marker into the last of them.
LEMMA NewArrayFacts ==
    ASSUME NEW n \in Nat \ {0}, NEW b \in Addresses
    PROVE  /\ NewArray(b, n) \in Seq(BucketType) /\ Len(NewArray(b, n)) = n
           /\ DOMAIN NewArray(b, n) = 1 .. n
           /\ NewArray(b, n)[n].sel = 1 /\ NewArray(b, n)[n].imp = b
           /\ \A i \in 1 .. n : i # n => NewArray(b, n)[i].sel = 0
           /\ NewArray(b, n) # <<>> /\ Last(NewArray(b, n)).sel = 1
<1>1. endMarker(b) \in BucketType /\ endMarker(b).sel = 1 /\ endMarker(b).imp = b
      /\ Unused.sel = 0
  BY DEF endMarker, BucketType, Unused
<1>2. /\ Zeroed(n) \in Seq(BucketType) /\ Len(Zeroed(n)) = n
      /\ DOMAIN Zeroed(n) = 1 .. n /\ \A i \in 1 .. n : Zeroed(n)[i] = Unused
  BY ZeroedFacts
<1>3. /\ NewArray(b, n) \in Seq(BucketType) /\ Len(NewArray(b, n)) = n
      /\ DOMAIN NewArray(b, n) = 1 .. n
  BY <1>1, <1>2 DEF NewArray
<1>4. NewArray(b, n)[n] = endMarker(b)
      /\ \A i \in 1 .. n : i # n => NewArray(b, n)[i] = Unused
  BY <1>2 DEF NewArray
<1>5. NewArray(b, n) # <<>>
  BY <1>3
<1>6. Last(NewArray(b, n)) = NewArray(b, n)[n]
  BY <1>3 DEF Last
<1> QED
  BY <1>1, <1>3, <1>4, <1>5, <1>6

\* A new array has no entries, and is one of the cache's own when it is installed.
LEMMA NewArrayNoEntries ==
    ASSUME NEW n \in Nat \ {0}, NEW b \in Addresses, memory[b] = NewArray(b, n)
    PROVE  Entries(b) = {}
<1>1. \A i \in 1 .. n : NewArray(b, n)[i].sel \in {0, 1}
  BY NewArrayFacts
<1> QED
  BY <1>1, NewArrayFacts DEF Entries

\* malloc() returns an array that is free.
LEMMA MallocFacts ==
    ASSUME Free # {} PROVE Malloc \in Blocks /\ memory[Malloc] = <<>>
<1>1. PICK m \in Free : TRUE
  OBVIOUS
<1> DEFINE S == {n \in Free : n <= m}
<1>2. Free \subseteq Blocks /\ Blocks \subseteq Nat /\ m \in Nat
  BY <1>1, Numbers DEF Free
<1>3. S \in SUBSET (0 .. m) /\ m \in S
  <2>1. \A n \in S : n \in Nat /\ n <= m
    BY <1>2
  <2>2. \A n \in S : n \in 0 .. m
    BY <1>2, <2>1
  <2>3. m <= m
    BY <1>2
  <2> QED
    BY <1>1, <2>2, <2>3
<1>4. PICK n \in S : \A y \in S : n <= y
  BY <1>2, <1>3, MinOf
<1>5. \A c \in Free : n <= c
  BY <1>2, <1>4
<1>6. Malloc \in Free
  BY <1>4, <1>5 DEF Malloc
<1> QED
  BY <1>6 DEF Free

\* What malloc() returns is in nobody's hands.
LEMMA AllocFacts ==
    ASSUME CacheInv, writer.pc \in {"idle", "shouldFlush"}, Free # {}
    PROVE  /\ Malloc \in Blocks /\ Malloc \in Addresses /\ memory[Malloc] = <<>>
           /\ Malloc \notin shared /\ Malloc \notin garbage_refs /\ Malloc # buckets
           /\ Malloc \notin InUse /\ Malloc # nil
<1> DEFINE b == Malloc
<1>1. b \in Blocks /\ memory[b] = <<>> /\ b \in Addresses /\ b # nil
  BY MallocFacts, Numbers
<1> HIDE DEF b
<1>2. b \notin shared
  BY <1>1, SharedUnused
<1>3. b \notin live
  BY <1>1 DEF live
<1>4. b \notin garbage_refs
  BY <1>1, <1>2, <1>3, WriterStart DEF BlocksAccountedFor
<1>5. b # buckets
  BY <1>1, CacheKinds
<1>6. b \notin InUse
  BY <1>1, InUseFacts
<1> QED
  BY <1>1, <1>2, <1>4, <1>5, <1>6 DEF b

\* A cache without entries.
LEMMA EntriesFinite ==
    ASSUME TypeOK, NEW b \in Addresses
    PROVE  IsFiniteSet(Entries(b)) /\ Entries(b) \subseteq 1 .. Len(memory[b])
           /\ Cardinality(Entries(b)) \in Nat
<1>1. Len(memory[b]) \in Nat /\ DOMAIN memory[b] = 1 .. Len(memory[b])
  BY ArrayFacts
<1>2. Entries(b) \subseteq 1 .. Len(memory[b])
  BY <1>1 DEF Entries
<1>3. IsFiniteSet(1 .. Len(memory[b]))
  BY <1>1, FS_Interval
<1> QED
  BY <1>2, <1>3, FS_Subset, FS_CardinalityType

\* A cache with occupied = 0 has no entries.
LEMMA NoEntries ==
    ASSUME CacheInv, writer.pc \notin Places, occupied = 0
    PROVE  Entries(buckets) = {}
<1>1. buckets # nil /\ writer.pc # "setMask" /\ writer.pc # "storeSel"
  BY WriterStart DEF Places
<1>2. buckets \in Addresses
  BY <1>1, CacheKinds
<1>3. CASE buckets \in shared
  BY <1>3, SharedUnused
<1>4. CASE buckets \notin shared
  <2>1. Owned
    BY <1>1, <1>4, CacheKinds
  <2>2. Cardinality(Entries(buckets)) = 0
    BY <1>1, <1>2, <2>1, EntriesFinite, WriterStart DEF Owned
  <2> QED
    BY <1>2, <2>2, EntriesFinite, FS_EmptySet, WriterStart
<1> QED
  BY <1>3, <1>4

\* A cache of its own stays in order as long as nothing is stored.
LEMMA OwnedKept ==
    ASSUME Owned, UNCHANGED <<mask, buckets, occupied>>, memory'[buckets] = memory[buckets],
           writer.pc # "storeSel", writer'.pc # "storeSel"
    PROVE  Owned'
<1>1. /\ \A s : Slot(s)' = Slot(s)
      /\ Entries(buckets)' = Entries(buckets)
  BY SlotsKept
<1>2. /\ Len(memory'[buckets']) = mask' + 1 /\ mask' + 1 \in Capacities
      /\ \A i \in DOMAIN memory'[buckets'] : memory'[buckets'][i].sel = 1 <=> i = mask' + 1
  BY DEF Owned
<1>3. \A i \in Entries(buckets)' : Slot(memory[buckets][i].sel)' + 1 = i
  BY <1>1 DEF Owned
<1>4. occupied' = Cardinality(Entries(buckets)') + (IF writer'.pc = "storeSel" THEN 1 ELSE 0)
  BY <1>1 DEF Owned
<1> QED
  BY <1>2, <1>3, <1>4 DEF Owned

\* An array of the cache's own that is in order makes the cache so.
LEMMA CacheOwned ==
    ASSUME TypeOK, Owned, buckets \notin shared
    PROVE  CacheOK
BY DEF TypeOK, Owned, CacheOK

\* The same in the next state.
LEMMA CacheOwnedNext ==
    ASSUME TypeOK', Owned', (buckets \notin shared)'
    PROVE  CacheOK'
BY DEF TypeOK, Owned, CacheOK

-----------------------------------------------------------------------------
(* Lookups that fill the cache.                                            *)

\* reallocate() up to the installation of the new array.
LEMMA StepReallocate ==
    ASSUME CacheInv, writer.pc = "idle", NEW w \in WriterType, NEW n \in Capacities,
           w.sel \in Sels, w.imp = imps[w.sel], w.changed = {},
           NEW freeOld \in BOOLEAN, freeOld = (buckets \notin shared),
           mask + 1 <= n, reallocate(w, n, freeOld),
           UNCHANGED <<buckets, mask, occupied, emptyBucketsList, garbage_refs, imps>>
    PROVE  /\ memory' \in [Addresses -> Seq(BucketType)] /\ writer' \in WriterType
           /\ writer'.pc = "setBuckets" /\ writer'.changed = {}
           /\ ArraysOK' /\ SharedOK' /\ CacheOK' /\ InstallOK' /\ FillOK'
           /\ BlocksAccountedFor'
           /\ \A b \in Addresses \ {Malloc} : memory'[b] = memory[b]
<1> DEFINE a == Malloc
<1>1. /\ Free # {}
      /\ memory' = [memory EXCEPT ![a] = NewArray(a, n)]
      /\ writer' = [w EXCEPT !.pc = "setBuckets", !.new = a, !.mask = n - 1,
                             !.old = IF freeOld THEN buckets ELSE nil,
                             !.size = capacity, !.then = "place"]
  BY DEF reallocate, Install, NewArray
<1>2. /\ a \in Blocks /\ a \in Addresses /\ memory[a] = <<>>
      /\ a \notin shared /\ a \notin garbage_refs /\ a # buckets /\ a # nil
  BY <1>1, AllocFacts
<1> HIDE DEF a
<1>3. n \in Nat /\ n >= 2 /\ n \in Nat \ {0} /\ n - 1 \in Nat /\ n - 1 + 1 = n
  BY CapacityFacts
<1>4. buckets # nil /\ buckets \in Addresses /\ memory[buckets] # <<>> /\ mask \in Nat
      /\ capacity \in Nat /\ buckets \notin garbage_refs /\ writer.pc # "setMask"
  <2>1. buckets # nil
    BY WriterStart
  <2> QED
    BY <2>1, CacheKinds DEF capacity
<1>5. /\ memory' \in [Addresses -> Seq(BucketType)] /\ memory'[a] = NewArray(a, n)
      /\ \A b \in Addresses \ {a} : memory'[b] = memory[b]
  BY <1>1, <1>2, <1>3, NewArrayFacts, WriterStart DEF TypeOK, BucketType
<1>6. /\ writer' \in WriterType /\ writer'.pc = "setBuckets" /\ writer'.changed = {}
      /\ writer'.new = a /\ writer'.mask = n - 1 /\ writer'.then = "place"
      /\ writer'.old = (IF freeOld THEN buckets ELSE nil)
      /\ writer'.sel = w.sel /\ writer'.imp = w.imp
  BY <1>1, <1>2, <1>3, <1>4 DEF WriterType
<1>7. shared' = shared /\ shared \subseteq Addresses
  BY SharedKept, SharedFacts, WriterStart
<1>8. ArraysOK'
  <2>1. /\ Last(memory'[a]).sel \in {0, 1}
        /\ \A i \in DOMAIN memory'[a] :
            /\ memory'[a][i].sel = 1 => memory'[a][i].imp = a
            /\ memory'[a][i].sel > 1 => memory'[a][i].sel \in Sels
    BY <1>2, <1>3, <1>5, NewArrayFacts
  <2> QED
    BY <1>5, <2>1, ArraysKept, WriterStart
<1>9. SharedOK'
  BY <1>2, <1>5, <1>7, SharedStays, WriterStart
<1>10. CacheOK'
  <2>1. memory'[buckets] = memory[buckets]
    BY <1>2, <1>4, <1>5
  <2>2. writer.pc # "storeSel" /\ writer'.pc # "storeSel" /\ writer'.pc # "setMask"
    BY <1>6
  <2> QED
    BY <1>4, <2>1, <2>2, CacheKept, WriterStart
<1>11. InstallOK'
  <2>1. writer'.mask + 1 = n /\ mask' <= writer'.mask
    BY <1>3, <1>4, <1>6
  <2>2. memory'[writer'.new] = [Zeroed(n) EXCEPT ![n] = endMarker(a)]
    BY <1>5, <1>6 DEF NewArray
  <2>3. writer'.then # nil
    BY <1>6, UnlockedFacts
  <2> QED
    BY <1>2, <1>6, <1>7, <2>1, <2>2, <2>3 DEF InstallOK
<1>12. FillOK'
  BY <1>6 DEF FillOK, Filling
<1>13. BlocksAccountedFor'
  <2>1. moving = {}
    BY DEF moving
  <2>2. moving' = {a} \cup (IF buckets \notin shared THEN {buckets} ELSE {})
    BY <1>2, <1>4, <1>6 DEF moving
  <2>3. live' = live \cup {a}
    <3>1. \A b \in Blocks : b # a => memory'[b] = memory[b]
      BY <1>5, Numbers
    <3>2. memory'[a] # <<>>
      BY <1>2, <1>3, <1>5, NewArrayFacts
    <3> QED
      BY <1>2, <3>1, <3>2 DEF live
  <2>4. \A b \in shared' : \A i \in DOMAIN memory'[b] : memory'[b][i] = Unused
    <3>1. \A b \in shared : b \in Addresses \ {a}
      BY <1>2, <1>7
    <3>2. \A b \in shared : \A i \in DOMAIN memory[b] : memory[b][i] = Unused
      BY SharedUnused
    <3>3. \A b \in shared : memory'[b] = memory[b]
      BY <1>5, <3>1
    <3> QED
      BY <1>7, <3>2, <3>3
  <2> QED
    BY <1>2, <1>4, <1>7, <2>1, <2>2, <2>3, <2>4, WriterStart DEF BlocksAccountedFor
<1> QED
  BY <1>5, <1>6, <1>8, <1>9, <1>10, <1>11, <1>12, <1>13 DEF a

FillStart(s) == [Unlocked EXCEPT !.sel = s, !.imp = imps[s]]

\* The writer at the beginning of insert().
LEMMA FillStartFacts ==
    ASSUME CacheInv, NEW s \in Sels
    PROVE  /\ FillStart(s) \in WriterType /\ FillStart(s).sel = s /\ FillStart(s).imp = imps[s]
           /\ FillStart(s).changed = {} /\ FillStart(s).then = nil
<1>1. imps[s] \in Imps
  BY WriterStart
<1> QED
  BY <1>1 DEF FillStart, Unlocked, WriterType

\* insert() until there is room: no array that somebody uses is touched.
LEMMA StepMakeRoom ==
    ASSUME CacheInv, writer.pc = "idle", NEW s \in Sels, MakeRoom(FillStart(s)),
           UNCHANGED <<buckets, mask, occupied, emptyBucketsList, garbage_refs, imps>>
    PROVE  /\ memory' \in [Addresses -> Seq(BucketType)] /\ writer' \in WriterType
           /\ writer'.pc \in {"setBuckets", "place"} /\ writer'.changed = {}
           /\ ArraysOK' /\ SharedOK' /\ CacheOK' /\ InstallOK' /\ FillOK'
           /\ BlocksAccountedFor' /\ buckets # nil
           /\ \A b \in InUse \cup {buckets} : b \in Addresses /\ memory'[b] = memory[b]
<1> DEFINE w == FillStart(s)
<1>1. /\ w \in WriterType /\ w.sel = s /\ w.imp = imps[w.sel] /\ w.changed = {}
      /\ w.then = nil
  BY FillStartFacts
<1>2. /\ buckets # nil /\ buckets \in Addresses /\ mask \in Nat /\ occupied \in Nat
      /\ mask = 0 \/ mask + 1 \in Capacities
      /\ buckets \notin shared => Owned
      /\ isConstantEmptyCache <=> buckets \in shared
  <2>1. buckets # nil
    BY WriterStart
  <2> QED
    BY <2>1, CacheKinds
<1>3. INIT_CACHE_SIZE \in Capacities /\ MAX_CACHE_SIZE \in Capacities
      /\ \A n \in Capacities : n \in Nat /\ n >= 2 /\ n <= MAX_CACHE_SIZE
  BY CapacityFacts
<1>4. \A b \in InUse \cup {buckets} : b \in Addresses
  BY <1>2, InUseFacts
<1>5. CASE \E n \in Capacities : mask + 1 <= n /\ reallocate(w, n, buckets \notin shared)
  <2>1. PICK n \in Capacities : mask + 1 <= n /\ reallocate(w, n, buckets \notin shared)
    BY <1>5
  <2>2. Free # {}
    BY <2>1 DEF reallocate
  <2>3. Malloc \notin InUse /\ Malloc # buckets
    BY <2>2, AllocFacts
  <2> DEFINE f == buckets \notin shared
  <2>4. f \in BOOLEAN /\ reallocate(w, n, f) /\ f = (buckets \notin shared)
    BY <2>1
  <2> HIDE DEF w, f
  <2>5. /\ memory' \in [Addresses -> Seq(BucketType)] /\ writer' \in WriterType
        /\ writer'.pc = "setBuckets" /\ writer'.changed = {}
        /\ ArraysOK' /\ SharedOK' /\ CacheOK' /\ InstallOK' /\ FillOK'
        /\ BlocksAccountedFor'
        /\ \A b \in Addresses \ {Malloc} : memory'[b] = memory[b]
    BY <1>1, <2>1, <2>4, StepReallocate
  <2> QED
    BY <1>2, <1>4, <2>3, <2>5
<1>6. CASE /\ ~isConstantEmptyCache
           /\ occupied + 1 + 1 <= cache_fill_ratio(capacity)
           /\ writer' = [w EXCEPT !.pc = "place"]
           /\ UNCHANGED memory
  <2>1. /\ writer' \in WriterType /\ writer'.pc = "place" /\ writer'.changed = {}
        /\ writer'.sel = s /\ writer'.imp = imps[s]
    BY <1>1, <1>6 DEF WriterType
  <2>2. writer.pc \notin Places /\ writer'.pc \notin Places
    BY <2>1 DEF Places
  <2>3. occupied < mask
    <3>1. Owned /\ mask + 1 \in Capacities
      BY <1>2, <1>6 DEF Owned
    <3>2. mask + 1 >= 2 /\ mask # 0
      BY <1>2, <1>3, <3>1
    <3>3. occupied + 1 + 1 <= ((mask + 1) * 3) \div 4
      BY <1>6, <3>2 DEF cache_fill_ratio, capacity
    <3> QED
      BY <1>2, <3>2, <3>3
  <2>4. UNCHANGED <<cacheVars, memory, emptyBucketsList, garbage_refs>>
    BY <1>6 DEF cacheVars
  <2>5. /\ ArraysOK' /\ SharedOK' /\ CacheOK' /\ BlocksAccountedFor'
    BY <2>2, <2>4, DataKept
  <2>6. WriterOK'
    BY <1>2, <1>6, <2>1, <2>2, <2>3, <2>4, WriterKept
  <2> QED
    BY <1>2, <1>4, <1>6, <2>1, <2>5, <2>6, WriterStart DEF WriterOK, TypeOK, BucketType
<1>7. CASE /\ isConstantEmptyCache
           /\ reallocate(w, IF capacity = 0 THEN INIT_CACHE_SIZE ELSE capacity, FALSE)
  <2> DEFINE n == IF capacity = 0 THEN INIT_CACHE_SIZE ELSE capacity
  <2>1. n \in Capacities /\ mask + 1 <= n
    BY <1>2, <1>3 DEF capacity
  <2>2. (buckets \notin shared) = FALSE
    BY <1>2, <1>7
  <2>3. reallocate(w, n, buckets \notin shared)
    BY <1>7, <2>2
  <2> HIDE DEF n, w
  <2> QED
    BY <1>5, <2>1, <2>3
<1>8. CASE /\ ~isConstantEmptyCache
           /\ LET double == IF capacity = 0 THEN INIT_CACHE_SIZE ELSE capacity * 2
              IN  reallocate(w, IF double > MAX_CACHE_SIZE THEN MAX_CACHE_SIZE ELSE double,
                             TRUE)
  <2> DEFINE double == IF capacity = 0 THEN INIT_CACHE_SIZE ELSE capacity * 2
             n == IF double > MAX_CACHE_SIZE THEN MAX_CACHE_SIZE ELSE double
  <2>1. capacity = mask + 1 /\ capacity \in Capacities /\ capacity # 0
    <3>1. Owned /\ mask + 1 \in Capacities
      BY <1>2, <1>8 DEF Owned
    <3> QED
      BY <1>2, <1>3, <3>1 DEF capacity
  <2>2. double = capacity * 2 /\ capacity \in Nat /\ capacity <= MAX_CACHE_SIZE
        /\ MAX_CACHE_SIZE \in Nat
    BY <1>3, <2>1, Numbers
  <2>3. n \in Capacities /\ mask + 1 <= n
    <3>1. CASE double > MAX_CACHE_SIZE
      BY <1>3, <2>1, <2>2, <3>1
    <3>2. CASE ~(double > MAX_CACHE_SIZE)
      <4>1. capacity * 2 <= MAX_CACHE_SIZE
        BY <2>2, <3>2
      <4>2. capacity * 2 \in Capacities
        BY <2>1, <4>1, CapacityFacts
      <4> QED
        BY <2>1, <2>2, <3>2, <4>2
    <3> QED
      BY <3>1, <3>2
  <2>4. (buckets \notin shared) = TRUE
    BY <1>2, <1>8
  <2>5. reallocate(w, n, buckets \notin shared)
    BY <1>8, <2>4
  <2> HIDE DEF n, w
  <2> QED
    BY <1>5, <2>3, <2>5
<1> QED
  BY <1>6, <1>7, <1>8 DEF MakeRoom

\* What the cache holds does not change with that.
LEMMA FillFresh ==
    ASSUME CacheInv, ~SignalsInLock, writer.pc = "idle", UNCHANGED <<buckets, imps>>,
           buckets # nil, memory'[buckets] = memory[buckets], writer'.changed = {}
    PROVE  CacheFresh'
<1>1. writer.changed = {}
  BY WriterStart, UnlockedFacts
<1> QED
  BY <1>1, WriterStart DEF FreshOK, CacheFresh, Entries, MayFind

\* A lookup that is no reader's fills the cache.
LEMMA StepLookUpElsewhere ==
    ASSUME CacheInv, NEW s \in Sels, LookUpElsewhere(s) PROVE CacheInv'
<1>1. /\ writer.pc = "idle" /\ MakeRoom(FillStart(s))
      /\ UNCHANGED <<buckets, mask, occupied, emptyBucketsList, garbage_refs, imps>>
      /\ UNCHANGED <<garbage_byte_size, shouldUseRestartableRanges, reader, current>>
  BY DEF LookUpElsewhere, FillStart, cacheVars, garbageVars
<1>2. /\ memory' \in [Addresses -> Seq(BucketType)] /\ writer' \in WriterType
      /\ writer'.pc \in {"setBuckets", "place"} /\ writer'.changed = {}
      /\ ArraysOK' /\ SharedOK' /\ CacheOK' /\ InstallOK' /\ FillOK'
      /\ BlocksAccountedFor' /\ buckets # nil
      /\ \A b \in InUse \cup {buckets} : memory'[b] = memory[b]
  BY <1>1, StepMakeRoom
<1>3. TypeOK'
  BY <1>1, <1>2, WriterStart DEF TypeOK, BucketType
<1>4. WriterOK'
  BY <1>1, <1>2 DEF WriterOK
<1>5. ReadersOK'
  <2>1. writer'.pc # "collect" /\ mask' \in Nat /\ mask <= mask'
    BY <1>1, <1>2, WriterStart
  <2> QED
    BY <1>1, <1>2, <2>1, ReadersKept
<1>6. FreshOK'
  <2> SUFFICES ASSUME ~SignalsInLock PROVE CacheFresh' /\ \A t \in Readers : SendFresh(t)'
    BY DEF FreshOK
  <2>1. \A t \in Readers : SendFresh(t)'
    BY <1>1, <1>2, FreshKept
  <2>2. CacheFresh'
    BY <1>1, <1>2, FillFresh
  <2> QED
    BY <2>1, <2>2
<1> QED
  BY <1>2, <1>3, <1>4, <1>5, <1>6 DEF CacheInv

\* A reader that missed looks the method up and fills the cache.
LEMMA StepLookUp ==
    ASSUME CacheInv, NEW t \in Readers, LookUp(t) PROVE CacheInv'
<1>0. PICK s \in Sels : s = reader[t].sel
  BY ReaderStart DEF LookUp, ReaderOK
<1>1. /\ reader[t].pc = "miss" /\ writer.pc = "idle" /\ MakeRoom(FillStart(s))
      /\ UNCHANGED <<buckets, mask, occupied, emptyBucketsList, garbage_refs, imps>>
      /\ UNCHANGED <<garbage_byte_size, shouldUseRestartableRanges, current>>
      /\ reader' = [reader EXCEPT ![t] = [@ EXCEPT !.pc = "filling", !.b = FillStart(s).imp]]
  BY <1>0 DEF LookUp, FillStart, cacheVars, garbageVars
<1>2. reader[t] \in ReaderType /\ ReaderOK(t)
  BY ReaderStart
<1>3. /\ memory' \in [Addresses -> Seq(BucketType)] /\ writer' \in WriterType
      /\ writer'.pc \in {"setBuckets", "place"} /\ writer'.changed = {}
      /\ ArraysOK' /\ SharedOK' /\ CacheOK' /\ InstallOK' /\ FillOK'
      /\ BlocksAccountedFor' /\ buckets # nil
      /\ \A b \in InUse \cup {buckets} : memory'[b] = memory[b]
  BY <1>1, <1>2, StepMakeRoom
<1>4. \E r \in ReaderType : /\ reader' = [reader EXCEPT ![t] = r] /\ r.pc = "filling"
                             /\ r.sel = s /\ r.b = imps[s] /\ imps[s] \in Imps
  <2> DEFINE r == [reader[t] EXCEPT !.pc = "filling", !.b = imps[s]]
  <2>1. FillStart(s).imp = imps[s] /\ imps[s] \in Imps
    BY <1>2, FillStartFacts, WriterStart
  <2>2. reader' = [reader EXCEPT ![t] = r]
    BY <1>1, <2>1
  <2>3. r \in ReaderType /\ r.pc = "filling" /\ r.sel = s /\ r.b = imps[s]
    BY <1>0, <1>2, <2>1 DEF ReaderType
  <2> QED
    BY <2>1, <2>2, <2>3
<1>4a. PICK r \in ReaderType : /\ reader' = [reader EXCEPT ![t] = r] /\ r.pc = "filling"
                               /\ r.sel = s /\ r.b = imps[s] /\ imps[s] \in Imps
  BY <1>4
<1>5. /\ reader' \in [Readers -> ReaderType] /\ reader'[t] = r
      /\ \A u \in Readers \ {t} : reader'[u] = reader[u]
  BY <1>4a, WriterStart
<1>6. TypeOK'
  BY <1>1, <1>3, <1>5, WriterStart DEF TypeOK, BucketType
<1>7. WriterOK'
  BY <1>1, <1>3 DEF WriterOK
<1>8. ASSUME NEW u \in Readers \ {t} PROVE reader[u].pc \in Loops => memory'[reader[u].b] = memory[reader[u].b]
  BY <1>3 DEF InUse
<1>9. ReadersOK'
  <2>1. writer'.pc # "collect" /\ mask' \in Nat /\ mask <= mask'
    BY <1>1, <1>3, WriterStart
  <2>2. ASSUME NEW u \in Readers \ {t} PROVE ReaderOK(u)'
    BY <1>1, <1>5, <1>8, <2>1, ReaderKept
  <2>3. ReaderOK(t)'
    BY <1>2, <1>4a, <1>5 DEF ReaderOK, Loops
  <2> QED
    BY <2>2, <2>3 DEF ReadersOK
<1>10. FreshOK'
  <2> SUFFICES ASSUME ~SignalsInLock PROVE CacheFresh' /\ \A u \in Readers : SendFresh(u)'
    BY DEF FreshOK
  <2>1. writer'.changed \subseteq writer.changed
    BY <1>3
  <2>2. \A x : MayFind(x)' \subseteq MayFind(x)
    BY <1>1, <2>1, FindKept
  <2>3. \A u \in Readers : SendFresh(u)
    BY WriterStart DEF FreshOK
  <2>4. ASSUME NEW u \in Readers \ {t} PROVE SendFresh(u)'
    <3>1. reader'[u] = reader[u]
      BY <1>5
    <3>2. MayFind(reader[u].sel)' \subseteq MayFind(reader[u].sel)
      BY <1>1, <2>1, <3>1 DEF MayFind
    <3>3. reader[u].pc # "idle" => MayFind(reader[u].sel)' \subseteq current'[u]
      BY <1>1, <2>3, <3>2 DEF SendFresh
    <3> QED
      BY <1>1, <1>8, <2>3, <3>1, <3>3, SendKept
  <2>5. SendFresh(t)'
    <3>1. MayFind(s) \subseteq current[t] /\ imps[s] \in current[t]
      BY <1>0, <1>1, <2>3 DEF SendFresh, MayFind
    <3>2. MayFind(r.sel)' \subseteq current'[t]
      BY <1>1, <1>4a, <2>2, <3>1
    <3> QED
      BY <1>1, <1>4a, <1>5, <3>1, <3>2 DEF SendFresh, Loops
  <2>6. CacheFresh'
    BY <1>1, <1>3, FillFresh
  <2> QED
    BY <2>4, <2>5, <2>6
<1> QED
  BY <1>3, <1>6, <1>7, <1>9, <1>10 DEF CacheInv

-----------------------------------------------------------------------------
(* Installing an array.                                                    *)

\* An array that is being installed has no entries, and is large enough.
LEMMA InstallFacts ==
    ASSUME CacheInv, writer.pc \in {"setBuckets", "setMask"}
    PROVE  /\ writer.new \in Addresses /\ writer.new \notin garbage_refs
           /\ writer.mask \in Nat /\ writer.mask + 1 \in Capacities /\ writer.mask >= 1
           /\ mask <= writer.mask /\ writer.then \in {"place", "done"}
           /\ memory[writer.new] # <<>> /\ Entries(writer.new) = {}
           /\ writer.mask + 1 <= Len(memory[writer.new])
           /\ writer.new \in shared => writer.new = SharedEmpty(writer.mask + 1)
                                       /\ writer.then = "done"
           /\ writer.new \notin shared =>
                /\ memory[writer.new] = NewArray(writer.new, writer.mask + 1)
                /\ Len(memory[writer.new]) = writer.mask + 1
<1>1. /\ writer.mask + 1 \in Capacities /\ mask <= writer.mask
      /\ writer.new \in Addresses /\ writer.new \notin garbage_refs
      /\ writer.then \in {"place", "done"} /\ writer.mask \in Nat
      /\ writer.new \in shared => writer.new = SharedEmpty(writer.mask + 1)
                                  /\ writer.then = "done"
      /\ writer.new \notin shared =>
            memory[writer.new] = NewArray(writer.new, writer.mask + 1)
  BY WriterStart DEF InstallOK, NewArray, WriterType
<1>2. writer.mask >= 1 /\ writer.mask + 1 \in Nat \ {0} /\ writer.new # nil
  <2>1. writer.mask + 1 >= 2
    BY <1>1, CapacityFacts
  <2> QED
    BY <1>1, <2>1, Numbers
<1>3. CASE writer.new \in shared
  <2>1. memory[writer.new] # <<>> /\ Entries(writer.new) = {}
    BY <1>3, SharedUnused
  <2>2. Len(memory[SharedEmpty(writer.mask + 1)]) >= writer.mask + 1
    BY <1>1, <1>2, <1>3, WriterStart DEF SharedOK
  <2>3. Len(memory[writer.new]) \in Nat
    BY <1>1, ArrayFacts, WriterStart
  <2> QED
    BY <1>1, <1>2, <1>3, <2>1, <2>2, <2>3
<1>4. CASE writer.new \notin shared
  <2>1. Entries(writer.new) = {}
    BY <1>1, <1>2, <1>4, NewArrayNoEntries
  <2>2. Len(memory[writer.new]) = writer.mask + 1 /\ memory[writer.new] # <<>>
    BY <1>1, <1>2, <1>4, NewArrayFacts
  <2> QED
    BY <1>1, <1>2, <1>4, <2>1, <2>2
<1> QED
  BY <1>3, <1>4

\* The new array is installed first: with the old mask, readers see a part of it.
LEMMA StepSetBuckets == ASSUME CacheInv, setBuckets PROVE CacheInv'
<1>1. /\ writer.pc = "setBuckets" /\ buckets' = writer.new
      /\ writer' = [writer EXCEPT !.pc = "setMask"]
      /\ UNCHANGED <<mask, occupied, memory, garbage_refs, garbage_byte_size,
                     shouldUseRestartableRanges, reader, emptyBucketsList, imps, current>>
  BY DEF setBuckets, garbageVars, WriterStep
<1>2. /\ writer' \in WriterType /\ writer'.pc = "setMask" /\ writer'.changed = writer.changed
      /\ writer'.new = writer.new /\ writer'.mask = writer.mask /\ writer'.old = writer.old
      /\ writer'.then = writer.then /\ writer'.sel = writer.sel /\ writer'.imp = writer.imp
  BY <1>1, WriterStart DEF WriterType
<1>3. /\ writer.new \in Addresses /\ writer.new \notin garbage_refs
      /\ writer.mask \in Nat /\ writer.mask + 1 \in Capacities
      /\ mask <= writer.mask /\ memory[writer.new] # <<>> /\ Entries(writer.new) = {}
      /\ writer.mask + 1 <= Len(memory[writer.new])
  BY <1>1, InstallFacts
<1>4. /\ buckets # nil /\ buckets \in Addresses /\ memory[buckets] # <<>>
      /\ buckets \notin garbage_refs /\ mask \in Nat /\ (mask = 0 \/ mask + 1 \in Capacities)
  <2>1. buckets # nil
    BY <1>1, WriterStart
  <2> QED
    BY <2>1, CacheKinds
<1>5. /\ writer.new # buckets /\ writer.new # nil
      /\ writer.old = (IF buckets \in shared THEN nil ELSE buckets)
  BY <1>1, <1>3, WriterStart, Numbers DEF InstallOK
<1>6. shared' = shared /\ \A n : SharedEmpty(n)' = SharedEmpty(n)
  BY <1>1, SharedKept
<1>7. TypeOK'
  BY <1>1, <1>2, <1>3, WriterStart DEF TypeOK
<1>8. ArraysOK' /\ SharedOK'
  <2>1. ArraysOK'
    BY <1>1, WriterStart DEF ArraysOK
  <2> QED
    BY <1>1, <2>1, SharedStays, WriterStart
<1>9. CacheOK'
  <2>1. Len(memory[writer.new]) \in Nat
    BY <1>3, ArrayFacts, WriterStart
  <2>2. mask < Len(memory[writer.new])
    BY <1>3, <1>4, <2>1
  <2> QED
    BY <1>1, <1>2, <1>4, <2>2 DEF CacheOK
<1>10. WriterOK'
  <2>1. writer'.old # nil =>
            /\ writer'.old \notin shared' \cup {buckets'} \cup garbage_refs'
            /\ memory'[writer'.old] # <<>>
    BY <1>1, <1>2, <1>4, <1>5, <1>6
  <2>2. /\ writer'.mask + 1 \in Capacities /\ mask' <= writer'.mask
        /\ writer'.new \in Addresses \ garbage_refs' /\ writer'.then # nil
        /\ IF writer'.new \in shared'
           THEN writer'.new = SharedEmpty(writer.mask + 1)' /\ writer'.then = "done"
           ELSE memory'[writer'.new] = [Zeroed(writer'.mask + 1) EXCEPT
                                        ![writer'.mask + 1] = endMarker(writer'.new)]
    <3>1. SharedEmpty(writer.mask + 1)' = SharedEmpty(writer.mask + 1)
      BY <1>1, <1>2 DEF SharedEmpty
    <3>2. /\ writer.then \in {"place", "done"}
          /\ writer.new \in shared => writer.new = SharedEmpty(writer.mask + 1)
                                      /\ writer.then = "done"
          /\ writer.new \notin shared =>
                memory[writer.new] = NewArray(writer.new, writer.mask + 1)
      BY <1>1, InstallFacts
    <3>3. /\ writer'.mask + 1 \in Capacities /\ mask' <= writer'.mask
          /\ writer'.new \in Addresses \ garbage_refs' /\ writer'.then # nil
      BY <1>1, <1>2, <1>3, <3>2, UnlockedFacts
    <3>4. writer.new \notin shared =>
            memory'[writer'.new] = [Zeroed(writer'.mask + 1) EXCEPT
                                        ![writer'.mask + 1] = endMarker(writer'.new)]
      BY <1>1, <1>2, <3>2 DEF NewArray
    <3> QED
      BY <1>2, <1>6, <3>1, <3>2, <3>3, <3>4
  <2>3. InstallOK'
    BY <1>1, <1>2, <2>1, <2>2 DEF InstallOK
  <2>4. FillOK'
    BY <1>1, <1>2, WriterStart DEF FillOK, Filling
  <2> QED
    BY <1>1, <1>2, <1>5, <2>3, <2>4 DEF WriterOK
<1>11. ReadersOK'
  BY <1>1, <1>2, WriterStart, ReadersKept
<1>12. FreshOK'
  <2> SUFFICES ASSUME ~SignalsInLock PROVE CacheFresh' /\ \A t \in Readers : SendFresh(t)'
    BY DEF FreshOK
  <2>1. \A t \in Readers : SendFresh(t)'
    BY <1>1, <1>2, FreshKept
  <2>2. Entries(buckets)' = {}
    BY <1>1, <1>3 DEF Entries
  <2>3. CacheFresh'
    BY <2>2 DEF CacheFresh
  <2> QED
    BY <2>1, <2>3
<1>13. BlocksAccountedFor'
  <2>1. moving = {writer.new, writer.old} \ {nil} /\ moving' = moving /\ live' = live
    BY <1>1, <1>2 DEF moving, live
  <2>2. writer.new \in live \cup shared
    BY <1>3, SharedFacts, WriterStart DEF live, Addresses
  <2> QED
    BY <1>1, <1>2, <1>3, <1>4, <1>5, <1>6, <2>1, <2>2, WriterStart DEF BlocksAccountedFor
<1> QED
  BY <1>7, <1>8, <1>9, <1>10, <1>11, <1>12, <1>13 DEF CacheInv

\* Then the mask: readers that load it will load the new array.
LEMMA StepSetMask == ASSUME CacheInv, setMask PROVE CacheInv'
<1>1. /\ writer.pc = "setMask" /\ mask' = writer.mask /\ occupied' = 0
      /\ UNCHANGED <<buckets, memory, garbage_refs, garbage_byte_size,
                     shouldUseRestartableRanges, reader, emptyBucketsList, imps, current>>
  BY DEF setMask, garbageVars, WriterStep
<1>2. /\ writer.new \in Addresses /\ writer.new \notin garbage_refs
      /\ writer.mask \in Nat /\ writer.mask + 1 \in Capacities /\ writer.mask >= 1
      /\ mask <= writer.mask /\ memory[writer.new] # <<>> /\ Entries(writer.new) = {}
      /\ writer.mask + 1 <= Len(memory[writer.new]) /\ writer.then \in {"place", "done"}
      /\ writer.new \in shared => writer.new = SharedEmpty(writer.mask + 1)
                                  /\ writer.then = "done"
      /\ writer.new \notin shared =>
            /\ memory[writer.new] = NewArray(writer.new, writer.mask + 1)
            /\ Len(memory[writer.new]) = writer.mask + 1
  BY <1>1, InstallFacts
<1>3. /\ buckets # nil /\ writer.new = buckets /\ writer \in WriterType
      /\ writer.old # nil => /\ writer.old \notin shared \cup {buckets} \cup garbage_refs
                             /\ memory[writer.old] # <<>>
  BY <1>1, WriterStart DEF InstallOK
<1>4. /\ writer' \in WriterType /\ writer'.changed = writer.changed
      /\ writer'.sel = writer.sel /\ writer'.imp = writer.imp
      /\ \/ /\ writer.old = nil /\ writer'.pc = writer.then /\ writer'.then = nil
         \/ /\ writer.old # nil /\ writer'.pc = "collect_free" /\ writer'.then = writer.then
            /\ writer'.new = nil /\ writer'.old = writer.old
  <2>1. CASE writer.old = nil
    <3>1. writer' = Continue(writer)
      BY <2>1 DEF setMask
    <3>2. writer.then # nil
      BY <1>2, UnlockedFacts
    <3> QED
      BY <1>3, <2>1, <3>1, <3>2, ContinueFacts
  <2>2. CASE writer.old # nil
    <3>1. writer' = [writer EXCEPT !.pc = "collect_free", !.new = nil, !.mask = 0]
      BY <2>2 DEF setMask
    <3> QED
      BY <1>3, <2>2, <3>1 DEF WriterType
  <2> QED
    BY <2>1, <2>2
<1>5. writer'.pc \notin {"setBuckets", "setMask", "storeSel", "destroyed", "idle", "collect"}
  BY <1>2, <1>4
<1>6. shared' = shared /\ \A n : SharedEmpty(n)' = SharedEmpty(n)
  BY <1>1, SharedKept
<1>7. TypeOK'
  BY <1>1, <1>2, <1>4, WriterStart DEF TypeOK
<1>8. ArraysOK' /\ SharedOK'
  <2>1. ArraysOK'
    BY <1>1, WriterStart DEF ArraysOK
  <2> QED
    BY <1>1, <2>1, SharedStays, WriterStart
<1>9. Entries(buckets)' = {}
  BY <1>1, <1>2, <1>3 DEF Entries
<1>10. CacheOK'
  <2>1. mask' < Len(memory[buckets])
    <3>1. Len(memory[buckets]) \in Nat
      BY <1>2, <1>3, ArrayFacts, WriterStart
    <3> QED
      BY <1>1, <1>2, <1>3, <3>1
  <2>2. CASE buckets \in shared
    <3>1. capacity' = writer.mask + 1
      BY <1>1, <1>2 DEF capacity
    <3>2. SharedEmpty(capacity)' = SharedEmpty(writer.mask + 1)
      BY <1>1, <3>1 DEF SharedEmpty
    <3>3. isConstantEmptyCache'
      BY <1>1, <1>2, <1>3, <2>2, <3>2 DEF isConstantEmptyCache
    <3> QED
      BY <1>1, <1>2, <1>6, <2>1, <2>2, <3>3 DEF CacheOK
  <2>3. CASE buckets \notin shared
    <3>1. Owned'
      <4>1. /\ Len(memory[buckets]) = writer.mask + 1
            /\ \A i \in DOMAIN memory[buckets] :
                    memory[buckets][i].sel = 1 <=> i = writer.mask + 1
        <5> DEFINE n == writer.mask + 1
        <5>1. n \in Nat \ {0} /\ memory[buckets] = NewArray(buckets, n)
              /\ Len(memory[buckets]) = n /\ buckets \in Addresses
          BY <1>2, <1>3, <2>3
        <5> HIDE DEF n
        <5>2. \A i \in DOMAIN memory[buckets] : memory[buckets][i].sel = 1 <=> i = n
          BY <5>1, NewArrayFacts
        <5> QED
          BY <5>1, <5>2 DEF n
      <4>2. Cardinality(Entries(buckets)') = 0
        BY <1>9, FS_EmptySet
      <4> QED
        BY <1>1, <1>2, <1>5, <1>9, <4>1, <4>2 DEF Owned
    <3> QED
      BY <1>1, <1>6, <1>7, <2>3, <3>1, CacheOwnedNext
  <2> QED
    BY <2>2, <2>3
<1>11. WriterOK'
  <2>1. writer.then = "place" => buckets \notin shared
    BY <1>2, <1>3
  <2>2. InstallOK'
    BY <1>1, <1>2, <1>3, <1>4, <1>5, <1>6, <2>1, UnlockedFacts DEF InstallOK
  <2>3. FillOK'
    <3>1. Filling' => Filling
      BY <1>2, <1>4, <1>5, UnlockedFacts DEF Filling
    <3>2. writer'.pc = "place" => buckets' \notin shared' /\ occupied' < mask'
      BY <1>1, <1>2, <1>4, <1>6, <2>1
    <3> QED
      BY <1>1, <1>4, <1>5, <3>1, <3>2, WriterStart DEF FillOK
  <2> QED
    BY <1>1, <1>3, <1>5, <2>2, <2>3 DEF WriterOK
<1>12. ReadersOK'
  BY <1>1, <1>2, <1>5, WriterStart, ReadersKept
<1>13. FreshOK'
  <2> SUFFICES ASSUME ~SignalsInLock PROVE CacheFresh' /\ \A t \in Readers : SendFresh(t)'
    BY DEF FreshOK
  <2>1. \A t \in Readers : SendFresh(t)'
    BY <1>1, <1>4, FreshKept
  <2>2. CacheFresh'
    BY <1>9 DEF CacheFresh
  <2> QED
    BY <2>1, <2>2
<1>14. BlocksAccountedFor'
  <2>1. moving = {writer.new, writer.old} \ {nil} /\ live' = live
        /\ moving' = {writer.old} \ {nil}
    BY <1>1, <1>2, <1>4 DEF moving, live
  <2> QED
    BY <1>1, <1>3, <1>6, <2>1, WriterStart DEF BlocksAccountedFor
<1> QED
  BY <1>7, <1>8, <1>10, <1>11, <1>12, <1>13, <1>14 DEF CacheInv

-----------------------------------------------------------------------------
(* Filling a bucket.                                                       *)

\* When the cache is filled it is the cache's own, and has an unused bucket.
LEMMA FillFacts ==
    ASSUME CacheInv, writer.pc \in {"place", "storeSel"}
    PROVE  /\ buckets # nil /\ buckets \in Addresses /\ buckets \notin shared /\ Owned
           /\ mask \in Nat /\ occupied \in Nat
           /\ Len(memory[buckets]) = mask + 1 /\ DOMAIN memory[buckets] = 1 .. mask + 1
           /\ writer.sel \in Sels /\ writer.sel \in Nat /\ writer.sel > 1
           /\ writer.imp = imps[writer.sel] /\ writer.imp \in Imps /\ writer.changed = {}
<1>1. buckets # nil /\ writer.pc # "setMask"
  BY WriterStart
<1>2. /\ buckets \in Addresses /\ buckets \notin shared /\ Owned
      /\ mask \in Nat /\ occupied \in Nat
  BY <1>1, CacheKinds, WriterStart DEF FillOK
<1>3. Len(memory[buckets]) = mask + 1 /\ DOMAIN memory[buckets] = 1 .. mask + 1
  BY <1>2, ArrayFacts, WriterStart DEF Owned
<1>4. /\ writer.sel \in Sels /\ writer.imp = imps[writer.sel] /\ writer.changed = {}
  BY WriterStart DEF FillOK, Filling
<1> QED
  BY <1>1, <1>2, <1>3, <1>4, Numbers, WriterStart

\* insert() always finds a bucket: the cache is never full.
LEMMA RoomFacts ==
    ASSUME CacheInv, writer.pc = "place"
    PROVE  Slot(writer.sel) \in 0 .. mask
<1>1. /\ mask \in Nat /\ Owned /\ buckets \in Addresses /\ occupied \in Nat
      /\ DOMAIN memory[buckets] = 1 .. mask + 1 /\ writer.sel \in Nat
      /\ Len(memory[buckets]) = mask + 1
  BY FillFacts
<1>2. occupied < mask /\ occupied = Cardinality(Entries(buckets))
  <2>1. Cardinality(Entries(buckets)) \in Nat
    BY <1>1, EntriesFinite, WriterStart
  <2> QED
    BY <1>1, <2>1, WriterStart DEF FillOK, Owned
<1>3. /\ Slot(writer.sel) \in 0 .. mask + 1
      /\ \A x \in 0 .. mask : Bucket(buckets, x).sel \in {0, writer.sel} =>
                                Slot(writer.sel) <= mask
  BY <1>1, SlotFacts
<1>4. SUFFICES ASSUME ~(Slot(writer.sel) <= mask) PROVE FALSE
  BY <1>1, <1>3
<1>5. \A i \in 1 .. mask : memory[buckets][i].sel > 1
  <2> TAKE i \in 1 .. mask
  <2>1. i \in 1 .. mask + 1 /\ i # mask + 1 /\ i - 1 \in 0 .. mask /\ (i - 1) + 1 = i
    BY <1>1
  <2>2. memory[buckets][i].sel # 1
    BY <1>1, <2>1 DEF Owned
  <2>3. memory[buckets][i].sel # 0
    BY <1>3, <1>4, <2>1 DEF Bucket
  <2>4. memory[buckets][i].sel \in Nat
    BY <1>1, <2>1, ArrayFacts, WriterStart
  <2> QED
    BY <2>2, <2>3, <2>4
<1>6. 1 .. mask \subseteq Entries(buckets)
  <2>1. 1 .. mask \subseteq 1 .. mask + 1
    BY <1>1
  <2> QED
    BY <1>1, <1>5, <2>1 DEF Entries
<1>7. Cardinality(1 .. mask) <= Cardinality(Entries(buckets))
  BY <1>1, <1>6, EntriesFinite, FS_Subset, WriterStart
<1>8. Cardinality(1 .. mask) = mask
  <2>1. 1 \in Int /\ mask \in Int
    BY <1>1
  <2>2. Cardinality(1 .. mask) = IF 1 > mask THEN 0 ELSE mask - 1 + 1
    BY <2>1, FS_Interval
  <2> QED
    BY <1>1, <2>2
<1> QED
  BY <1>1, <1>2, <1>7, <1>8

\* One bucket that was unused is written.
Stores(z, e) == memory' = [memory EXCEPT ![buckets] = [@ EXCEPT ![z] = e]]

\* A store to one bucket of the cache changes nothing else.
LEMMA StoreFacts ==
    ASSUME CacheInv, writer.pc \in {"place", "storeSel"},
           NEW z \in 1 .. mask + 1, NEW e \in BucketType, Stores(z, e)
    PROVE  /\ memory' \in [Addresses -> Seq(BucketType)]
           /\ \A b \in Addresses : b # buckets => memory'[b] = memory[b]
           /\ \A b \in Addresses : /\ Len(memory'[b]) = Len(memory[b])
                                   /\ DOMAIN memory'[b] = DOMAIN memory[b]
                                   /\ memory'[b] = <<>> <=> memory[b] = <<>>
           /\ memory'[buckets][z] = e
           /\ \A i \in 1 .. mask + 1 : i # z => memory'[buckets][i] = memory[buckets][i]
<1>1. /\ buckets \in Addresses /\ Len(memory[buckets]) = mask + 1 /\ mask \in Nat
      /\ DOMAIN memory[buckets] = 1 .. mask + 1
  BY FillFacts
<1>2. memory \in [Addresses -> Seq(BucketType)]
  BY WriterStart DEF TypeOK, BucketType
<1> DEFINE a == [memory[buckets] EXCEPT ![z] = e]
<1>3. /\ a \in Seq(BucketType) /\ Len(a) = mask + 1 /\ DOMAIN a = 1 .. mask + 1 /\ a[z] = e
      /\ \A i \in 1 .. mask + 1 : i # z => a[i] = memory[buckets][i]
  <2>1. memory[buckets] \in Seq(BucketType)
    BY <1>1, <1>2
  <2> QED
    BY <1>1, <2>1
<1>4. memory' = [memory EXCEPT ![buckets] = a]
  BY DEF Stores
<1> HIDE DEF a
<1>5. /\ memory' \in [Addresses -> Seq(BucketType)] /\ memory'[buckets] = a
      /\ \A b \in Addresses : b # buckets => memory'[b] = memory[b]
  BY <1>1, <1>2, <1>3, <1>4
<1>6. a # <<>> /\ memory[buckets] # <<>>
  BY <1>1, <1>3
<1> QED
  BY <1>1, <1>3, <1>5, <1>6

\* A thread whose fill is over.
LEMMA ReaderFinished ==
    ASSUME CacheInv, NEW t \in Readers, reader[t].pc = "filling",
           reader'[t] = [reader[t] EXCEPT !.pc = "called"], UNCHANGED <<imps, current>>,
           writer'.changed \subseteq writer.changed
    PROVE  ReaderOK(t)' /\ (~SignalsInLock => SendFresh(t)')
<1>1. /\ reader'[t].pc = "called" /\ reader'[t].sel = reader[t].sel
      /\ reader'[t].b = reader[t].b /\ reader[t].sel \in Sels
  BY ReaderStart DEF ReaderType, ReaderOK
<1>2. ReaderOK(t)'
  BY <1>1 DEF ReaderOK, Loops
<1>3. ASSUME ~SignalsInLock PROVE SendFresh(t)'
  <2>1. MayFind(reader[t].sel) \subseteq current[t] /\ reader[t].b \in current[t]
    BY <1>3, ReaderStart DEF SendFresh
  <2>2. MayFind(reader[t].sel)' \subseteq current[t]
    BY <1>1, <2>1 DEF MayFind
  <2> QED
    BY <1>1, <2>1, <2>2 DEF SendFresh, Loops, MayFind
<1> QED
  BY <1>2, <1>3

\* What the readers see of the store.
LEMMA StoredReader ==
    ASSUME CacheInv, writer.pc \in {"place", "storeSel"}, NEW t \in Readers,
           NEW z \in 1 .. mask + 1, NEW e \in BucketType, Stores(z, e),
           memory[buckets][z].sel = 0, e.sel \in {0, writer.sel}, e.imp = writer.imp,
           reader'[t] = reader[t], UNCHANGED <<mask, imps, current>>,
           writer'.pc # "collect", writer'.changed = {}
    PROVE  ReaderOK(t)' /\ (~SignalsInLock => SendFresh(t)')
<1> DEFINE r == reader[t]
<1>1. /\ buckets \in Addresses /\ mask \in Nat /\ DOMAIN memory[buckets] = 1 .. mask + 1
      /\ writer.imp = imps[writer.sel] /\ writer.changed = {} /\ writer.sel > 1
  BY FillFacts
<1>2. /\ \A b \in Addresses : b # buckets => memory'[b] = memory[b]
      /\ \A b \in Addresses : /\ Len(memory'[b]) = Len(memory[b])
                              /\ DOMAIN memory'[b] = DOMAIN memory[b]
      /\ memory'[buckets][z] = e
      /\ \A i \in 1 .. mask + 1 : i # z => memory'[buckets][i] = memory[buckets][i]
  BY StoreFacts
<1>3. r \in ReaderType /\ ReaderOK(t) /\ (~SignalsInLock => SendFresh(t))
  BY ReaderStart
<1>4. ReaderOK(t)'
  <2>1. ASSUME r.pc \in Loops
        PROVE  /\ r.b \in Addresses /\ r.i < Len(memory'[r.b])
               /\ r.pc = "hit" => memory'[r.b][r.i + 1].sel = r.sel
               /\ r.pc = "wrap" => memory'[r.b][r.i + 1].sel = 1
    <3>1. /\ r.b \in Addresses /\ r.i + 1 \in 1 .. Len(memory[r.b]) /\ r.sel \in Sels
          /\ r.i < Len(memory[r.b])
          /\ r.pc = "hit" => memory[r.b][r.i + 1].sel = r.sel
          /\ r.pc = "wrap" => memory[r.b][r.i + 1].sel = 1
      BY <1>3, <2>1, ReaderFacts DEF ReaderOK, Bucket
    <3>2. r.sel # 0
      BY <3>1, Numbers
    <3>3. ASSUME r.pc \in {"hit", "wrap"} PROVE memory'[r.b][r.i + 1] = memory[r.b][r.i + 1]
      <4>1. memory[r.b][r.i + 1].sel # 0
        BY <3>1, <3>2, <3>3
      <4>2. CASE r.b = buckets
        <5>1. r.i + 1 # z /\ r.i + 1 \in 1 .. mask + 1
          BY <3>1, <4>1, <4>2, FillFacts
        <5> QED
          BY <1>2, <4>2, <5>1
      <4> QED
        BY <1>2, <3>1, <4>2
    <3> QED
      BY <1>2, <3>1, <3>3
  <2>2. r.pc = "buckets" => r.i <= mask'
    BY <1>3 DEF ReaderOK
  <2>3. r.pc # "idle" => r.sel \in Sels
    BY <1>3 DEF ReaderOK
  <2> QED
    BY <2>1, <2>2, <2>3 DEF ReaderOK, Bucket
<1>5. ASSUME ~SignalsInLock PROVE SendFresh(t)'
  <2>1. r.pc # "idle" => MayFind(r.sel) \subseteq current[t] /\ imps[r.sel] \in current[t]
    BY <1>3, <1>5 DEF SendFresh, MayFind
  <2>2. r.pc # "idle" => MayFind(r.sel)' \subseteq current'[t]
    BY <2>1 DEF MayFind
  <2>3. r.pc \in {"filling", "called"} => r.b \in current'[t]
    BY <1>3, <1>5 DEF SendFresh
  <2>4. ASSUME r.pc \in Loops, NEW i \in DOMAIN memory'[r.b], memory'[r.b][i].sel = r.sel
        PROVE  memory'[r.b][i].imp \in current[t]
    <3>1. r.b \in Addresses /\ r.sel \in Sels /\ r.sel # 0 /\ r.pc # "idle"
      BY <2>4, ReaderFacts, Numbers DEF Loops
    <3>2. i \in DOMAIN memory[r.b]
      BY <1>2, <3>1
    <3>3. CASE r.b = buckets /\ i = z
      <4>1. r.sel = writer.sel
        BY <1>2, <2>4, <3>1, <3>3
      <4> QED
        BY <1>1, <1>2, <2>1, <3>1, <3>3, <4>1
    <3>4. CASE ~(r.b = buckets /\ i = z)
      <4>1. memory'[r.b][i] = memory[r.b][i]
        BY <1>1, <1>2, <3>1, <3>2, <3>4
      <4> QED
        BY <1>3, <1>5, <2>4, <3>2, <4>1 DEF SendFresh
    <3> QED
      BY <3>3, <3>4
  <2> QED
    BY <2>2, <2>3, <2>4 DEF SendFresh, MayFind
<1> QED
  BY <1>4, <1>5

\* The arrays after the store.
LEMMA StoredArrays ==
    ASSUME CacheInv, writer.pc \in {"place", "storeSel"},
           NEW z \in 1 .. mask + 1, NEW e \in BucketType, Stores(z, e),
           memory[buckets][z].sel = 0, e.sel \in {0, writer.sel}, UNCHANGED emptyBucketsList,
           z = mask + 1 => e.sel = 0, UNCHANGED <<buckets, garbage_refs>>,
           writer'.pc \notin {"setBuckets", "setMask", "collect_free"}
    PROVE  /\ ArraysOK' /\ SharedOK' /\ BlocksAccountedFor' /\ shared' = shared
<1>1. /\ buckets \in Addresses /\ mask \in Nat /\ DOMAIN memory[buckets] = 1 .. mask + 1
      /\ writer.sel \in Sels /\ writer.sel > 1 /\ buckets \notin shared
      /\ Len(memory[buckets]) = mask + 1 /\ buckets # nil
  BY FillFacts
<1>2. /\ memory' \in [Addresses -> Seq(BucketType)]
      /\ \A b \in Addresses : b # buckets => memory'[b] = memory[b]
      /\ \A b \in Addresses : /\ Len(memory'[b]) = Len(memory[b])
                              /\ DOMAIN memory'[b] = DOMAIN memory[b]
                              /\ memory'[b] = <<>> <=> memory[b] = <<>>
      /\ memory'[buckets][z] = e
      /\ \A i \in 1 .. mask + 1 : i # z => memory'[buckets][i] = memory[buckets][i]
  BY StoreFacts
<1>3. shared' = shared /\ shared \subseteq Addresses
  BY SharedKept, SharedFacts, WriterStart
<1>4. ArraysOK'
  <2>1. \A i \in 1 .. mask + 1 : /\ memory[buckets][i].sel = 1 => memory[buckets][i].imp = buckets
                                 /\ memory[buckets][i].sel > 1 => memory[buckets][i].sel \in Sels
    BY <1>1, CacheKinds, WriterStart DEF ArraysOK
  <2>2. \A i \in DOMAIN memory'[buckets] :
            /\ memory'[buckets][i].sel = 1 => memory'[buckets][i].imp = buckets
            /\ memory'[buckets][i].sel > 1 => memory'[buckets][i].sel \in Sels
    <3> TAKE i \in DOMAIN memory'[buckets]
    <3>1. i \in 1 .. mask + 1
      BY <1>1, <1>2
    <3>2. CASE i = z
      <4>1. memory'[buckets][i].sel = e.sel /\ e.sel # 1
        BY <1>1, <1>2, <3>2
      <4> QED
        BY <1>1, <4>1
    <3>3. CASE i # z
      BY <1>2, <2>1, <3>1, <3>3
    <3> QED
      BY <3>2, <3>3
  <2>3. Last(memory'[buckets]).sel \in {0, 1}
    <3>1. Last(memory'[buckets]) = memory'[buckets][mask + 1]
      BY <1>1, <1>2 DEF Last
    <3>2. Last(memory[buckets]) = memory[buckets][mask + 1]
      BY <1>1 DEF Last
    <3>3. Last(memory[buckets]).sel \in {0, 1}
      BY <1>1, CacheKinds, WriterStart DEF ArraysOK
    <3> QED
      BY <1>1, <1>2, <3>1, <3>2, <3>3
  <2> QED
    BY <1>2, <2>2, <2>3, ArraysKept, WriterStart
<1>5. SharedOK'
  BY <1>1, <1>2, <1>3, SharedStays, WriterStart
<1>6. BlocksAccountedFor'
  <2>1. live' = live
    BY <1>2, Numbers DEF live
  <2>2. moving = {} /\ moving' = {}
    BY DEF moving
  <2>3. \A b \in shared' : \A i \in DOMAIN memory'[b] : memory'[b][i] = Unused
    BY <1>1, <1>2, <1>3, SharedUnused
  <2> QED
    BY <1>3, <2>1, <2>2, <2>3, WriterStart DEF BlocksAccountedFor
<1> QED
  BY <1>3, <1>4, <1>5, <1>6

\* The implementation is stored: the bucket is still unused.
LEMMA StepStoreImp == ASSUME CacheInv, StoreImp PROVE CacheInv'
<1>0. PICK s \in Sels : s = writer.sel
  BY FillFacts DEF StoreImp
<1>1. /\ writer.pc = "place" /\ s = writer.sel
      /\ UNCHANGED <<buckets, mask, garbage_refs, garbage_byte_size,
                     shouldUseRestartableRanges, emptyBucketsList, imps, current>>
  BY <1>0 DEF StoreImp, garbageVars, WriterStep
<1>2. /\ buckets # nil /\ buckets \in Addresses /\ buckets \notin shared /\ Owned
      /\ mask \in Nat /\ occupied \in Nat
      /\ Len(memory[buckets]) = mask + 1 /\ DOMAIN memory[buckets] = 1 .. mask + 1
      /\ s \in Nat /\ s > 1 /\ writer.imp = imps[s] /\ writer.imp \in Imps
      /\ writer.changed = {} /\ writer \in WriterType
  BY <1>1, FillFacts, WriterStart
<1>3. PICK i \in 0 .. mask : i = Slot(s)
  BY <1>1, RoomFacts
<1>4. /\ Bucket(buckets, i).sel \in {0, s} /\ i + 1 \in 1 .. mask + 1 /\ ~(i > mask)
      /\ Slot(writer.sel) = i
  <2>1. i <= mask /\ i + 1 \in 1 .. mask + 1 /\ ~(i > mask)
    BY <1>2
  <2>2. Slot(s) <= mask => Bucket(buckets, Slot(s)).sel \in {0, s}
    BY <1>2, SlotFacts
  <2> QED
    BY <1>1, <1>3, <2>1, <2>2
<1>5. CASE /\ Bucket(buckets, i).sel = 0
           /\ occupied' = occupied + 1
           /\ memory' = [memory EXCEPT ![buckets][i + 1].imp = writer.imp]
           /\ writer' = [writer EXCEPT !.pc = "storeSel"]
           /\ UNCHANGED reader
  <2> DEFINE e == [sel |-> 0, imp |-> writer.imp]
             z == i + 1
  <2>1. e \in BucketType /\ e.sel = 0 /\ e.imp = writer.imp
    BY <1>2 DEF BucketType
  <2>2. /\ writer' \in WriterType /\ writer'.pc = "storeSel" /\ writer'.changed = {}
        /\ writer'.sel = s /\ writer'.imp = imps[s] /\ writer'.then = writer.then
    BY <1>1, <1>2, <1>5 DEF WriterType
  <2>3. z \in 1 .. mask + 1 /\ memory[buckets][z].sel = 0
    BY <1>4, <1>5 DEF Bucket
  <2>4. Stores(z, e)
    <3>1. memory[buckets][z] = [sel |-> memory[buckets][z].sel, imp |-> memory[buckets][z].imp]
      BY <1>2, <2>3, ArrayFacts, WriterStart
    <3>2. [memory[buckets][z] EXCEPT !.imp = writer.imp] = e
      BY <2>3, <3>1
    <3>3. memory' = [memory EXCEPT ![buckets] =
                        [memory[buckets] EXCEPT ![z] =
                            [memory[buckets][z] EXCEPT !.imp = writer.imp]]]
      BY <1>2, <1>5, <2>3, WriterStart DEF TypeOK
    <3>4. memory' = [memory EXCEPT ![buckets] = [memory[buckets] EXCEPT ![z] = e]]
      BY <3>2, <3>3
    <3> QED
      BY <3>4 DEF Stores
  <2> HIDE DEF e, z
  <2>5. /\ memory' \in [Addresses -> Seq(BucketType)]
        /\ Len(memory'[buckets]) = mask + 1 /\ DOMAIN memory'[buckets] = 1 .. mask + 1
        /\ memory'[buckets][z] = e
        /\ \A k \in 1 .. mask + 1 : k # z => memory'[buckets][k] = memory[buckets][k]
    BY <1>1, <1>2, <2>1, <2>3, <2>4, StoreFacts
  <2>6. \A k \in 1 .. mask + 1 : memory'[buckets][k].sel = memory[buckets][k].sel
    BY <2>1, <2>3, <2>5
  <2>7. ASSUME NEW u \in Nat PROVE Slot(u)' = Slot(u)
    <3>1. \A x \in 0 .. mask : x + 1 \in 1 .. mask + 1
      BY <1>2
    <3>2. \A x \in 0 .. mask : memory[buckets][x + 1].sel \in {0, u} <=>
                               memory'[buckets'][x + 1].sel \in {0, u}
      BY <1>1, <2>6, <3>1
    <3> QED
      BY <1>1, <1>2, <3>2, SlotSame
  <2>8. Entries(buckets)' = Entries(buckets)
    BY <1>1, <1>2, <2>5, <2>6 DEF Entries
  <2>9. Slot(s)' = i /\ Slot(writer.sel)' = i
    BY <1>1, <1>2, <1>3, <2>2, <2>7
  <2>10. TypeOK'
    <3>1. occupied' \in Nat
      BY <1>2, <1>5
    <3> QED
      BY <1>1, <1>2, <1>5, <2>2, <2>5, <3>1, WriterStart DEF TypeOK, BucketType
  <2>11. ArraysOK' /\ SharedOK' /\ BlocksAccountedFor' /\ shared' = shared
    BY <1>1, <2>1, <2>2, <2>3, <2>4, StoredArrays
  <2>12. Owned'
    <3>1. \A k \in Entries(buckets)' : Slot(memory[buckets][k].sel)' + 1 = k
      <4> TAKE k \in Entries(buckets)'
      <4>1. k \in Entries(buckets) /\ k \in 1 .. mask + 1
        BY <1>2, <2>8 DEF Entries
      <4>2. PICK u \in Nat : u = memory[buckets][k].sel
        BY <1>2, <4>1, ArrayFacts, WriterStart
      <4>3. memory'[buckets'][k].sel = u
        BY <1>1, <2>6, <4>1, <4>2
      <4>4. Slot(u) + 1 = k
        BY <1>2, <4>1, <4>2 DEF Owned
      <4>5. Slot(u)' = Slot(u)
        BY <2>7
      <4> QED
        BY <4>3, <4>4, <4>5
    <3>2. occupied = Cardinality(Entries(buckets))
      <4>1. Cardinality(Entries(buckets)) \in Nat
        BY <1>2, EntriesFinite, WriterStart
      <4> QED
        BY <1>1, <1>2, <4>1 DEF Owned
    <3>3. \A k \in 1 .. mask + 1 : memory'[buckets][k].sel = 1 <=> k = mask + 1
      BY <1>2, <2>6 DEF Owned
    <3> QED
      BY <1>1, <1>2, <1>5, <2>2, <2>5, <2>8, <3>1, <3>2, <3>3 DEF Owned
  <2>13. CacheOK'
    BY <1>1, <1>2, <2>10, <2>11, <2>12, CacheOwnedNext
  <2>14. WriterOK'
    <3>1. InstallOK'
      BY <2>2 DEF InstallOK
    <3>2. Bucket(buckets, Slot(writer.sel))' = e
      BY <1>1, <2>5, <2>9 DEF Bucket, z
    <3>3. FillOK'
      BY <1>1, <1>2, <2>2, <2>9, <2>11, <3>2 DEF FillOK, e
    <3> QED
      BY <1>1, <1>2, <2>2, <3>1, <3>3 DEF WriterOK
  <2>15. \A t \in Readers : ReaderOK(t)' /\ (~SignalsInLock => SendFresh(t)')
    BY <1>1, <1>5, <2>1, <2>2, <2>3, <2>4, StoredReader
  <2>16. FreshOK'
    <3> SUFFICES ASSUME ~SignalsInLock PROVE CacheFresh'
      BY <2>15 DEF FreshOK
    <3>1. ASSUME NEW k \in Entries(buckets)'
          PROVE  memory'[buckets'][k].imp \in MayFind(memory[buckets][k].sel)'
      <4>1. k \in Entries(buckets) /\ k \in 1 .. mask + 1 /\ k # z
        BY <1>2, <2>3, <2>8, <3>1 DEF Entries
      <4>2. memory[buckets][k].imp \in MayFind(memory[buckets][k].sel)
        BY <1>2, <4>1, WriterStart DEF FreshOK, CacheFresh
      <4> QED
        BY <1>1, <1>2, <2>2, <2>5, <4>1, <4>2 DEF MayFind
    <3> QED
      BY <2>2, <3>1 DEF CacheFresh
  <2> QED
    BY <2>10, <2>11, <2>13, <2>14, <2>15, <2>16 DEF CacheInv, ReadersOK
<1>6. CASE Finish /\ UNCHANGED <<occupied, memory>>
  <2>1. /\ writer' = Unlocked /\ UNCHANGED <<cacheVars, memory, emptyBucketsList, garbage_refs>>
        /\ writer'.pc = "idle" /\ writer'.changed = {} /\ writer'.then = nil
        /\ writer.pc \notin Places /\ writer'.pc \notin Places
    BY <1>1, <1>6, UnlockedFacts DEF Finish, cacheVars, Places
  <2>2. \A t \in Readers : \/ reader'[t] = reader[t]
                           \/ reader[t].pc = "filling"
                              /\ reader'[t] = [reader[t] EXCEPT !.pc = "called"]
    BY <1>6 DEF Finish
  <2>3. reader' \in [Readers -> ReaderType]
    BY <1>6, WriterStart DEF Finish, ReaderType
  <2>4. TypeOK'
    BY <1>1, <1>6, <2>1, <2>3, UnlockedFacts, WriterStart DEF TypeOK
  <2>5. WriterOK'
    <3>1. ~Filling'
      BY <2>1, UnlockedFacts DEF Filling
    <3> QED
      BY <2>1, <3>1, WriterKept
  <2>6. ASSUME NEW t \in Readers PROVE ReaderOK(t)' /\ (~SignalsInLock => SendFresh(t)')
    <3>1. CASE reader'[t] = reader[t]
      <4>1. ReaderOK(t)'
        BY <1>1, <1>2, <1>6, <2>1, <3>1, ReaderKept
      <4>2. ASSUME ~SignalsInLock PROVE SendFresh(t)'
        <5>1. SendFresh(t)
          BY <4>2, ReaderStart
        <5>2. reader[t].pc # "idle" => MayFind(reader[t].sel)' \subseteq current'[t]
          BY <1>1, <2>1, <3>1, <5>1 DEF SendFresh, MayFind
        <5> QED
          BY <1>1, <1>6, <3>1, <5>1, <5>2, SendKept
      <4> QED
        BY <4>1, <4>2
    <3>2. CASE reader[t].pc = "filling" /\ reader'[t] = [reader[t] EXCEPT !.pc = "called"]
      BY <1>1, <2>1, <3>2, ReaderFinished
    <3> QED
      BY <2>2, <3>1, <3>2
  <2>7. FreshOK'
    <3> SUFFICES ASSUME ~SignalsInLock PROVE CacheFresh'
      BY <2>6 DEF FreshOK
    <3> QED
      BY <1>1, <1>2, <1>6, <2>1, WriterStart DEF FreshOK, CacheFresh, Entries, MayFind
  <2> QED
    BY <2>1, <2>4, <2>5, <2>6, <2>7, DataKept DEF CacheInv, ReadersOK
<1> QED
  BY <1>4, <1>5, <1>6 DEF StoreImp

\* The selector is stored: the bucket is an entry.
LEMMA StepStoreSel == ASSUME CacheInv, StoreSel PROVE CacheInv'
<1>0. PICK s \in Sels : s = writer.sel
  BY FillFacts DEF StoreSel
<1>1. /\ writer.pc = "storeSel" /\ s = writer.sel
      /\ UNCHANGED <<buckets, mask, occupied, garbage_refs, garbage_byte_size,
                     shouldUseRestartableRanges, emptyBucketsList, imps, current>>
      /\ Finish
  BY <1>0 DEF StoreSel, garbageVars, WriterStep
<1>2. /\ buckets # nil /\ buckets \in Addresses /\ buckets \notin shared /\ Owned
      /\ mask \in Nat /\ occupied \in Nat
      /\ Len(memory[buckets]) = mask + 1 /\ DOMAIN memory[buckets] = 1 .. mask + 1
      /\ s \in Nat /\ s > 1 /\ writer.imp = imps[s] /\ writer.imp \in Imps
      /\ writer.changed = {} /\ writer \in WriterType
  BY <1>1, FillFacts, WriterStart
<1>3. /\ Slot(s) <= mask /\ Bucket(buckets, Slot(s)) = [sel |-> 0, imp |-> writer.imp]
  BY <1>1, WriterStart DEF FillOK
<1>4. PICK i \in 0 .. mask : i = Slot(s)
  BY <1>2, <1>3, SlotFacts
<1>5. PICK z \in 1 .. mask + 1 : z = i + 1
  BY <1>2
<1>6. /\ memory[buckets][z] = [sel |-> 0, imp |-> writer.imp]
      /\ memory' = [memory EXCEPT ![buckets][z].sel = writer.sel]
  BY <1>1, <1>3, <1>4, <1>5 DEF Bucket, StoreSel
<1> DEFINE f == [sel |-> writer.sel, imp |-> writer.imp]
<1>7. PICK e \in BucketType : e = f /\ e.sel = s /\ e.imp = imps[s] /\ e.imp = writer.imp
  <2>1. f \in BucketType
    BY <1>1, <1>2 DEF BucketType
  <2>2. f.sel = s /\ f.imp = imps[s] /\ f.imp = writer.imp
    BY <1>1, <1>2
  <2> QED
    BY <2>1, <2>2
<1>8. Stores(z, e)
  <2>1. [memory[buckets][z] EXCEPT !.sel = writer.sel] = e
    BY <1>6, <1>7
  <2>2. memory' = [memory EXCEPT ![buckets] =
                      [memory[buckets] EXCEPT ![z] =
                          [memory[buckets][z] EXCEPT !.sel = writer.sel]]]
    BY <1>2, <1>6, WriterStart DEF TypeOK
  <2>3. memory' = [memory EXCEPT ![buckets] = [memory[buckets] EXCEPT ![z] = e]]
    BY <2>1, <2>2
  <2> QED
    BY <2>3 DEF Stores
<1> HIDE DEF f
<1>9. /\ writer' = Unlocked /\ writer' \in WriterType /\ writer'.pc = "idle"
      /\ writer'.changed = {} /\ writer'.then = nil /\ ~Filling'
  BY <1>1, UnlockedFacts DEF Finish, Filling
<1>10. /\ memory' \in [Addresses -> Seq(BucketType)]
       /\ Len(memory'[buckets]) = mask + 1 /\ DOMAIN memory'[buckets] = 1 .. mask + 1
       /\ memory'[buckets][z] = e
       /\ \A k \in 1 .. mask + 1 : k # z => memory'[buckets][k] = memory[buckets][k]
  BY <1>1, <1>2, <1>8, StoreFacts
<1>11. z # mask + 1 /\ memory[buckets][z].sel = 0
  <2>1. memory[buckets][z].sel = 0
    BY <1>6
  <2> QED
    BY <1>2, <2>1 DEF Owned
<1>12. ArraysOK' /\ SharedOK' /\ BlocksAccountedFor' /\ shared' = shared
  BY <1>1, <1>7, <1>8, <1>9, <1>11, StoredArrays
<1>13. \A t \in Readers : \/ reader'[t] = reader[t]
                          \/ reader[t].pc = "filling"
                             /\ reader'[t] = [reader[t] EXCEPT !.pc = "called"]
  BY <1>1 DEF Finish
<1>14. reader' \in [Readers -> ReaderType]
  BY <1>1, WriterStart DEF Finish, ReaderType
<1>15. TypeOK'
  BY <1>1, <1>9, <1>10, <1>14, WriterStart DEF TypeOK, BucketType
<1>16. Slot(s)' = i /\ \A u \in Nat \ {0} : u # s /\ Slot(u) <= mask
                             /\ memory[buckets][Slot(u) + 1].sel = u => Slot(u)' = Slot(u)
  <2>1. \A x \in 0 .. mask : x + 1 \in 1 .. mask + 1
    BY <1>2
  <2>2. \A x \in 0 .. mask : x # Slot(s) => memory'[buckets'][x + 1].sel = memory[buckets][x + 1].sel
    <3> TAKE x \in 0 .. mask
    <3>1. x # Slot(s) => x + 1 # z
      BY <1>2, <1>4, <1>5
    <3> QED
      BY <1>1, <1>10, <2>1, <3>1
  <2>3. memory[buckets][Slot(s) + 1].sel = 0 /\ memory'[buckets'][Slot(s) + 1].sel = s
    BY <1>1, <1>4, <1>5, <1>7, <1>10, <1>11
  <2>4. s \in Nat \ {0}
    BY <1>2
  <2> QED
    BY <1>1, <1>2, <1>3, <1>4, <2>2, <2>3, <2>4, SlotAfterStore
<1>17. Entries(buckets)' = Entries(buckets) \cup {z} /\ z \notin Entries(buckets)
  <2>1. z \notin Entries(buckets)
    BY <1>11 DEF Entries
  <2>2. \A k \in 1 .. mask + 1 : memory'[buckets][k].sel > 1 <=>
                                    memory[buckets][k].sel > 1 \/ k = z
    BY <1>2, <1>7, <1>10
  <2> QED
    BY <1>1, <1>2, <1>10, <2>1, <2>2 DEF Entries
<1>18. Owned'
  <2>1. \A k \in Entries(buckets)' : Slot(memory[buckets][k].sel)' + 1 = k
    <3> TAKE k \in Entries(buckets)'
    <3>1. CASE k = z
      <4>1. memory'[buckets'][k].sel = s
        BY <1>1, <1>7, <1>10, <3>1
      <4> QED
        BY <1>5, <1>16, <3>1, <4>1
    <3>2. CASE k # z
      <4>1. k \in Entries(buckets) /\ k \in 1 .. mask + 1
        BY <1>2, <1>17, <3>2 DEF Entries
      <4>2. PICK u \in Nat : u = memory[buckets][k].sel /\ u > 1
        BY <1>2, <4>1, ArrayFacts, WriterStart DEF Entries
      <4>3. memory'[buckets'][k].sel = u
        BY <1>1, <1>10, <3>2, <4>1, <4>2
      <4>4. Slot(u) + 1 = k
        BY <1>2, <4>1, <4>2 DEF Owned
      <4>5. u # s
        BY <1>4, <1>5, <3>2, <4>4
      <4>6. Slot(u) <= mask /\ memory[buckets][Slot(u) + 1].sel = u /\ u \in Nat \ {0}
        <5>1. Slot(u) \in 0 .. mask + 1
          BY <1>2, SlotFacts
        <5> QED
          BY <1>2, <4>1, <4>2, <4>4, <5>1
      <4>7. Slot(u)' = Slot(u)
        BY <1>16, <4>5, <4>6
      <4> QED
        BY <4>3, <4>4, <4>7
    <3> QED
      BY <3>1, <3>2
  <2>2. Cardinality(Entries(buckets)') = Cardinality(Entries(buckets)) + 1
    BY <1>2, <1>17, EntriesFinite, FS_AddElement, WriterStart
  <2>3. occupied = Cardinality(Entries(buckets)) + 1
    BY <1>1, <1>2 DEF Owned
  <2>4. \A k \in 1 .. mask + 1 : memory'[buckets][k].sel = 1 <=> k = mask + 1
    <3> TAKE k \in 1 .. mask + 1
    <3>1. memory[buckets][k].sel = 1 <=> k = mask + 1
      BY <1>2 DEF Owned
    <3>2. CASE k = z
      BY <1>2, <1>7, <1>10, <1>11, <3>2
    <3>3. CASE k # z
      BY <1>10, <3>1, <3>3
    <3> QED
      BY <3>2, <3>3
  <2>5. Cardinality(Entries(buckets)) \in Nat
    BY <1>2, EntriesFinite, WriterStart
  <2>6. occupied' = Cardinality(Entries(buckets)') + 0
    BY <1>1, <2>2, <2>3, <2>5
  <2> QED
    BY <1>1, <1>2, <1>9, <1>10, <2>1, <2>4, <2>6 DEF Owned
<1>19. CacheOK'
  BY <1>1, <1>2, <1>12, <1>15, <1>18, CacheOwnedNext
<1>20. WriterOK'
  BY <1>1, <1>2, <1>9 DEF WriterOK, InstallOK, FillOK
<1>2a. ASSUME NEW t \in Readers PROVE ReaderOK(t)' /\ (~SignalsInLock => SendFresh(t)')
  <2>1. CASE reader'[t] = reader[t]
    BY <1>1, <1>7, <1>8, <1>9, <1>11, <2>1, StoredReader
  <2>2. CASE reader[t].pc = "filling" /\ reader'[t] = [reader[t] EXCEPT !.pc = "called"]
    BY <1>1, <1>9, <2>2, ReaderFinished
  <2> QED
    BY <1>13, <2>1, <2>2
<1>22. FreshOK'
  <2> SUFFICES ASSUME ~SignalsInLock PROVE CacheFresh'
    BY <1>2a DEF FreshOK
  <2>1. ASSUME NEW k \in Entries(buckets)'
        PROVE  memory'[buckets'][k].imp \in MayFind(memory[buckets][k].sel)'
    <3>1. CASE k = z
      BY <1>1, <1>7, <1>10, <3>1 DEF MayFind
    <3>2. CASE k # z
      <4>1. k \in Entries(buckets) /\ k \in 1 .. mask + 1
        BY <1>2, <1>17, <2>1, <3>2 DEF Entries
      <4>2. memory[buckets][k].imp \in MayFind(memory[buckets][k].sel)
        BY <1>2, <4>1, WriterStart DEF FreshOK, CacheFresh
      <4> QED
        BY <1>1, <1>2, <1>9, <1>10, <3>2, <4>1, <4>2 DEF MayFind
    <3> QED
      BY <3>1, <3>2
  <2> QED
    BY <1>9, <2>1 DEF CacheFresh
<1> QED
  BY <1>12, <1>15, <1>19, <1>20, <1>2a, <1>22 DEF CacheInv, ReadersOK

-----------------------------------------------------------------------------
(* Flushing.                                                               *)

\* The list of shared arrays grows up to the capacity asked for.
GrownList(n, a) ==
    [k \in 1 .. log2u(n) + 1 |-> IF k <= Len(emptyBucketsList) THEN emptyBucketsList[k] ELSE a]

\* emptyBucketsForCapacity() keeps what it has handed out, and the new array is as large
\* as any capacity it will be handed out for.
LEMMA ListGrows ==
    ASSUME TypeOK, NEW n \in Capacities, SharedEmpty(n) = nil, NEW a \in Blocks,
           emptyBucketsList' = GrownList(n, a)
    PROVE  /\ emptyBucketsList' \in Seq(Blocks) /\ emptyBucketsList' # emptyBucketsList
           /\ shared' = shared \cup {a} /\ SharedEmpty(n)' = a
           /\ \A m \in Capacities \cup {0} :
                SharedEmpty(m)' = SharedEmpty(m) \/ (SharedEmpty(m)' = a /\ m <= n)
           /\ \A m \in Capacities \cup {0} : SharedEmpty(m) # nil => SharedEmpty(m)' = SharedEmpty(m)
<1> DEFINE l == log2u(n)
<1>1. /\ l \in Nat /\ n \in Nat /\ \A m \in Capacities : log2u(m) \in Nat /\ m \in Nat
      /\ \A m \in Capacities : n < m => l < log2u(m)
  BY LogOf, LogGrows
<1>2. /\ emptyBucketsList \in Seq(Blocks) /\ Len(emptyBucketsList) \in Nat
      /\ DOMAIN emptyBucketsList = 1 .. Len(emptyBucketsList)
      /\ \A k \in 1 .. Len(emptyBucketsList) : emptyBucketsList[k] \in Blocks
      /\ nil \notin Blocks /\ nil # _objc_empty_cache /\ EMPTY_CAPACITY \in Nat
  <2>1. emptyBucketsList \in Seq(Blocks)
    BY DEF TypeOK
  <2> QED
    BY <2>1, Numbers
<1> HIDE DEF l
<1>3. ~(n <= EMPTY_CAPACITY + 1) /\ l >= Len(emptyBucketsList)
  <2>1. ~(n <= EMPTY_CAPACITY + 1)
    BY <1>2 DEF SharedEmpty
  <2>2. ASSUME ~(l >= Len(emptyBucketsList)) PROVE FALSE
    <3>1. SharedEmpty(n) = emptyBucketsList[l + 1]
      BY <2>1, <2>2 DEF SharedEmpty, l
    <3>2. l + 1 \in 1 .. Len(emptyBucketsList)
      BY <1>1, <1>2, <2>2
    <3> QED
      BY <1>2, <3>1, <3>2
  <2> QED
    BY <2>1, <2>2
<1> DEFINE g == emptyBucketsList'
<1>4. g = [k \in 1 .. l + 1 |-> IF k <= Len(emptyBucketsList) THEN emptyBucketsList[k] ELSE a]
  BY DEF GrownList, l
<1> HIDE DEF g
<1>5. /\ g \in Seq(Blocks) /\ Len(g) = l + 1 /\ DOMAIN g = 1 .. l + 1
      /\ \A k \in 1 .. Len(emptyBucketsList) : k \in 1 .. l + 1 /\ g[k] = emptyBucketsList[k]
      /\ \A k \in 1 .. l + 1 : k > Len(emptyBucketsList) => g[k] = a
  <2>1. \A k \in 1 .. l + 1 : k <= Len(emptyBucketsList) => k \in 1 .. Len(emptyBucketsList)
    BY <1>1, <1>2
  <2>2. \A k \in 1 .. l + 1 :
            (IF k <= Len(emptyBucketsList) THEN emptyBucketsList[k] ELSE a) \in Blocks
    BY <1>2, <2>1
  <2>3. g \in Seq(Blocks) /\ Len(g) = l + 1 /\ DOMAIN g = 1 .. l + 1
    BY <1>1, <1>4, <2>2
  <2>4. \A k \in 1 .. Len(emptyBucketsList) : k \in 1 .. l + 1 /\ g[k] = emptyBucketsList[k]
    BY <1>1, <1>2, <1>3, <1>4
  <2>5. \A k \in 1 .. l + 1 : k > Len(emptyBucketsList) => g[k] = a
    BY <1>1, <1>2, <1>4
  <2> QED
    BY <2>3, <2>4, <2>5
<1>6. g # emptyBucketsList
  BY <1>1, <1>2, <1>3, <1>5
<1>7. shared' = shared \cup {a}
  <2>1. l + 1 \in 1 .. l + 1 /\ g[l + 1] = a
    BY <1>1, <1>2, <1>3, <1>5
  <2>2. \A k \in 1 .. l + 1 : g[k] = a \/ (k \in 1 .. Len(emptyBucketsList) /\ g[k] = emptyBucketsList[k])
    BY <1>1, <1>2, <1>5
  <2>3. shared' = {g[k] : k \in 1 .. l + 1} \cup {_objc_empty_cache}
    BY <1>5 DEF shared, ToSet, g
  <2>4. shared = {emptyBucketsList[k] : k \in 1 .. Len(emptyBucketsList)} \cup {_objc_empty_cache}
    BY <1>2 DEF shared, ToSet
  <2>5. \A x \in shared' : x \in shared \cup {a}
    BY <2>2, <2>3, <2>4
  <2>6. \A x \in shared \cup {a} : x \in shared'
    BY <1>5, <2>1, <2>3, <2>4
  <2> QED
    BY <2>5, <2>6
<1>8. ASSUME NEW m \in Capacities \cup {0}
      PROVE  /\ SharedEmpty(m)' = SharedEmpty(m) \/ (SharedEmpty(m)' = a /\ m <= n)
             /\ SharedEmpty(m) # nil => SharedEmpty(m)' = SharedEmpty(m)
             /\ m = n => SharedEmpty(m)' = a
  <2>1. CASE m <= EMPTY_CAPACITY + 1
    BY <1>3, <2>1 DEF SharedEmpty
  <2>2. CASE ~(m <= EMPTY_CAPACITY + 1)
    <3>1. m \in Capacities
      BY <1>2, <2>2
    <3> DEFINE k == log2u(m)
    <3>2. /\ SharedEmpty(m) = IF k >= Len(emptyBucketsList) THEN nil ELSE emptyBucketsList[k + 1]
          /\ SharedEmpty(m)' = IF k >= Len(g) THEN nil ELSE g[k + 1]
      BY <2>2 DEF SharedEmpty, g
    <3>3. k \in Nat /\ m \in Nat /\ (n < m => l < k) /\ (m = n => k = l)
      BY <1>1, <3>1 DEF l
    <3> HIDE DEF k
    <3>4. CASE k >= l + 1
      <4>1. k >= Len(emptyBucketsList) /\ k # l
        BY <1>1, <1>2, <1>3, <3>3, <3>4
      <4> QED
        BY <1>5, <3>2, <3>3, <3>4, <4>1
    <3>5. CASE k < l + 1 /\ k >= Len(emptyBucketsList)
      <4>1. k + 1 \in 1 .. l + 1 /\ k + 1 > Len(emptyBucketsList) /\ ~(k >= l + 1) /\ m <= n
        BY <1>1, <1>2, <3>3, <3>5
      <4> QED
        BY <1>5, <3>2, <3>5, <4>1
    <3>6. CASE k < Len(emptyBucketsList)
      <4>1. k + 1 \in 1 .. Len(emptyBucketsList) /\ ~(k >= Len(emptyBucketsList))
            /\ ~(k >= l + 1) /\ k # l
        BY <1>1, <1>2, <1>3, <3>3, <3>6
      <4> QED
        BY <1>5, <3>2, <3>3, <4>1
    <3> QED
      BY <1>1, <1>2, <3>3, <3>4, <3>5, <3>6
  <2> QED
    BY <2>1, <2>2
<1> QED
  BY <1>5, <1>6, <1>7, <1>8 DEF g

\* The cache is emptied: shared empty buckets are installed.
LEMMA StepErase ==
    ASSUME CacheInv, writer.pc \in {"idle", "shouldFlush"}, eraseNolock(writer, "done"),
           UNCHANGED <<cacheVars, garbageVars, imps, reader, current>>
    PROVE  CacheInv'
<1>1. /\ UNCHANGED <<buckets, mask, occupied, garbage_refs, garbage_byte_size,
                     shouldUseRestartableRanges, imps, reader, current>>
      /\ writer.pc \notin Places /\ writer.pc # "setMask" /\ writer.pc # "storeSel"
      /\ writer.pc # "collect_free" /\ writer.pc # "setBuckets"
  BY DEF cacheVars, garbageVars, Places
<1>2. /\ buckets # nil /\ buckets \in Addresses /\ memory[buckets] # <<>>
      /\ buckets \notin garbage_refs /\ mask \in Nat /\ occupied \in Nat
      /\ buckets \in shared => occupied = 0
      /\ buckets \notin shared => Owned
      /\ writer \in WriterType
  <2>1. buckets # nil
    BY <1>1, WriterStart
  <2> QED
    BY <1>1, <2>1, CacheKinds, WriterStart
<1>3. CASE /\ occupied = 0
           /\ writer' = [writer EXCEPT !.pc = "done"]
           /\ UNCHANGED <<emptyBucketsList, memory>>
  <2>1. /\ writer' \in WriterType /\ writer'.pc = "done" /\ writer'.changed = writer.changed
        /\ writer'.sel = writer.sel /\ writer'.imp = writer.imp /\ writer'.then = writer.then
    BY <1>2, <1>3 DEF WriterType
  <2>2. writer'.pc \notin Places
    BY <2>1 DEF Places
  <2>3. TypeOK'
    BY <1>1, <1>3, <2>1, WriterStart DEF TypeOK
  <2>4. WriterOK'
    <3>1. Filling' => Filling
      BY <2>1 DEF Filling
    <3>2. Filling' => /\ writer'.sel \in Sels /\ writer'.imp = imps'[writer'.sel]
                      /\ writer'.changed = {}
      BY <1>1, <2>1, <3>1, WriterStart DEF FillOK
    <3> QED
      BY <1>1, <1>3, <2>1, <2>2, <3>2, WriterKept
  <2>5. ReadersOK'
    BY <1>1, <1>2, <1>3, <2>1, ReadersKept
  <2>6. FreshOK'
    <3> SUFFICES ASSUME ~SignalsInLock PROVE CacheFresh' /\ \A t \in Readers : SendFresh(t)'
      BY DEF FreshOK
    <3>1. \A t \in Readers : SendFresh(t)'
      BY <1>1, <1>3, <2>1, FreshKept
    <3>2. Entries(buckets)' = {}
      BY <1>1, <1>3, NoEntries DEF Entries
    <3>3. CacheFresh'
      BY <3>2 DEF CacheFresh
    <3> QED
      BY <3>1, <3>3
  <2> QED
    BY <1>1, <1>3, <2>2, <2>3, <2>4, <2>5, <2>6, DataKept DEF CacheInv
<1>4. CASE /\ occupied > 0
           /\ SharedEmpty(capacity) # nil \/ Free # {}
           /\ LET e == emptyBucketsForCapacity(capacity) IN
              /\ emptyBucketsList' = e[2]
              /\ memory' = IF e[2] = emptyBucketsList THEN memory
                           ELSE [memory EXCEPT ![e[1]] = Zeroed(capacity)]
              /\ Install(writer, e[1], capacity - 1, buckets, "done")
  <2>1. buckets \notin shared /\ Owned
    BY <1>2, <1>4
  <2>2. PICK n \in Capacities : n = capacity /\ n = mask + 1 /\ n \in Nat \ {0}
    <3>1. mask + 1 \in Capacities /\ mask + 1 >= 2
      BY <2>1, CapacityFacts DEF Owned
    <3> QED
      BY <1>2, <3>1 DEF capacity
  <2>2a. capacity - 1 = mask
    BY <1>2, <2>2
  <2>3. \E a \in Addresses :
            /\ a \in shared' /\ a # buckets /\ a \notin garbage_refs /\ a # nil
            /\ a = SharedEmpty(n)'
            /\ writer' = [writer EXCEPT !.pc = "setBuckets", !.new = a, !.mask = mask,
                                        !.old = buckets, !.size = capacity, !.then = "done"]
            /\ memory' \in [Addresses -> Seq(BucketType)]
            /\ emptyBucketsList' \in Seq(Blocks)
            /\ \A b \in Addresses : memory[b] # <<>> => memory'[b] = memory[b]
            /\ shared' = shared \cup {a} /\ live' \subseteq live \cup {a} /\ live \subseteq live'
            /\ ArraysOK' /\ SharedOK'
            /\ \A b \in shared' : \A i \in DOMAIN memory'[b] : memory'[b][i] = Unused
    <3>1. CASE SharedEmpty(n) # nil
      <4> DEFINE a == SharedEmpty(n)
      <4>1. a \in shared /\ a \in Addresses /\ a # nil /\ a # buckets
        BY <2>1, <2>2, <3>1, SharedEmptyShared, SharedFacts, WriterStart
      <4>2. /\ emptyBucketsList' = emptyBucketsList /\ memory' = memory
            /\ Install(writer, a, capacity - 1, buckets, "done")
        BY <1>4, <2>2, <3>1 DEF emptyBucketsForCapacity
      <4>3. writer' = [writer EXCEPT !.pc = "setBuckets", !.new = a, !.mask = mask,
                                     !.old = buckets, !.size = capacity, !.then = "done"]
        BY <2>2a, <4>2 DEF Install
      <4>4. shared' = shared /\ SharedEmpty(n)' = SharedEmpty(n)
        BY <4>2, SharedKept
      <4>5. a \notin garbage_refs
        BY <4>1, WriterStart DEF BlocksAccountedFor
      <4>6. ArraysOK' /\ SharedOK'
        <5>1. ArraysOK'
          BY <4>2, WriterStart DEF ArraysOK
        <5> QED
          BY <4>2, <5>1, SharedStays, WriterStart
      <4>7. /\ memory' \in [Addresses -> Seq(BucketType)] /\ emptyBucketsList' \in Seq(Blocks)
            /\ live' = live
        BY <4>2, WriterStart DEF TypeOK, BucketType, live
      <4>8. \A b \in shared' : \A i \in DOMAIN memory'[b] : memory'[b][i] = Unused
        BY <4>2, <4>4, SharedUnused
      <4>9. \A b \in Addresses : memory[b] # <<>> => memory'[b] = memory[b]
        BY <4>2
      <4>10. shared' = shared \cup {a} /\ a \in shared'
        BY <4>1, <4>4
      <4>11. a = SharedEmpty(n)'
        BY <4>4
      <4> HIDE DEF a
      <4> QED
        BY <4>1, <4>3, <4>5, <4>6, <4>7, <4>8, <4>9, <4>10, <4>11
    <3>2. CASE SharedEmpty(n) = nil
      <4>1. Free # {}
        BY <1>4, <2>2, <3>2
      <4>2. PICK a \in Blocks :
                /\ a = Malloc /\ a \in Addresses /\ memory[a] = <<>>
                /\ a \notin shared /\ a \notin garbage_refs /\ a # buckets /\ a # nil
        BY <4>1, AllocFacts
      <4>3. emptyBucketsForCapacity(capacity) = <<a, GrownList(n, a)>>
        BY <2>2, <3>2, <4>2 DEF emptyBucketsForCapacity, GrownList
      <4>4. emptyBucketsList' = GrownList(n, a)
        BY <1>4, <4>3
      <4>5. /\ emptyBucketsList' \in Seq(Blocks) /\ emptyBucketsList' # emptyBucketsList
            /\ shared' = shared \cup {a} /\ SharedEmpty(n)' = a
            /\ \A m \in Capacities \cup {0} :
                SharedEmpty(m)' = SharedEmpty(m) \/ (SharedEmpty(m)' = a /\ m <= n)
        BY <3>2, <4>4, ListGrows, WriterStart
      <4>6. /\ memory' = [memory EXCEPT ![a] = Zeroed(n)]
            /\ Install(writer, a, capacity - 1, buckets, "done")
        <5> DEFINE e == emptyBucketsForCapacity(capacity)
        <5>1. e[1] = a /\ e[2] = GrownList(n, a)
          BY <4>3
        <5>2. /\ emptyBucketsList' = e[2]
              /\ memory' = IF e[2] = emptyBucketsList THEN memory
                           ELSE [memory EXCEPT ![e[1]] = Zeroed(capacity)]
              /\ Install(writer, e[1], capacity - 1, buckets, "done")
          BY <1>4
        <5> HIDE DEF e
        <5>3. memory' = [memory EXCEPT ![a] = Zeroed(capacity)]
          BY <4>5, <5>1, <5>2
        <5> QED
          BY <2>2, <5>1, <5>2, <5>3
      <4>7. writer' = [writer EXCEPT !.pc = "setBuckets", !.new = a, !.mask = mask,
                                     !.old = buckets, !.size = capacity, !.then = "done"]
        BY <2>2a, <4>6 DEF Install
      <4>8. /\ Zeroed(n) \in Seq(BucketType) /\ Len(Zeroed(n)) = n
            /\ DOMAIN Zeroed(n) = 1 .. n /\ \A i \in 1 .. n : Zeroed(n)[i] = Unused
            /\ Zeroed(n) # <<>> /\ Last(Zeroed(n)) = Unused
        BY <2>2, ZeroedFacts
      <4>9. /\ memory' \in [Addresses -> Seq(BucketType)] /\ memory'[a] = Zeroed(n)
            /\ \A b \in Addresses : b # a => memory'[b] = memory[b]
        BY <4>2, <4>6, <4>8, WriterStart DEF TypeOK, BucketType
      <4>10. \A b \in Addresses : memory[b] # <<>> => memory'[b] = memory[b]
        BY <4>2, <4>9
      <4>11. live' = live \cup {a}
        BY <4>2, <4>8, <4>9, Numbers DEF live
      <4>12. \A b \in shared' : \A i \in DOMAIN memory'[b] : memory'[b][i] = Unused
        <5> TAKE b \in shared'
        <5>1. CASE b = a
          BY <4>8, <4>9, <5>1
        <5>2. CASE b # a
          <6>1. b \in shared /\ b \in Addresses
            BY <4>5, <5>2, SharedUnused
          <6> QED
            BY <4>9, <5>2, <6>1, SharedUnused
        <5> QED
          BY <5>1, <5>2
      <4>13. ArraysOK'
        <5>1. /\ Last(memory'[a]).sel \in {0, 1}
              /\ \A i \in DOMAIN memory'[a] : memory'[a][i].sel = 0
          BY <4>8, <4>9 DEF Unused
        <5>2. \A i \in DOMAIN memory'[a] : /\ memory'[a][i].sel = 1 => memory'[a][i].imp = a
                                           /\ memory'[a][i].sel > 1 => memory'[a][i].sel \in Sels
          BY <5>1
        <5> QED
          BY <4>9, <5>1, <5>2, ArraysKept, WriterStart
      <4>14. SharedOK'
        <5>1. ASSUME NEW b \in shared' PROVE memory'[b] # <<>> /\ memory'[b] = Zeroed(Len(memory'[b]))
          <6>1. CASE b = a
            BY <4>8, <4>9, <6>1
          <6>2. CASE b # a
            <7>1. b \in shared /\ b \in Addresses
              BY <4>5, <5>1, <6>2, SharedUnused
            <7> QED
              BY <4>9, <6>2, <7>1, WriterStart DEF SharedOK
          <6> QED
            BY <6>1, <6>2
        <5>2. ASSUME NEW m \in Capacities \cup {0}, SharedEmpty(m)' # nil
              PROVE  Len(memory'[SharedEmpty(m)']) >= m
          <6>1. CASE SharedEmpty(m)' = a /\ m <= n
            <7>1. m \in Nat
              BY CapacityFacts
            <7> QED
              BY <2>2, <4>8, <4>9, <6>1, <7>1
          <6>2. CASE SharedEmpty(m)' = SharedEmpty(m)
            <7>1. SharedEmpty(m) \in shared /\ Len(memory[SharedEmpty(m)]) >= m
              BY <5>2, <6>2, SharedEmptyShared, WriterStart DEF SharedOK
            <7>2. SharedEmpty(m) \in Addresses /\ SharedEmpty(m) # a
              BY <4>2, <7>1, SharedUnused
            <7> QED
              BY <4>9, <6>2, <7>1, <7>2
          <6> QED
            BY <4>5, <6>1, <6>2
        <5> QED
          BY <5>1, <5>2 DEF SharedOK
      <4>15. a \in shared' /\ a = SharedEmpty(n)'
        BY <4>5
      <4> QED
        BY <4>2, <4>5, <4>7, <4>9, <4>10, <4>11, <4>12, <4>13, <4>14, <4>15
    <3> QED
      BY <3>1, <3>2
  <2>4. PICK a \in Addresses :
            /\ a \in shared' /\ a # buckets /\ a \notin garbage_refs /\ a # nil
            /\ a = SharedEmpty(n)'
            /\ writer' = [writer EXCEPT !.pc = "setBuckets", !.new = a, !.mask = mask,
                                        !.old = buckets, !.size = capacity, !.then = "done"]
            /\ memory' \in [Addresses -> Seq(BucketType)]
            /\ emptyBucketsList' \in Seq(Blocks)
            /\ \A b \in Addresses : memory[b] # <<>> => memory'[b] = memory[b]
            /\ shared' = shared \cup {a} /\ live' \subseteq live \cup {a} /\ live \subseteq live'
            /\ ArraysOK' /\ SharedOK'
            /\ \A b \in shared' : \A i \in DOMAIN memory'[b] : memory'[b][i] = Unused
    BY <2>3
  <2>5. /\ writer' \in WriterType /\ writer'.pc = "setBuckets" /\ writer'.changed = writer.changed
        /\ writer'.new = a /\ writer'.mask = mask /\ writer'.old = buckets
        /\ writer'.then = "done"
    <3>1. capacity \in Nat
      BY <2>2
    <3> QED
      BY <1>2, <2>4, <3>1 DEF WriterType
  <2>6. TypeOK'
    BY <1>1, <2>4, <2>5, WriterStart DEF TypeOK, BucketType
  <2>7. memory'[buckets] = memory[buckets] /\ buckets' \notin shared'
    BY <1>1, <1>2, <2>1, <2>4
  <2>8. CacheOK'
    <3>1. Owned'
      BY <1>1, <2>1, <2>5, <2>7, OwnedKept
    <3> QED
      BY <2>6, <2>7, <3>1, CacheOwnedNext
  <2>9. WriterOK'
    <3>1. SharedEmpty(writer.mask + 1)' = SharedEmpty(n)'
      BY <2>2, <2>5 DEF SharedEmpty
    <3>2. InstallOK'
      BY <1>1, <1>2, <2>2, <2>4, <2>5, <2>7, <3>1, UnlockedFacts DEF InstallOK
    <3>3. FillOK'
      BY <2>5 DEF FillOK, Filling
    <3> QED
      BY <1>1, <1>2, <2>5, <3>2, <3>3 DEF WriterOK
  <2>10. \A b \in InUse : memory'[b] = memory[b]
    BY <2>4, InUseFacts
  <2>11. ReadersOK'
    BY <1>1, <1>2, <2>5, <2>10, ReadersKept
  <2>12. FreshOK'
    <3> SUFFICES ASSUME ~SignalsInLock PROVE CacheFresh' /\ \A t \in Readers : SendFresh(t)'
      BY DEF FreshOK
    <3>1. \A t \in Readers : SendFresh(t)'
      BY <1>1, <2>5, <2>10, FreshKept
    <3>2. CacheFresh'
      <4>1. UNCHANGED <<buckets, imps>> /\ writer'.changed = writer.changed
            /\ memory'[buckets] = memory[buckets]
        BY <1>1, <2>5, <2>7
      <4>2. CacheFresh
        BY WriterStart DEF FreshOK
      <4> QED
        BY <2>5, <4>1, <4>2 DEF CacheFresh, Entries, MayFind
    <3> QED
      BY <3>1, <3>2
  <2>13. BlocksAccountedFor'
    <3>1. moving = {}
      BY <1>1 DEF moving
    <3>2. moving' = {a, buckets}
      BY <1>2, <2>4, <2>5 DEF moving
    <3> QED
      BY <1>1, <1>2, <2>4, <3>1, <3>2, WriterStart DEF BlocksAccountedFor
  <2> QED
    BY <2>4, <2>6, <2>8, <2>9, <2>11, <2>12, <2>13 DEF CacheInv
<1> QED
  BY <1>3, <1>4 DEF eraseNolock

\* _objc_flush_caches() empties the cache.
LEMMA StepFlushCaches == ASSUME CacheInv, _objc_flush_caches PROVE CacheInv'
<1>1. writer.pc = "idle" /\ writer = Unlocked
  BY WriterStart DEF _objc_flush_caches
<1>2. eraseNolock(writer, "done")
  BY <1>1 DEF _objc_flush_caches
<1> QED
  BY <1>1, <1>2, StepErase DEF _objc_flush_caches

\* The methods of some selectors change: what they were may be found until the flush.
LEMMA StepSetImplementations ==
    ASSUME CacheInv, NEW S \in SUBSET Sels, NEW new \in [S -> Imps], SetImplementations(S, new)
    PROVE  CacheInv'
<1> DEFINE changed == {[sel |-> s, old |-> imps[s]] : s \in S}
<1>1. /\ writer.pc = "idle" /\ writer = Unlocked /\ writer.changed = {}
      /\ imps' = [s \in Sels |-> IF s \in S THEN new[s] ELSE imps[s]]
      /\ current' = [t \in Readers |->
                        IF reader[t].pc # "idle" /\ reader[t].sel \in S
                        THEN current[t] \cup {new[reader[t].sel]} ELSE current[t]]
      /\ writer' = [Unlocked EXCEPT !.pc = "shouldFlush", !.changed = changed]
      /\ UNCHANGED <<cacheVars, memory, emptyBucketsList, garbage_refs>>
      /\ UNCHANGED <<buckets, mask, occupied, garbage_byte_size, shouldUseRestartableRanges,
                     reader>>
  BY WriterStart, UnlockedFacts DEF SetImplementations, garbageVars, cacheVars
<1>2. imps \in [Sels -> Imps] /\ current \in [Readers -> SUBSET Imps]
      /\ reader \in [Readers -> ReaderType] /\ mask \in Nat
  BY WriterStart DEF TypeOK
<1>3. imps' \in [Sels -> Imps] /\ current' \in [Readers -> SUBSET Imps]
  BY <1>1, <1>2
<1>4. changed \in SUBSET [sel : Sels, old : Imps]
  BY <1>2
<1>5. /\ writer' \in WriterType /\ writer'.pc = "shouldFlush" /\ writer'.changed = changed
      /\ writer'.then = nil
  BY <1>1, <1>4 DEF Unlocked, WriterType
<1>6. writer.pc \notin Places /\ writer'.pc \notin Places /\ ~Filling'
  BY <1>1, <1>5, UnlockedFacts DEF Places, Filling
<1>7. TypeOK'
  BY <1>1, <1>3, <1>5, WriterStart DEF TypeOK
<1>8. WriterOK'
  BY <1>1, <1>5, <1>6, WriterKept
<1>9. ReadersOK'
  BY <1>1, <1>2, <1>5, ReadersKept
\* Until then both may be found.
<1>10. \A s \in Sels : /\ MayFind(s) = {imps[s]}
                       /\ imps[s] \in MayFind(s)'
                       /\ MayFind(s)' \subseteq {imps[s]} \cup (IF s \in S THEN {new[s]} ELSE {})
  <2> TAKE s \in Sels
  <2>1. MayFind(s) = {imps[s]}
    BY <1>1 DEF MayFind
  <2>2. imps'[s] = IF s \in S THEN new[s] ELSE imps[s]
    BY <1>1
  <2>3. s \in S => [sel |-> s, old |-> imps[s]] \in writer'.changed
    BY <1>5
  <2>4. imps[s] \in MayFind(s)'
    BY <2>2, <2>3 DEF MayFind
  <2>5. \A c \in writer'.changed : c.sel = s => c.old = imps[s]
    BY <1>5
  <2>6. MayFind(s)' \subseteq {imps[s]} \cup (IF s \in S THEN {new[s]} ELSE {})
    BY <2>2, <2>5 DEF MayFind
  <2> QED
    BY <2>1, <2>4, <2>6
<1> HIDE DEF changed
<1>11. FreshOK'
  <2> SUFFICES ASSUME ~SignalsInLock PROVE CacheFresh' /\ \A t \in Readers : SendFresh(t)'
    BY DEF FreshOK
  <2>1. CacheFresh'
    <3>1. ASSUME NEW k \in Entries(buckets)', buckets # nil
          PROVE  memory'[buckets'][k].imp \in MayFind(memory[buckets][k].sel)'
      <4>1. k \in Entries(buckets) /\ buckets \in Addresses /\ memory[buckets] # <<>>
        BY <1>1, <3>1, CacheKinds DEF Entries
      <4>2. PICK s \in Sels : s = memory[buckets][k].sel
        BY <4>1, WriterStart DEF ArraysOK, Entries
      <4>3. memory[buckets][k].imp \in MayFind(s)
        BY <3>1, <4>1, <4>2, WriterStart DEF FreshOK, CacheFresh
      <4>4. memory[buckets][k].imp \in MayFind(s)'
        BY <1>10, <4>3
      <4> QED
        BY <1>1, <4>2, <4>4
    <3> QED
      BY <1>1, <1>5, <3>1 DEF CacheFresh
  <2>2. ASSUME NEW t \in Readers PROVE SendFresh(t)'
    <3>1. SendFresh(t) /\ reader'[t] = reader[t]
      BY <1>1, WriterStart DEF FreshOK
    <3>2. current[t] \subseteq current'[t]
      BY <1>1
    <3>3. ASSUME reader[t].pc # "idle" PROVE MayFind(reader[t].sel)' \subseteq current'[t]
      <4>1. PICK s \in Sels : s = reader[t].sel
        BY <3>3, ReaderStart DEF ReaderOK
      <4>2. imps[s] \in current[t]
        BY <1>10, <3>1, <3>3, <4>1 DEF SendFresh
      <4>3. s \in S => new[s] \in current'[t]
        BY <1>1, <3>3, <4>1
      <4>4. MayFind(s)' \subseteq current'[t]
        BY <1>10, <3>2, <4>2, <4>3
      <4> QED
        BY <1>1, <4>1, <4>4
    <3> QED
      BY <1>1, <3>1, <3>2, <3>3, SendKept
  <2> QED
    BY <2>1, <2>2
<1> QED
  BY <1>1, <1>6, <1>7, <1>8, <1>9, <1>11, DataKept DEF CacheInv

\* method_setImplementation() changes one method.
LEMMA StepSetImplementation == ASSUME CacheInv, method_setImplementation PROVE CacheInv'
<1>1. PICK s \in Swizzled, imp \in Imps : SetImplementations({s}, [x \in {s} |-> imp])
  BY DEF method_setImplementation
<1>2. {s} \in SUBSET Sels /\ [x \in {s} |-> imp] \in [{s} -> Imps]
  BY CacheAssumption
<1> QED
  BY <1>1, <1>2, StepSetImplementations

\* method_exchangeImplementations() changes two.
LEMMA StepExchangeImplementations ==
    ASSUME CacheInv, method_exchangeImplementations PROVE CacheInv'
<1>1. PICK s1 \in Swizzled, s2 \in Swizzled :
        SetImplementations({s1, s2}, [x \in {s1, s2} |-> IF x = s1 THEN imps[s2] ELSE imps[s1]])
  BY DEF method_exchangeImplementations
<1>2. s1 \in Sels /\ s2 \in Sels /\ imps[s1] \in Imps /\ imps[s2] \in Imps
  BY WriterStart, CacheAssumption
<1>3. PICK new \in [{s1, s2} -> Imps] :
        new = [x \in {s1, s2} |-> IF x = s1 THEN imps[s2] ELSE imps[s1]]
  BY <1>2
<1>4. {s1, s2} \in SUBSET Sels /\ SetImplementations({s1, s2}, new)
  BY <1>1, <1>2, <1>3
<1> QED
  BY <1>4, StepSetImplementations

\* When no changed implementation is found in the cache, nothing stale is in it.
LEMMA StepFlushChanged == ASSUME CacheInv, FlushChanged PROVE CacheInv'
<1> DEFINE stale == {c \in writer.changed : cache_getImp(c.sel) = c.old}
<1>1. PICK seen : /\ seen \in (IF SignalsInLock THEN SUBSET stale ELSE {stale})
                  /\ \/ seen # {} /\ eraseNolock(writer, "done")
                     \/ seen = {} /\ writer' = Unlocked /\ UNCHANGED <<emptyBucketsList, memory>>
  BY DEF FlushChanged
<1>2. /\ writer.pc = "shouldFlush"
      /\ UNCHANGED <<cacheVars, garbageVars, imps, reader, current>>
      /\ UNCHANGED <<buckets, mask, occupied, garbage_refs, garbage_byte_size,
                     shouldUseRestartableRanges>>
  BY DEF FlushChanged, cacheVars, garbageVars
<1>3. CASE eraseNolock(writer, "done")
  BY <1>2, <1>3, StepErase
<1>4. CASE seen = {} /\ writer' = Unlocked /\ UNCHANGED <<emptyBucketsList, memory>>
  <2>1. /\ writer'.pc = "idle" /\ writer'.changed = {} /\ writer'.then = nil
        /\ writer.pc \notin Places /\ writer'.pc \notin Places /\ ~Filling'
        /\ writer' \in WriterType
    BY <1>2, <1>4, UnlockedFacts DEF Places, Filling
  <2>2. TypeOK'
    BY <1>2, <1>4, <2>1, WriterStart DEF TypeOK
  <2>3. UNCHANGED <<cacheVars, memory, emptyBucketsList, garbage_refs>>
    BY <1>2, <1>4
  <2>4. WriterOK'
    BY <1>4, <2>1, <2>3, WriterKept
  <2>5. ReadersOK'
    BY <1>2, <1>4, <2>1, WriterStart, ReadersKept
  <2>6. FreshOK'
    <3> SUFFICES ASSUME ~SignalsInLock PROVE CacheFresh' /\ \A t \in Readers : SendFresh(t)'
      BY DEF FreshOK
    <3>1. \A t \in Readers : SendFresh(t)'
      BY <1>2, <1>4, <2>1, FreshKept
    <3>2. stale = {}
      BY <1>1, <1>4
    <3>3. buckets # nil /\ writer.pc # "setMask" /\ writer.pc # "storeSel"
      BY <1>2, WriterStart
    <3>4. ASSUME NEW k \in Entries(buckets)
          PROVE  memory[buckets][k].imp = imps[memory[buckets][k].sel]
      <4>1. buckets \in Addresses /\ mask \in Nat /\ memory[buckets] # <<>>
        BY <3>3, CacheKinds
      <4>2. Owned
        BY <3>3, <3>4, CacheKinds, SharedUnused
      <4>3. PICK s \in Sels : s = memory[buckets][k].sel
        BY <3>4, <4>1, WriterStart DEF ArraysOK, Entries
      <4>4. Slot(s) + 1 = k /\ k \in 1 .. mask + 1
        BY <3>4, <4>1, <4>2, <4>3, ArrayFacts, WriterStart DEF Owned, Entries
      <4>5. Slot(s) \in 0 .. mask + 1
        BY <4>1, <4>3, Numbers, SlotFacts
      <4>6. Slot(s) <= mask /\ Bucket(buckets, Slot(s)) = memory[buckets][k]
        BY <4>1, <4>4, <4>5 DEF Bucket
      <4>7. cache_getImp(s) = memory[buckets][k].imp
        BY <4>3, <4>6 DEF cache_getImp
      <4>8. memory[buckets][k].imp \in MayFind(s)
        BY <3>3, <3>4, <4>3, WriterStart DEF FreshOK, CacheFresh
      <4>9. \A c \in writer.changed : c.sel = s => c.old # memory[buckets][k].imp
        BY <3>2, <4>7
      <4> QED
        BY <4>3, <4>8, <4>9 DEF MayFind
    <3>5. CacheFresh'
      BY <1>2, <1>4, <2>1, <3>4 DEF CacheFresh, Entries, MayFind
    <3> QED
      BY <3>1, <3>5
  <2> QED
    BY <2>1, <2>2, <2>3, <2>4, <2>5, <2>6, DataKept DEF CacheInv
<1> QED
  BY <1>1, <1>3, <1>4

-----------------------------------------------------------------------------
(* The end of a class, and of its arrays.                                  *)

\* The class is disposed of: its array is freed if it is not shared.
LEMMA StepDestroy == ASSUME CacheInv, destroy PROVE CacheInv'
<1>1. /\ writer.pc = "idle" /\ \A t \in Readers : reader[t].pc \in {"idle", "called"}
      /\ memory' = IF isConstantEmptyCache THEN memory ELSE [memory EXCEPT ![buckets] = <<>>]
      /\ buckets' = nil
      /\ writer' = [Unlocked EXCEPT !.pc = "destroyed"]
      /\ UNCHANGED <<mask, occupied, emptyBucketsList, garbage_refs, garbage_byte_size,
                     shouldUseRestartableRanges, imps, reader, current>>
  BY DEF destroy, garbageVars
<1>2. /\ buckets # nil /\ buckets \in Addresses /\ buckets \notin garbage_refs
      /\ isConstantEmptyCache <=> buckets \in shared
      /\ writer.changed = {} /\ mask \in Nat
  <2>1. buckets # nil /\ writer.pc # "setMask"
    BY <1>1, WriterStart
  <2> QED
    BY <1>1, <2>1, CacheKinds, UnlockedFacts, WriterStart
<1>3. /\ writer' \in WriterType /\ writer'.pc = "destroyed" /\ writer'.changed = {}
      /\ writer'.then = nil
  BY <1>1 DEF Unlocked, WriterType
<1>4. /\ memory' \in [Addresses -> Seq(BucketType)]
      /\ \A b \in Addresses : b # buckets \/ buckets \in shared => memory'[b] = memory[b]
      /\ buckets \notin shared => memory'[buckets] = <<>>
  <2>1. memory \in [Addresses -> Seq(BucketType)]
    BY WriterStart DEF TypeOK, BucketType
  <2>2. <<>> \in Seq(BucketType)
    OBVIOUS
  <2> QED
    BY <1>1, <1>2, <2>1, <2>2
<1>5. shared' = shared /\ shared \subseteq Addresses
  BY <1>1, SharedKept, SharedFacts, WriterStart
<1>6. TypeOK'
  BY <1>1, <1>3, <1>4, WriterStart DEF TypeOK, BucketType
<1>7. ArraysOK'
  <2>1. \A b \in Addresses : memory'[b] = memory[b] \/ memory'[b] = <<>>
    BY <1>4
  <2> QED
    BY <2>1, ArraysKept, WriterStart
<1>8. SharedOK'
  <2>1. \A b \in shared : memory'[b] = memory[b]
    BY <1>4, <1>5
  <2> QED
    BY <1>1, <2>1, SharedStays, WriterStart
<1>9. CacheOK'
  BY <1>1 DEF CacheOK
<1>10. WriterOK'
  <2>1. ~Filling'
    BY <1>3, UnlockedFacts DEF Filling
  <2> QED
    BY <1>1, <1>3, <2>1 DEF WriterOK, InstallOK, FillOK
<1>11. InUse = {}
  BY <1>1 DEF InUse, Loops
<1>12. ReadersOK'
  BY <1>1, <1>2, <1>3, <1>11, ReadersKept
<1>13. FreshOK'
  <2> SUFFICES ASSUME ~SignalsInLock PROVE CacheFresh' /\ \A t \in Readers : SendFresh(t)'
    BY DEF FreshOK
  <2>1. \A t \in Readers : SendFresh(t)'
    BY <1>1, <1>3, <1>11, FreshKept
  <2>2. CacheFresh'
    BY <1>1, <1>3 DEF CacheFresh
  <2> QED
    BY <2>1, <2>2
<1>14. BlocksAccountedFor'
  <2>1. moving = {} /\ moving' = {}
    BY <1>1, <1>3 DEF moving
  <2>2. \A b \in Blocks : b # buckets => memory'[b] = memory[b]
    BY <1>4, Numbers
  <2>3. live' \subseteq live /\ live \subseteq live' \cup {buckets} \cup shared
        /\ (buckets \notin shared => buckets \notin live')
    <3>1. ASSUME NEW b \in Blocks, b # buckets PROVE b \in live' <=> b \in live
      BY <2>2, <3>1 DEF live
    <3>2. live' \subseteq Blocks /\ live \subseteq Blocks
      BY DEF live
    <3>3. buckets \notin shared => buckets \notin live'
      BY <1>4 DEF live
    <3>4. buckets \in shared => memory'[buckets] = memory[buckets]
      BY <1>2, <1>4
    <3>5. buckets \in live' => buckets \in live
      BY <3>3, <3>4 DEF live
    <3> QED
      BY <3>1, <3>2, <3>3, <3>5
  <2>4. \A b \in shared' : \A i \in DOMAIN memory'[b] : memory'[b][i] = Unused
    BY <1>4, <1>5, SharedUnused
  <2>5. buckets' = nil
    BY <1>1
  <2>6. nil \notin live \cup shared \cup garbage_refs
    BY Numbers, SharedFacts, WriterStart DEF live
  <2>7. garbage_refs' = garbage_refs
    BY <1>1
  <2>8. /\ garbage_refs \cap shared = {} /\ live \subseteq shared \cup garbage_refs \cup {buckets}
        /\ garbage_refs \subseteq live \cup shared
    BY <2>1, WriterStart DEF BlocksAccountedFor
  <2> QED
    BY <1>2, <1>5, <2>1, <2>3, <2>4, <2>5, <2>6, <2>7, <2>8 DEF BlocksAccountedFor
<1> QED
  BY <1>6, <1>7, <1>8, <1>9, <1>10, <1>12, <1>13, <1>14 DEF CacheInv

\* The old array becomes garbage.
LEMMA StepCollectFree == ASSUME CacheInv, collect_free PROVE CacheInv'
<1>0. PICK o \in Blocks : o = writer.old /\ o # nil /\ o \notin shared /\ o # buckets
                          /\ o \notin garbage_refs /\ memory[o] # <<>>
  <2>1. writer.pc = "collect_free" /\ writer.old # nil /\ writer.old \in Addresses
        /\ writer.old \notin shared \cup {buckets} \cup garbage_refs /\ memory[writer.old] # <<>>
    BY WriterStart DEF collect_free, InstallOK, WriterType
  <2> QED
    BY <2>1, SharedFacts, WriterStart DEF Addresses
<1>1. /\ writer.pc = "collect_free"
      /\ garbage_refs' = garbage_refs \cup {o}
      /\ memory' = Disconnected(o)
      /\ garbage_byte_size' = garbage_byte_size + writer.size
      /\ writer' = IF garbage_byte_size' < garbage_threshold THEN Continue(writer)
                   ELSE [writer EXCEPT !.pc = "collect", !.old = nil, !.size = 0,
                                       !.toCheck = Readers]
      /\ UNCHANGED <<buckets, mask, occupied, shouldUseRestartableRanges, reader,
                     emptyBucketsList, imps, current>>
  BY <1>0 DEF collect_free, cacheVars, WriterStep
<1>2. /\ buckets # nil /\ buckets \in Addresses /\ mask \in Nat /\ writer \in WriterType
      /\ writer.then # nil /\ writer.pc # "setMask" /\ writer.pc # "storeSel"
      /\ writer.then = "place" => buckets \notin shared /\ occupied = 0
      /\ buckets \notin shared => Owned
  <2>1. buckets # nil
    BY <1>1, WriterStart
  <2> QED
    BY <1>1, <2>1, CacheKinds, WriterStart DEF InstallOK
<1>3. /\ writer' \in WriterType /\ writer'.changed = writer.changed
      /\ writer'.sel = writer.sel /\ writer'.imp = writer.imp
      /\ \/ writer'.pc = "collect" /\ writer'.then = writer.then /\ writer'.toCheck = Readers
         \/ writer'.pc = writer.then /\ writer.then \in {"place", "done"} /\ writer'.then = nil
  <2>1. CASE writer' = Continue(writer)
    BY <1>2, <2>1, ContinueFacts
  <2>2. CASE writer' = [writer EXCEPT !.pc = "collect", !.old = nil, !.size = 0,
                                      !.toCheck = Readers]
    BY <1>2, <2>2 DEF WriterType
  <2> QED
    BY <1>1, <2>1, <2>2
<1>4. writer'.pc \in {"collect", "place", "done"}
  BY <1>3
<1>5. /\ memory' \in [Addresses -> Seq(BucketType)]
      /\ \A b \in Addresses : b # o => memory'[b] = memory[b]
      /\ memory'[o] = memory[o] \/ (o \notin InUse /\ memory'[o] = Zeroed(Len(memory[o])))
      /\ Len(memory[o]) \in Nat \ {0} /\ o \in Addresses
  <2>1. memory \in [Addresses -> Seq(BucketType)] /\ o \in Addresses
    BY Numbers, WriterStart DEF TypeOK, BucketType
  <2>2. Len(memory[o]) \in Nat \ {0}
    BY <1>0, <2>1, ArrayFacts, WriterStart
  <2>3. Zeroed(Len(memory[o])) \in Seq(BucketType)
    BY <2>2, ZeroedFacts
  <2>4. CASE \E t \in Readers : reader[t].pc \in InRange /\ reader[t].b = o
    BY <1>1, <2>1, <2>2, <2>4 DEF Disconnected
  <2>5. CASE ~\E t \in Readers : reader[t].pc \in InRange /\ reader[t].b = o
    <3>1. memory' = [memory EXCEPT ![o] = Zeroed(Len(memory[o]))]
      BY <1>1, <2>5 DEF Disconnected
    <3>2. o \notin InUse
      BY <2>5 DEF InUse, Loops, InRange
    <3> QED
      BY <2>1, <2>2, <2>3, <3>1, <3>2
  <2> QED
    BY <2>4, <2>5
<1>6. shared' = shared /\ shared \subseteq Addresses
  BY <1>1, SharedKept, SharedFacts, WriterStart
<1>7. TypeOK'
  <2>1. garbage_refs' \in SUBSET Blocks
    BY <1>1, WriterStart
  <2>2. garbage_byte_size' \in Nat
    <3>1. garbage_byte_size \in Nat /\ writer.size \in Nat
      BY WriterStart DEF TypeOK, WriterType
    <3> QED
      BY <1>1, <3>1
  <2> QED
    BY <1>1, <1>3, <1>5, <2>1, <2>2, WriterStart DEF TypeOK, BucketType
<1>8. memory'[o] # <<>>
  BY <1>0, <1>5, ZeroedFacts
<1>9. ArraysOK'
  <2>1. CASE memory'[o] = memory[o]
    BY <1>5, <2>1, ArraysKept, WriterStart
  <2>2. CASE memory'[o] = Zeroed(Len(memory[o]))
    <3> DEFINE n == Len(memory[o])
    <3>0. /\ DOMAIN Zeroed(n) = 1 .. n /\ \A i \in 1 .. n : Zeroed(n)[i] = Unused
          /\ Last(Zeroed(n)) = Unused
      BY <1>5, ZeroedFacts
    <3>1. /\ Last(memory'[o]).sel = 0
          /\ \A i \in DOMAIN memory'[o] : memory'[o][i].sel = 0
      BY <2>2, <3>0 DEF Unused
    <3>2. /\ Last(memory'[o]).sel \in {0, 1}
          /\ \A i \in DOMAIN memory'[o] : /\ memory'[o][i].sel = 1 => memory'[o][i].imp = o
                                          /\ memory'[o][i].sel > 1 => memory'[o][i].sel \in Sels
      BY <3>1
    <3> QED
      BY <1>5, <3>2, ArraysKept, WriterStart
  <2> QED
    BY <1>5, <2>1, <2>2
<1>10. SharedOK'
  <2>1. \A b \in shared : memory'[b] = memory[b]
    BY <1>0, <1>5, <1>6
  <2> QED
    BY <1>1, <2>1, SharedStays, WriterStart
<1>11. memory'[buckets] = memory[buckets] /\ \A b \in InUse : memory'[b] = memory[b]
  BY <1>0, <1>2, <1>5, InUseFacts
<1>12. CacheOK'
  <2>1. writer'.pc # "setMask" /\ writer'.pc # "storeSel"
    BY <1>4
  <2> QED
    BY <1>1, <1>2, <1>11, <2>1, CacheKept, WriterStart
<1>13. WriterOK'
  <2>1. buckets \notin shared /\ occupied = 0 => occupied < mask
    BY <1>2, CapacityFacts DEF Owned
  <2>2. InstallOK'
    BY <1>1, <1>2, <1>3, <1>4, <1>6 DEF InstallOK
  <2>3. FillOK'
    <3>1. Filling' => Filling
      BY <1>3, <1>4, UnlockedFacts DEF Filling
    <3>2. writer'.pc = "place" => writer.then = "place"
      BY <1>3
    <3> QED
      BY <1>1, <1>2, <1>3, <1>4, <1>6, <2>1, <3>1, <3>2, WriterStart DEF FillOK
  <2> QED
    BY <1>1, <1>2, <1>4, <2>2, <2>3 DEF WriterOK
<1>14. ReadersOK'
  <2>1. writer'.pc = "collect" => writer'.toCheck = Readers
    BY <1>3, <1>4
  <2> QED
    BY <1>1, <1>2, <1>11, <2>1, ReadersKept
<1>15. FreshOK'
  <2> SUFFICES ASSUME ~SignalsInLock PROVE CacheFresh' /\ \A t \in Readers : SendFresh(t)'
    BY DEF FreshOK
  <2>1. \A t \in Readers : SendFresh(t)'
    BY <1>1, <1>3, <1>11, FreshKept
  <2>2. CacheFresh'
    <3>1. UNCHANGED <<buckets, imps>> /\ writer'.changed = writer.changed
      BY <1>1, <1>3
    <3>2. CacheFresh
      BY WriterStart DEF FreshOK
    <3> QED
      BY <1>1, <1>11, <3>1, <3>2 DEF CacheFresh, Entries, MayFind
  <2> QED
    BY <2>1, <2>2
<1>16. BlocksAccountedFor'
  <2>1. o \in moving /\ moving \subseteq {writer.new, o}
    BY <1>0, <1>1 DEF moving
  <2>2. moving' = {}
    BY <1>4 DEF moving
  <2>3. live' = live /\ o \in live
    <3>1. \A b \in Blocks : b # o => memory'[b] = memory[b]
      BY <1>5, Numbers
    <3> QED
      BY <1>0, <1>8, <3>1 DEF live
  <2>4. writer.new = nil
    BY <1>1, WriterStart DEF InstallOK
  <2>5. \A b \in shared' : \A i \in DOMAIN memory'[b] : memory'[b][i] = Unused
    BY <1>0, <1>5, <1>6, SharedUnused
  <2>6. nil \notin live
    BY Numbers DEF live
  <2> QED
    BY <1>0, <1>1, <1>6, <2>1, <2>2, <2>3, <2>4, <2>5, <2>6, WriterStart DEF BlocksAccountedFor
<1> QED
  BY <1>7, <1>9, <1>10, <1>12, <1>13, <1>14, <1>15, <1>16 DEF CacheInv

\* The garbage is freed when nobody is in it any more.
LEMMA StepFree ==
    ASSUME CacheInv, writer.pc = "collect", FreeGarbage(writer),
           UNCHANGED cacheVars, WriterStep,
           reader' \in [Readers -> ReaderType],
           \A t \in Readers :
                \/ /\ reader'[t] = reader[t]
                   /\ reader[t].pc \in Loops => reader[t].b \notin garbage_refs
                \/ reader'[t] = Missed(reader[t]) /\ reader[t].pc \in InRange
    PROVE  CacheInv'
<1>1. /\ memory' = [b \in DOMAIN memory |-> IF b \in garbage_refs THEN <<>> ELSE memory[b]]
      /\ garbage_refs' = {} /\ garbage_byte_size' = 0
      /\ writer' = Continue(writer)
      /\ UNCHANGED <<buckets, mask, occupied, shouldUseRestartableRanges,
                     emptyBucketsList, imps, current>>
  BY DEF FreeGarbage, cacheVars, WriterStep
<1>2. /\ buckets # nil /\ buckets \in Addresses /\ buckets \notin garbage_refs /\ mask \in Nat
      /\ writer \in WriterType /\ writer.then # nil
      /\ writer.then = "place" => buckets \notin shared /\ occupied = 0
      /\ buckets \notin shared => Owned
  <2>1. buckets # nil /\ writer.pc # "setMask"
    BY WriterStart
  <2> QED
    BY <2>1, CacheKinds, WriterStart DEF InstallOK
<1>3. /\ writer' \in WriterType /\ writer'.pc = writer.then /\ writer.then \in {"place", "done"}
      /\ writer'.sel = writer.sel /\ writer'.imp = writer.imp
      /\ writer'.changed = writer.changed /\ writer'.then = nil
  BY <1>1, <1>2, ContinueFacts
<1>4. writer'.pc \in {"place", "done"}
  BY <1>3
<1>5. /\ memory' \in [Addresses -> Seq(BucketType)]
      /\ \A b \in Addresses : b \notin garbage_refs => memory'[b] = memory[b]
      /\ \A b \in Addresses : b \in garbage_refs => memory'[b] = <<>>
  <2>1. memory \in [Addresses -> Seq(BucketType)]
    BY WriterStart DEF TypeOK, BucketType
  <2>2. <<>> \in Seq(BucketType)
    OBVIOUS
  <2> QED
    BY <1>1, <2>1, <2>2
<1>6. shared' = shared /\ shared \subseteq Addresses /\ shared \cap garbage_refs = {}
  BY <1>1, SharedKept, SharedFacts, WriterStart DEF BlocksAccountedFor
<1>7. TypeOK'
  BY <1>1, <1>3, <1>5, WriterStart DEF TypeOK, BucketType
<1>8. ArraysOK'
  <2>1. \A b \in Addresses : memory'[b] = memory[b] \/ memory'[b] = <<>>
    BY <1>5
  <2> QED
    BY <2>1, ArraysKept, WriterStart
<1>9. SharedOK'
  <2>1. \A b \in shared : memory'[b] = memory[b]
    BY <1>5, <1>6
  <2> QED
    BY <1>1, <2>1, SharedStays, WriterStart
<1>10. memory'[buckets] = memory[buckets]
  BY <1>2, <1>5
<1>11. CacheOK'
  <2>1. writer'.pc # "setMask" /\ writer'.pc # "storeSel"
    BY <1>4
  <2> QED
    BY <1>1, <1>10, <2>1, CacheKept, WriterStart
<1>12. WriterOK'
  <2>1. buckets \notin shared /\ occupied = 0 => occupied < mask
    BY <1>2, CapacityFacts DEF Owned
  <2>2. InstallOK'
    BY <1>4 DEF InstallOK
  <2>3. FillOK'
    <3>1. Filling' => Filling
      BY <1>3, <1>4, UnlockedFacts DEF Filling
    <3>2. writer'.pc = "place" => writer.then = "place"
      BY <1>3
    <3> QED
      BY <1>1, <1>2, <1>3, <1>4, <1>6, <2>1, <3>1, <3>2, WriterStart DEF FillOK
  <2> QED
    BY <1>1, <1>2, <1>4, <2>2, <2>3 DEF WriterOK
<1>13. ASSUME NEW t \in Readers, reader'[t] = reader[t], reader[t].pc \in Loops
       PROVE  memory'[reader[t].b] = memory[reader[t].b]
  <2>1. reader'[t] # Missed(reader[t])
    BY <1>13 DEF Missed, Idle, Loops
  <2>2. reader[t].b \in Addresses /\ reader[t].b \notin garbage_refs
    BY <1>13, <2>1, ReaderFacts
  <2> QED
    BY <1>5, <2>2
<1>14. ReadersOK'
  <2> SUFFICES ASSUME NEW t \in Readers PROVE ReaderOK(t)'
    BY DEF ReadersOK
  <2>1. CASE reader'[t] = reader[t]
    <3>1. writer'.pc # "collect" /\ mask' \in Nat /\ mask <= mask'
      BY <1>1, <1>2, <1>4
    <3> QED
      BY <1>1, <1>13, <2>1, <3>1, ReaderKept
  <2>2. CASE reader'[t] = Missed(reader[t]) /\ reader[t].pc \in InRange
    <3>1. reader'[t].pc = "miss" /\ reader'[t].sel = reader[t].sel
      BY <2>2, MissedFacts
    <3>2. reader[t].sel \in Sels
      BY <2>2, WriterStart DEF ReadersOK, ReaderOK, InRange
    <3> QED
      BY <3>1, <3>2 DEF ReaderOK, Loops
  <2> QED
    BY <2>1, <2>2
<1>15. FreshOK'
  <2> SUFFICES ASSUME ~SignalsInLock PROVE CacheFresh' /\ \A t \in Readers : SendFresh(t)'
    BY DEF FreshOK
  <2>1. ASSUME NEW t \in Readers PROVE SendFresh(t)'
    <3>1. SendFresh(t)
      BY WriterStart DEF FreshOK
    <3>4. CASE reader'[t] = reader[t]
      <4>1. reader[t].pc # "idle" => MayFind(reader[t].sel)' \subseteq current'[t]
        BY <1>1, <1>3, <3>1, <3>4 DEF SendFresh, MayFind
      <4> QED
        BY <1>1, <1>13, <3>1, <3>4, <4>1, SendKept
    <3>5. CASE reader'[t] = Missed(reader[t]) /\ reader[t].pc \in InRange
      <4>1. reader'[t].pc = "miss" /\ reader'[t].sel = reader[t].sel
        BY <3>5, MissedFacts
      <4>2. MayFind(reader[t].sel) \subseteq current[t]
        BY <3>1, <3>5 DEF SendFresh, InRange
      <4> QED
        BY <1>1, <1>3, <4>1, <4>2 DEF SendFresh, Loops, MayFind
    <3> QED
      BY <3>4, <3>5
  <2>2. CacheFresh'
    <3>1. UNCHANGED <<buckets, imps>> /\ writer'.changed = writer.changed
      BY <1>1, <1>3
    <3>2. CacheFresh
      BY WriterStart DEF FreshOK
    <3> QED
      BY <1>4, <1>10, <3>1, <3>2 DEF CacheFresh, Entries, MayFind
  <2> QED
    BY <2>1, <2>2
<1>16. BlocksAccountedFor'
  <2>1. moving = {} /\ moving' = {}
    BY <1>4 DEF moving
  <2>2. live' = live \ garbage_refs
    <3>1. ASSUME NEW b \in Blocks PROVE memory'[b] = IF b \in garbage_refs THEN <<>> ELSE memory[b]
      BY <1>5, Numbers
    <3> QED
      BY <3>1 DEF live
  <2>3. \A b \in shared' : \A i \in DOMAIN memory'[b] : memory'[b][i] = Unused
    BY <1>5, <1>6, SharedUnused
  <2> QED
    BY <1>1, <1>2, <1>6, <2>1, <2>2, <2>3, WriterStart DEF BlocksAccountedFor
<1> QED
  BY <1>7, <1>8, <1>9, <1>11, <1>12, <1>14, <1>15, <1>16 DEF CacheInv

\* Every thread was seen outside of the lookup code: the garbage is freed.
LEMMA StepAllChecked == ASSUME CacheInv, AllChecked PROVE CacheInv'
<1>1. /\ writer.pc = "collect" /\ ~shouldUseRestartableRanges /\ writer.toCheck = {}
      /\ FreeGarbage(writer) /\ UNCHANGED <<cacheVars, reader>> /\ WriterStep
  BY DEF AllChecked
<1>2. \A t \in Readers : reader[t].pc \in Loops => reader[t].b \notin garbage_refs
  BY <1>1, WriterStart DEF ReadersOK, ReaderOK
<1>3. reader' \in [Readers -> ReaderType]
  BY <1>1, WriterStart
<1> QED
  BY <1>1, <1>2, <1>3, StepFree

\* The kernel sent every thread to its miss path: the garbage is freed.
LEMMA StepSynchronize == ASSUME CacheInv, Synchronize PROVE CacheInv'
<1>1. /\ writer.pc = "collect" /\ FreeGarbage(writer) /\ UNCHANGED cacheVars /\ WriterStep
      /\ reader' = [t \in Readers |->
                      IF reader[t].pc \in InRange THEN Missed(reader[t]) ELSE reader[t]]
  BY DEF Synchronize
<1>2. \A t \in Readers : reader[t].pc \in Loops => reader[t].pc \in InRange
  BY DEF Loops, InRange
<1>3. reader' \in [Readers -> ReaderType]
  BY <1>1, MissedFacts, WriterStart
<1>4. \A t \in Readers : \/ /\ reader'[t] = reader[t]
                            /\ reader[t].pc \in Loops => reader[t].b \notin garbage_refs
                         \/ reader'[t] = Missed(reader[t]) /\ reader[t].pc \in InRange
  BY <1>1, <1>2
<1> QED
  BY <1>1, <1>3, <1>4, StepFree

-----------------------------------------------------------------------------
(* The invariant, and what follows from it.                                *)

\* Every step preserves the invariant.
LEMMA InvNext == CacheInv /\ [Next]_vars => CacheInv'
<1> SUFFICES ASSUME CacheInv, [Next]_vars PROVE CacheInv'
  OBVIOUS
<1>1. CASE ReaderNext
  <2> PICK t \in Readers :
        \/ \E s \in Sels : Send(t, s)
        \/ LoadBuckets(t) \/ Compare(t) \/ CompareEnd(t) \/ Wrap(t) \/ CacheHit(t)
        \/ SignalHits(t)
        \/ LookUp(t)
    BY <1>1 DEF ReaderNext
  <2>1. CASE \E s \in Sels : Send(t, s)
    BY <2>1, StepSend
  <2>2. CASE LoadBuckets(t)
    BY <2>2, StepLoadBuckets
  <2>3. CASE Compare(t)
    BY <2>3, StepCompare
  <2>4. CASE CompareEnd(t)
    BY <2>4, StepCompareEnd
  <2>5. CASE Wrap(t)
    BY <2>5, StepWrap
  <2>6. CASE CacheHit(t)
    BY <2>6, StepCacheHit
  <2>7. CASE SignalHits(t)
    BY <2>7, StepSignalHits
  <2>8. CASE LookUp(t)
    BY <2>8, StepLookUp
  <2> QED
    BY <2>1, <2>2, <2>3, <2>4, <2>5, <2>6, <2>7, <2>8
<1>2. CASE WriterNext
  <2>1. CASE \E s \in Sels : LookUpElsewhere(s)
    BY <2>1, StepLookUpElsewhere
  <2>2. CASE setBuckets
    BY <2>2, StepSetBuckets
  <2>3. CASE setMask
    BY <2>3, StepSetMask
  <2>4. CASE StoreImp
    BY <2>4, StepStoreImp
  <2>5. CASE StoreSel
    BY <2>5, StepStoreSel
  <2>6. CASE method_setImplementation
    BY <2>6, StepSetImplementation
  <2>7. CASE method_exchangeImplementations
    BY <2>7, StepExchangeImplementations
  <2>8. CASE FlushChanged
    BY <2>8, StepFlushChanged
  <2>9. CASE _objc_flush_caches
    BY <2>9, StepFlushCaches
  <2>10. CASE CollectALot
    BY <2>10, StepCollectALot
  <2>11. CASE Done
    BY <2>11, StepDone
  <2>12. CASE destroy
    BY <2>12, StepDestroy
  <2>13. CASE collect_free
    BY <2>13, StepCollectFree
  <2>14. CASE Synchronize
    BY <2>14, StepSynchronize
  <2>15. CASE AllChecked
    BY <2>15, StepAllChecked
  <2>16. CASE \E t \in Readers : CheckThread(t)
    BY <2>16, StepCheckThread
  <2> QED
    BY <1>2, <2>1, <2>2, <2>3, <2>4, <2>5, <2>6, <2>7, <2>8, <2>9, <2>10, <2>11, <2>12,
       <2>13, <2>14, <2>15, <2>16 DEF WriterNext
<1>3. CASE UNCHANGED vars
  <2>1. UNCHANGED <<buckets, mask, occupied, memory, emptyBucketsList, garbage_refs,
                    garbage_byte_size, shouldUseRestartableRanges, imps, writer, reader,
                    current>>
    BY <1>3 DEF vars
  <2>2. TypeOK' /\ ArraysOK' /\ BlocksAccountedFor'
    BY <2>1, WriterStart DEF TypeOK, ArraysOK, BlocksAccountedFor, shared, live, moving
  <2>3. SharedOK' /\ CacheOK'
    BY <2>1, SharedStays, CacheKept, WriterStart
  <2>4. WriterOK'
    <3>1. /\ \A s : Slot(s)' = Slot(s)
          /\ \A n : SharedEmpty(n)' = SharedEmpty(n)
          /\ shared' = shared /\ \A i : Bucket(buckets, i)' = Bucket(buckets, i)
      BY <2>1, SlotsKept, SharedKept
    <3> QED
      BY <2>1, <3>1 DEF CacheInv, WriterOK, InstallOK, FillOK, Filling
  <2>5. ReadersOK'
    BY <2>1, WriterStart DEF ReadersOK, ReaderOK, Bucket
  <2>6. FreshOK'
    BY <2>1, WriterStart DEF FreshOK, CacheFresh, SendFresh, Entries, MayFind
  <2> QED
    BY <2>2, <2>3, <2>4, <2>5, <2>6 DEF CacheInv
<1> QED
  BY <1>1, <1>2, <1>3 DEF Next

\* What the invariant implies.
LEMMA InvFollows ==
    ASSUME CacheInv
    PROVE  ReadsAreSafe /\ (~SignalsInLock => ImpIsCurrent) /\ BlocksSound
<1>1. ReadsAreSafe
  <2> SUFFICES ASSUME NEW t \in Readers, reader[t].pc \in Loops
               PROVE  reader[t].b \in DOMAIN memory /\ reader[t].i < Len(memory[reader[t].b])
    BY DEF ReadsAreSafe, Loops
  <2>1. DOMAIN memory = Addresses
    BY WriterStart DEF TypeOK
  <2> QED
    BY <2>1, WriterStart DEF ReadersOK, ReaderOK
<1>2. ~SignalsInLock => ImpIsCurrent
  BY WriterStart DEF FreshOK, SendFresh, ImpIsCurrent
<1>3. RoomInCache
  BY WriterStart DEF RoomInCache, WriterType
<1> QED
  BY <1>1, <1>2, <1>3, WriterStart DEF BlocksSound

\* Every reachable state satisfies the inductive invariant: the bucket arrays, the cache
\* and the steps in progress on both sides of the missing lock fit together.
LEMMA Invariance == Spec => []CacheInv
<1>1. Init => CacheInv
  BY InvInit
<1>2. CacheInv /\ [Next]_vars => CacheInv'
  BY InvNext
<1> QED
  BY <1>1, <1>2, PTL DEF Spec

\* objc_msgSend never reads a freed bucket array, nor a bucket behind the end of one, in
\* any interleaving with insert(), eraseNolock(), collectNolock() and destroy(), for any
\* number of threads, selectors and arrays.
THEOREM LookupsReadSafely == Spec => []ReadsAreSafe
<1>1. CacheInv => ReadsAreSafe
  BY InvFollows
<1> QED
  BY <1>1, Invariance, PTL

\* If no signal hits the thread that holds runtimeLock, objc_msgSend never calls an
\* implementation that method_setImplementation() or method_exchangeImplementations()
\* had replaced, and flushed, before the message was sent.
THEOREM CachedImpsAreCurrent == Spec => [](~SignalsInLock => ImpIsCurrent)
<1>1. CacheInv => (~SignalsInLock => ImpIsCurrent)
  BY InvFollows
<1> QED
  BY <1>1, Invariance, PTL

\* Every bucket array is in exactly one place (the cache, the garbage, the shared empty
\* ones, or the hands of the writer), the shared ones stay empty, and insert() always
\* finds a bucket: bad_cache() is never reached.
THEOREM BlocksStaySound == Spec => []BlocksSound
<1>1. CacheInv => BlocksSound
  BY InvFollows
<1> QED
  BY <1>1, Invariance, PTL

=============================================================================
