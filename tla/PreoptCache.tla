---------------------------- MODULE PreoptCache ----------------------------
(***************************************************************************)
(* Method caches the shared cache builder made in advance: the word        *)
(* _bucketsAndMaybeMask in its four storage layouts, and the life of a     *)
(* class's constant cache, from the disguise it wears until +initialize is *)
(* over to the change of methods that makes the runtime drop it.           *)
(*                                                                         *)
(* A word is the set of its one bits.  An address is a number below 2^16,  *)
(* multiple of 16.  A dynamic cache is not modelled beyond its word: a     *)
(* class that has one answers from its method lists (see MethodCache).     *)
(* Every step is made under runtimeLock.                                   *)
(***************************************************************************)
EXTENDS Naturals, Sequences, FiniteSets

CONSTANTS
    Chain,          \* <<the root, its subclass, that one's subclass, ...>>
    Own,            \* class -> the selectors it implements when the builder sees it
    Inlined,        \* the selectors the builder may copy from any ancestor
    MaxChanges,     \* bound: changes of methods
    MaxMask,        \* a cache, constant or not, holds up to 2^MaxMask entries
    Shift           \* the hash shift of a constant cache

VARIABLES
    layout,         \* which CACHE_MASK_STORAGE, and whether pointers are signed
    built,          \* class -> its preopt_cache_t, NoCache without one
    overridden,     \* classes of an image that replaces one of the shared cache
    imps,           \* class -> selector -> implementation
    word,           \* class -> _bucketsAndMaybeMask
    given,          \* class -> the buckets and mask last stored there
    realized, initialized,
    noCaches,       \* classes with RW_NOPREOPT_CACHE
    noSels,         \* classes with RW_NOPREOPT_SELS
    dropped,        \* classes whose own constant cache a replaced method has cost them
    missed,         \* <<class, selector>>: replaced before the class was realized
    changes

vars == <<layout, built, overridden, imps, word, given, realized, initialized,
          noCaches, noSels, dropped, missed, changes>>

Depth == 1 .. Len(Chain)        \* a class is its place in Chain
Selectors == UNION {Own[Chain[c]] : c \in Depth}
Above(c) == 1 .. c - 1
Below(c) == {d \in realized : d >= c}
NoCache == [fallback |-> 0]

Layouts == {"outlined", "high16", "high16_ptrauth", "high16_big", "low4"}
UsesPreopt == layout \in {"high16", "high16_ptrauth"}   \* CONFIG_USE_PREOPT_CACHES

-----------------------------------------------------------------------------
(* Words.                                                                  *)
ToBits(n) == {i \in 0 .. 15 : (n \div 2^i) % 2 = 1}
RECURSIVE FromBits(_)
FromBits(B) == IF B = {} THEN 0 ELSE LET b == CHOOSE b \in B : TRUE IN 2^b + FromBits(B \ {b})
ShiftLeft(B, n) == {b + n : b \in B}
ShiftRight(B, n) == {b - n : b \in {x \in B : x >= n}}

(* A mask of k one bits, and how far 0xffff (or 0x7fff) is shifted for it. *)
Mask(k) == 0 .. k - 1
mask16ShiftBits(k) == 16 - k

maskShift == 48
bucketsMask ==
    CASE layout = "high16_big" -> 0 .. 47
      [] layout = "low4" -> 4 .. 31
      [] layout = "outlined" -> 0 .. 63
      [] OTHER -> 0 .. 43       \* maskZeroBits = 4 more bits are zero
preoptBucketsMarker == 0
preoptBucketsMask == IF layout = "high16_ptrauth" THEN 1 .. 54 ELSE 1 .. 47

(* The address of _objc_empty_cache, whose word is a cache of its own: in  *)
(* the low layout 15 is added to it, for a mask of one bit.                *)
EmptyAddress == 64
emptyBuckets == [buckets |-> EmptyAddress, k |-> IF layout = "low4" THEN 1 ELSE 0]
EmptyWord == ToBits(IF layout = "low4" THEN EmptyAddress + 15 ELSE EmptyAddress)

(* setBucketsAndMask; the outlined mask is a word of its own, kept in      *)
(* "given".                                                                *)
Packed(b) ==
    CASE layout = "outlined" -> ToBits(b.buckets)
      [] layout = "low4" -> ToBits(b.buckets) \cup ToBits(mask16ShiftBits(b.k))
      [] OTHER -> ShiftLeft(Mask(b.k), maskShift) \cup ToBits(b.buckets)
bucketsOf(w) == FromBits(w \cap bucketsMask)
maskOf(c) ==
    CASE layout = "outlined" -> Mask(given[c].k)
      [] layout = "low4" -> Mask(16 - FromBits(word[c] \cap (0 .. 3)))
      [] OTHER -> ShiftRight(word[c], maskShift)

(* Signing a pointer, with the class as discriminator.                     *)
Signed(B, c) == IF layout = "high16_ptrauth" THEN B \cup {47 + c} ELSE B
Authenticated(B, c) ==
    IF layout = "high16_ptrauth" /\ 47 + c \in B THEN B \ {47 + c} ELSE B

(* A preopt_cache_t lies at a fixed address of the shared cache; its eight *)
(* bytes of header end in bit_one, where a bucket_t would have the top bit *)
(* of its selector; its entries follow.                                    *)
Address(c) == 1024 + 64 * c
AtAddress(a) == IF \E c \in Depth : a = Address(c) /\ built[c] # NoCache
                THEN (a - 1024) \div 64 ELSE 0

preoptBucketsHashParams_Unshortened(p) ==
    IF layout = "high16_ptrauth"
    THEN ShiftLeft(ToBits(p.shift), 55) \cup ShiftLeft(ToBits(mask16ShiftBits(p.k)), 60)
    ELSE ShiftLeft(ToBits(p.shift), 48) \cup ShiftLeft(Mask(p.k), 53)
preoptBucketsHashParams(p) ==
    IF layout = "high16_ptrauth"
    THEN ShiftLeft(ToBits(p.shift), 55) \cup ShiftLeft(ToBits(mask16ShiftBits(p.k) - 1), 60)
    ELSE ShiftLeft(ToBits(p.shift), 48) \cup ShiftLeft(Mask(p.k), 53)

(* What objc_msgSend takes for the hash of a constant cache.               *)
HashOf(w) ==
    IF layout = "high16_ptrauth"
    THEN [shift |-> FromBits(ShiftRight(w, 55) \cap (0 .. 4)),
          k |-> 15 - FromBits(ShiftRight(w, 60))]
    ELSE [shift |-> FromBits(ShiftRight(w, 48) \cap (0 .. 4)),
          k |-> Cardinality(ShiftRight(w, 53))]

preopt_cache(w, c) == FromBits(Authenticated(w \cap preoptBucketsMask, c)) - 8

(* A bucket_t is an implementation and a selector, of eight bytes each; a  *)
(* selector with the top bit set is no selector.                           *)
Disguise(c) == [buckets |-> Address(c) + 8 - 16, k |-> 0]
disguised_preopt_cache(w) == AtAddress(bucketsOf(w) + 8 + 8 - 8)

IsStrict(w) == UsesPreopt /\ preoptBucketsMarker \in w
isConstantOptimizedCache(c) ==
    UsesPreopt /\ (IsStrict(word[c]) \/ (maskOf(c) = {} /\ word[c] # EmptyWord))

-----------------------------------------------------------------------------
(* What the builder puts into a constant cache (it is not part of the      *)
(* repository): all the methods from the class up to, and without, its     *)
(* fallback class, and the inlined selectors, whoever implements them.     *)
(* Only classes with a constant cache are flattened into another one's,    *)
(* and into one with inlined selectors if they have some.                  *)
Owners(c, s) == {d \in 1 .. c : s \in Own[Chain[d]]}
Nearest(S) == CHOOSE d \in S : \A e \in S : e <= d
Imp(c, s, version) == <<c, s, version>>
Entries(c) ==
    LET p == built[c]
        has == {s \in Selectors : /\ Owners(c, s) # {}
                             /\ \/ Nearest(Owners(c, s)) > p.fallback
                                \/ p.has_inlines /\ s \in Inlined} IN
    [s \in has |-> Imp(Nearest(Owners(c, s)), s, 0)]

Buildable(b) ==
    \A c \in Depth : b[c] # NoCache =>
        \A d \in b[c].fallback + 1 .. c - 1 :
            b[d] # NoCache /\ (b[d].has_inlines => b[c].has_inlines)

Init ==
    /\ layout \in Layouts
    /\ built \in {b \in [Depth -> {NoCache} \cup
                            [fallback : Above(Len(Chain)), has_inlines : BOOLEAN,
                             shift : {Shift}, k : {MaxMask}]] :
                    /\ b[1] = NoCache
                    /\ \A c \in Depth \ {1} : b[c] # NoCache => b[c].fallback < c
                    /\ (~UsesPreopt => \A c \in Depth : b[c] = NoCache)
                    /\ Buildable(b)}
    /\ overridden \in {{}, {2}}
    /\ imps = [c \in Depth |-> [s \in Own[Chain[c]] |->
                                     Imp(c, s, IF c \in overridden THEN 1 ELSE 0)]]
    /\ word = [c \in Depth |-> EmptyWord]
    /\ given = [c \in Depth |-> emptyBuckets]
    /\ realized = {} /\ initialized = {}
    /\ noCaches = {} /\ noSels = {} /\ dropped = {} /\ missed = {}
    /\ changes = 0

-----------------------------------------------------------------------------
(* setBucketsAndMask for every class of S.                                 *)
setBucketsAndMask(S, b) ==
    /\ word' = [c \in Depth |-> IF c \in S THEN Packed(b[c]) ELSE word[c]]
    /\ given' = [c \in Depth |-> IF c \in S THEN b[c] ELSE given[c]]
Erased(S) == setBucketsAndMask(S, [c \in S |-> emptyBuckets])

(* setDisallowPreoptCachesRecursively: the classes it reaches, and those   *)
(* of them whose cache is dropped at once (a disguised one is dropped when *)
(* its class is initialized).                                              *)
DisallowedBelow(c) == IF c \in noCaches THEN {} ELSE Below(c) \ noCaches
SelsDisallowedBelow(c) == IF c \in noSels THEN {} ELSE Below(c) \ noSels
StrictAmong(S) == {c \in S : IsStrict(word[c])}

(* initializeToEmptyOrPreoptimizedInDisguise, and what addSubclass takes   *)
(* over from the superclass.                                               *)
realizeClass_OwnFlagsOnly(c) ==
    /\ c \notin realized /\ Above(c) \subseteq realized
    /\ realized' = realized \cup {c}
    /\ LET app == c \in overridden
           refused == app /\ overridden # {} IN
       /\ IF built[c] # NoCache /\ ~app
          THEN setBucketsAndMask({c}, [x \in {c} |-> Disguise(c)])
          ELSE /\ word' = [word EXCEPT ![c] = EmptyWord]
               /\ given' = [given EXCEPT ![c] = emptyBuckets]
       /\ noCaches' = IF refused THEN noCaches \cup {c} ELSE noCaches
       /\ noSels' = IF refused THEN noSels \cup {c} ELSE noSels
    /\ UNCHANGED <<layout, built, overridden, imps, initialized, dropped,
                   missed, changes>>
realizeClass(c) ==
    /\ c \notin realized /\ Above(c) \subseteq realized
    /\ realized' = realized \cup {c}
    /\ LET app == c \in overridden
           refused == UsesPreopt /\ (app \/ (c > 1 /\ c - 1 \in noCaches))
           unsel == UsesPreopt /\ c > 1 /\ c - 1 \in noSels IN
       /\ IF built[c] # NoCache /\ ~app
          THEN setBucketsAndMask({c}, [x \in {c} |-> Disguise(c)])
          ELSE /\ word' = [word EXCEPT ![c] = EmptyWord]
               /\ given' = [given EXCEPT ![c] = emptyBuckets]
       /\ noCaches' = IF refused THEN noCaches \cup {c} ELSE noCaches
       /\ noSels' = IF refused \/ unsel THEN noSels \cup {c} ELSE noSels
    /\ UNCHANGED <<layout, built, overridden, imps, initialized, dropped,
                   missed, changes>>

(* setInitialized, maybeConvertToPreoptimized.                             *)
setInitialized(c) ==
    /\ c \in realized \ initialized /\ Above(c) \subseteq initialized
    /\ initialized' = initialized \cup {c}
    /\ LET d == IF UsesPreopt THEN disguised_preopt_cache(word[c]) ELSE 0
           p == built[d] IN
       IF d = 0 THEN UNCHANGED <<word, given>>
       ELSE IF c \in noCaches \/ (p.has_inlines /\ c \in noSels) THEN Erased({c})
       ELSE /\ word' = [word EXCEPT ![c] = Signed(ToBits(Address(d) + 8), c)
                            \cup preoptBucketsHashParams(p) \cup {preoptBucketsMarker}]
            /\ UNCHANGED given
    /\ UNCHANGED <<layout, built, overridden, imps, realized, noCaches, noSels,
                   dropped, missed, changes>>

(* prepareMethodLists for a category or an added method.                   *)
AddMethod(c, s) ==
    /\ c \in realized /\ changes < MaxChanges /\ changes' = changes + 1
    /\ imps' = [imps EXCEPT ![c] = [x \in DOMAIN @ \cup {s} |->
                                            IF x = s THEN Imp(c, s, 2 + changes) ELSE @[x]]]
    /\ LET all == IF isConstantOptimizedCache(c) THEN DisallowedBelow(c) ELSE {}
           sels == IF ~isConstantOptimizedCache(c) /\ UsesPreopt /\ s \in Inlined
                   THEN SelsDisallowedBelow(c) ELSE {}
           inlining == {d \in StrictAmong(sels) : built[AtAddress(preopt_cache(word[d], d))].has_inlines}
           erased == StrictAmong(all) \cup inlining IN
       /\ Erased(erased)
       /\ noCaches' = noCaches \cup all \cup inlining
       /\ noSels' = noSels \cup all \cup sels
    /\ UNCHANGED <<layout, built, overridden, realized, initialized, dropped,
                   missed>>

(* shouldFlush: a constant cache, disguised or not, that has the method.   *)
shouldFlush(d, s, old) ==
    LET at == IF IsStrict(word[d]) THEN AtAddress(preopt_cache(word[d], d))
              ELSE disguised_preopt_cache(word[d]) IN
    UsesPreopt /\ at # 0 /\ s \in DOMAIN Entries(at) /\ Entries(at)[s] = old

(* _method_setImplementation.  eraseNolock gives up the constant cache of  *)
(* the classes that have the old implementation, and of those alone.       *)
setImplementation_NoFlush(c, s) ==
    /\ c \in realized /\ s \in DOMAIN imps[c]
    /\ changes < MaxChanges /\ changes' = changes + 1
    /\ imps' = [imps EXCEPT ![c][s] = Imp(c, s, 2 + changes)]
    /\ UNCHANGED <<layout, built, overridden, word, given, realized, initialized,
                   noCaches, noSels, dropped, missed>>
setImplementation(c, s) ==
    /\ c \in realized /\ s \in DOMAIN imps[c]
    /\ changes < MaxChanges /\ changes' = changes + 1
    /\ imps' = [imps EXCEPT ![c][s] = Imp(c, s, 2 + changes)]
    /\ LET flushed == {d \in realized : shouldFlush(d, s, imps[c][s])} IN
       /\ Erased(flushed)
       /\ noCaches' = noCaches \cup flushed
       /\ noSels' = noSels \cup flushed
       /\ dropped' = dropped \cup flushed
       /\ missed' = missed \cup {<<d, x>> \in (Depth \ realized) \X (Inlined \cap {s}) : d > c}
    /\ UNCHANGED <<layout, built, overridden, realized, initialized>>

(* cache_t::reallocate, of a cache that is not constant.                   *)
Reallocate(c) ==
    /\ c \in initialized /\ ~isConstantOptimizedCache(c)
    /\ setBucketsAndMask({c}, [x \in {c} |-> [buckets |-> 4096, k |-> MaxMask]])
    /\ word' # word
    /\ UNCHANGED <<layout, built, overridden, imps, realized, initialized, noCaches,
                   noSels, dropped, missed, changes>>

Next == \E c \in Depth :
    \/ realizeClass(c) \/ setInitialized(c) \/ Reallocate(c)
    \/ \E s \in Selectors : AddMethod(c, s) \/ setImplementation(c, s)
Spec == Init /\ [][Next]_vars

-----------------------------------------------------------------------------
(* What a message to the class finds: in a constant cache its entry, or    *)
(* what the fallback class finds; else the class's lists and superclass.   *)
Answer[c \in 0 .. Len(Chain), s \in Selectors] ==
    IF c = 0 THEN <<>>
    ELSE IF IsStrict(word[c])
    THEN LET at == AtAddress(preopt_cache(word[c], c)) IN
         IF s \in DOMAIN Entries(at) THEN Entries(at)[s] ELSE Answer[built[at].fallback, s]
    ELSE IF s \in DOMAIN imps[c] THEN imps[c][s] ELSE Answer[c - 1, s]
Find(c, s) ==
    LET has == {d \in 1 .. c : s \in DOMAIN imps[d]} IN
    IF has = {} THEN <<>> ELSE imps[Nearest(has)][s]

(* Two stale answers the code does give.  eraseNolock drops the cache of a *)
(* class and disallows caches, and inlined selectors, for that class       *)
(* alone: a method that is added to it afterwards is not found through the *)
(* constant caches of its subclasses, which fall back to a class above it  *)
(* or have the selector inlined.  And a replaced method stays inlined in   *)
(* the caches of classes that are realized later.                          *)
LeftBelow(c, s) ==
    \E d \in 1 .. c - 1, e \in 2 .. c :
        /\ d \in dropped /\ s \in DOMAIN imps[d] /\ Find(c, s) = imps[d][s]
        /\ d < e /\ IsStrict(word[e])
        /\ built[e].fallback < d \/ s \in DOMAIN Entries(e)
LeftInlined(c, s) ==
    \E e \in 1 .. c : <<e, s>> \in missed /\ IsStrict(word[e]) /\ s \in DOMAIN Entries(e)

(* "this class and its descendants can't have preopt caches", and          *)
(* "constant caches have been dealt with in prepareMethodLists [;] if the  *)
(* class still is constant here, it's fine to keep": below a class with    *)
(* RW_NOPREOPT_CACHE no constant cache, if there is one, answers with a    *)
(* method that a message should not find.                                  *)
NoStaleCacheBelow ==
    \A c \in noCaches : \A d \in Below(c) \cap initialized, s \in Selectors :
        IsStrict(word[d]) /\ ~LeftInlined(d, s) => Answer[d, s] = Find(d, s)

(* A constant cache answers what a search of the lists finds, also after   *)
(* methods were overridden, added or replaced since the shared cache was   *)
(* built, but for the two stale answers above.  A class                    *)
(* that is not initialized has no cache a message can hit, and the word    *)
(* always gives back the pointer and the mask, or the constant cache and   *)
(* its hash, that were stored in it.                                       *)
PreoptSound ==
    /\ \A c \in initialized, s \in Selectors :
         \/ Answer[c, s] = Find(c, s)
         \/ LeftBelow(c, s)
         \/ LeftInlined(c, s)
    /\ \A c \in realized \ initialized :
         /\ ~IsStrict(word[c])
         /\ word[c] = EmptyWord \/ disguised_preopt_cache(word[c]) = c
    /\ \A c \in realized :
         IF IsStrict(word[c])
         THEN /\ preopt_cache(word[c], c) = Address(c)
              /\ HashOf(word[c]) = [shift |-> built[c].shift, k |-> built[c].k]
         ELSE /\ bucketsOf(word[c]) = given[c].buckets
              /\ maskOf(c) = Mask(given[c].k)
=============================================================================
