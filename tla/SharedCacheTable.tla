--------------------------- MODULE SharedCacheTable ---------------------------
(***************************************************************************)
(* The precomputed tables of the dyld shared cache, PrivateHeaders/        *)
(* objc-shared-cache.h: the builder looks for a perfect hash of the names  *)
(* and writes the table; the runtime looks selectors, classes and          *)
(* protocols up in it, without ever writing to it.                         *)
(*                                                                         *)
(* lookup8() is taken as an arbitrary function of the name and the salt:   *)
(* each salt of findhash() draws one from HashFunctions.                   *)
(***************************************************************************)
EXTENDS Integers, Sequences, FiniteSets, FiniteSetsExt, SequencesExt, Bitwise

CONSTANTS
    Names,          \* records: first (character), len and the rest of the string
    Strings,        \* the sets of names a table may be made of
    AddressesOf,    \* name -> sequence of its (class, header) addresses
    FarNames, FarAddresses, \* what is too far away for a 32-bit offset
    UB8BITS,        \* the width of a hash: 64
    HashFunctions,  \* what lookup8() may be, for one salt
    SCRAMBLE_LEN,   \* 256, also the values of tab[] that augment() tries
    RETRY_INITKEY, RETRY_PERFECT,
    SectionSizes,   \* the bytes the section may have left
    MaxSalts        \* bound on the salts tried

VARIABLES
    table,     \* "selopt", "clsopt" or "protocolopt": what is written
    strings,   \* its names
    remaining, \* the bytes left in the section
    phase,     \* "start", "search", "perfect", "write", "entries"; at the end
               \* "empty", "done" or "failed"
    si, lookup8, \* the number of the salt, and the hash it gives
    smax, alen, blen, bad_initkey, bad_perfect,
    scramble,  \* the slot is a ^ scramble[tab[b]]
    mapping,   \* what perfect() found: ok, tab[] and tabh[], the length of tabq[]
    phash,     \* make_perfect()'s result
    offsets, checkbytes, classOffsets, duplicateOffsets, \* table
    todo       \* the names whose entries are not written yet

search == <<si, lookup8, smax, alen, blen, bad_initkey, bad_perfect, scramble, mapping, phash>>
written == <<offsets, checkbytes, classOffsets, duplicateOffsets, todo>>
vars == <<table, strings, remaining, phase, search, written>>

-----------------------------------------------------------------------------
(* The search for a perfect hash *)

\* The ceiling of the logarithm.
log2u(val) == CHOOSE i \in 0 .. UB8BITS : 2^i >= val /\ (i = 0 \/ 2^(i-1) < val)

\* A permutation of 0 .. 2^nbits - 1: 20 rounds of shifts, sums and exclusive ors.
permute(x, nbits) ==
    LET Add(y, c) == (y + y * 2^c) % 2^nbits
        Mix(y, c) == y ^^ (y \div 2^c)
        round[i \in 0 .. 20] ==
            IF i = 0 THEN x
            ELSE Mix(Add(Mix(Add(round[i - 1], 1 + nbits \div 2), 1 + nbits \div 3),
                         1 + nbits \div 4), 1 + nbits \div 5)
    IN  round[20]

scrambleinit(max) == [i \in 0 .. SCRAMBLE_LEN - 1 |-> permute(i, log2u(max))]

\* The two parts of a hash: the high bits and the low bits.
a_k(hash, a) == IF a > 1 THEN hash \div 2^(UB8BITS - log2u(a)) ELSE 0
b_k(hash, b) == IF b > 1 THEN hash % b ELSE 0

\* The first guess of the table's sizes (nkeys <= smax * 0.6 and * 0.8).
initalen(max, nkeys) ==
    [alen |-> Max({max, 1}),
     blen |-> Max({1, IF nkeys * 10 <= max * 6 THEN max \div 16
                      ELSE IF nkeys * 10 <= max * 8 THEN max \div 8
                      ELSE max \div 4})]

\* Mutant: two keys with the same (a,b) go unnoticed.
inittab_IgnoresCollision(hash, a, b) == TRUE

\* Whether no two keys have the same (a,b).
inittab(hash, a, b) ==
    \A k, l \in strings : k # l =>
        <<a_k(hash[k], a), b_k(hash[k], b)>> # <<a_k(hash[l], a), b_k(hash[l], b)>>

NoKey == [first |-> 0, len |-> 0, rest |-> 0]

\* Give list b the value i.  A slot that is taken undoes everything.
apply(t, keys, b, i, hash, a) ==
    LET Slot(k, v) == a_k(hash[k], a) ^^ scramble[v]
        erased == [s \in DOMAIN t.tabh |->
                     IF \E k \in keys : Slot(k, t.val[b]) = s /\ t.tabh[s] = k
                     THEN NoKey ELSE t.tabh[s]]
    IN  IF \E k \in keys : erased[Slot(k, i)] # NoKey
        THEN [ok |-> FALSE, t |-> t]
        ELSE [ok |-> TRUE,
              t |-> [val  |-> [t.val EXCEPT ![b] = i],
                     tabh |-> [s \in DOMAIN t.tabh |->
                                 IF \E k \in keys : Slot(k, i) = s
                                 THEN CHOOSE k \in keys : Slot(k, i) = s
                                 ELSE erased[s]],
                     tail |-> t.tail]]

\* Mutant: a list is queued again by every value that hits it.
augment_NoWaterMark(t, keys, b, hash, a, bl) ==
    LET Slots(i)   == {a_k(hash[k], a) ^^ scramble[i] : k \in keys}
        InRange(i) == Slots(i) \subseteq DOMAIN t.tabh
        HitLists(i) == {b_k(hash[t.tabh[s]], bl) : s \in {s \in Slots(i) : t.tabh[s] # NoKey}}
        Free == {i \in 0 .. SCRAMBLE_LEN - 1 :
                    InRange(i) /\ HitLists(i) = {} /\ apply(t, keys, b, i, hash, a).ok}
        tried == 0 .. IF Free = {} THEN SCRAMBLE_LEN - 1 ELSE Min(Free) - 1
        queued == {i \in tried : InRange(i) /\ Cardinality(HitLists(i)) = 1}
        grown == [t EXCEPT !.tail = Max({@, 1 + Cardinality(queued)
                                            + (IF Free = {} THEN 0 ELSE 1)})]
    IN  IF Free = {} THEN [ok |-> FALSE, t |-> grown]
        ELSE apply(grown, keys, b, Min(Free), hash, a)

\* Map list b: the first value for which all its slots are in range and free.
\* Before it, each value that hits just one other list queues that list, once;
\* the queue is not followed any further.
augment(t, keys, b, hash, a, bl) ==
    LET Slots(i)   == {a_k(hash[k], a) ^^ scramble[i] : k \in keys}
        InRange(i) == Slots(i) \subseteq DOMAIN t.tabh
        HitLists(i) == {b_k(hash[t.tabh[s]], bl) : s \in {s \in Slots(i) : t.tabh[s] # NoKey}}
        Free == {i \in 0 .. SCRAMBLE_LEN - 1 :
                    InRange(i) /\ HitLists(i) = {} /\ apply(t, keys, b, i, hash, a).ok}
        tried == 0 .. IF Free = {} THEN SCRAMBLE_LEN - 1 ELSE Min(Free) - 1
        queued == UNION {HitLists(i) : i \in {i \in tried :
                            InRange(i) /\ Cardinality(HitLists(i)) = 1}}
        grown == [t EXCEPT !.tail = Max({@, 1 + Cardinality(queued)
                                            + (IF Free = {} THEN 0 ELSE 1)})]
    IN  IF Free = {} THEN [ok |-> FALSE, t |-> grown]
        ELSE apply(grown, keys, b, Min(Free), hash, a)

\* All lists, the longest first.
perfect(hash, a, bl, max) ==
    LET List(b) == {k \in strings : b_k(hash[k], bl) = b}
        Before(b, c) == \/ Cardinality(List(b)) > Cardinality(List(c))
                        \/ Cardinality(List(b)) = Cardinality(List(c)) /\ b < c
        order == SetToSortSeq({b \in 0 .. bl - 1 : List(b) # {}}, Before)
        empty == [val  |-> [b \in 0 .. bl - 1 |-> 0],
                  tabh |-> [s \in 0 .. max - 1 |-> NoKey], tail |-> 1]
        mapped[n \in 0 .. Len(order)] ==
            IF n = 0 THEN [ok |-> TRUE, t |-> empty]
            ELSE LET before == mapped[n - 1]
                 IN  IF ~before.ok THEN before
                     ELSE augment(before.t, List(order[n]), order[n], hash, a, bl)
    IN  mapped[Len(order)]

-----------------------------------------------------------------------------
(* Reading a table: v is lookup8(key, salt) *)

NotFound == -1

\* objc_stringhash_t::hash.
Hash(v) == (v \div 2^phash.shift) ^^ phash.scramble[phash.tab[v % (phash.mask + 1)]]

\* The low bits of the first character, and of the length.
checkbyte(key) == (key.first % 8) * 32 + (key.len % 32)

\* Offset 0 is no string.
getIndex(key, v) ==
    IF checkbytes[Hash(v)] # checkbyte(key) \/ offsets[Hash(v)] # {key}
    THEN NotFound ELSE Hash(v)

isDuplicate(c) == c.clsOffset % 2 = 1

\* getClassHeaderAndIndex() and then, for more than one, getClassesAndHeaders().
getClassesAndHeaders(key, v) ==
    LET h == getIndex(key, v)
        c == classOffsets[h]
    IN  IF h = NotFound THEN <<>>
        ELSE IF isDuplicate(c)
             THEN SubSeq(duplicateOffsets, c.hiOffset + 1, c.hiOffset + c.clsOffset \div 2)
             ELSE <<c>>

\* objc_protocolopt_t::getProtocol.
legacy_getProtocol(key, v) ==
    LET h == getIndex(key, v) IN IF h = NotFound THEN NotFound ELSE classOffsets[h].clsOffset

-----------------------------------------------------------------------------
(* Writing a table *)

NoMapping == [ok |-> FALSE, t |-> [tail |-> 0]]
NoHash == [capacity |-> 0]
NoEntry == [clsOffset |-> 0, hiOffset |-> 0]

Init ==
    /\ table \in {"selopt", "clsopt", "protocolopt"}
    /\ strings \in Strings /\ remaining \in SectionSizes
    /\ phase = "start"
    /\ si = 0 /\ lookup8 = <<>>
    /\ smax = 0 /\ alen = 0 /\ blen = 0 /\ bad_initkey = 0 /\ bad_perfect = 0
    /\ scramble = <<>> /\ mapping = NoMapping /\ phash = NoHash
    /\ offsets = <<>> /\ checkbytes = <<>> /\ classOffsets = <<>>
    /\ duplicateOffsets = <<>> /\ todo = {}

\* sizeof(objc_stringhash_t), and the sizes of the tables.
sizeof_stringhash == 1056
stringhash_size(ph) == sizeof_stringhash + (ph.mask + 1) + ph.capacity * 5
clsopt_size(ph, duplicates) ==
    stringhash_size(ph) + ph.capacity * 8 + 4 + duplicates * 8
protocolopt_size(ph) == stringhash_size(ph) + ph.capacity * 4

Fail == phase' = "failed" /\ UNCHANGED <<search, written>>

\* findhash() starts over for a range of max slots.
StartSearch(max) ==
    LET guess == initalen(max, Cardinality(strings)) IN
    /\ phase' = "search"
    /\ smax' = max /\ alen' = guess.alen /\ blen' = guess.blen
    /\ si' = 1 /\ lookup8' \in HashFunctions
    /\ bad_initkey' = 0 /\ bad_perfect' = 0
    /\ scramble' = scrambleinit(max)
    /\ UNCHANGED <<mapping, phash>>

\* objc_stringhash_t::write up to make_perfect().
Write ==
    /\ phase = "start"
    /\ \/ sizeof_stringhash > remaining /\ Fail
       \/ /\ sizeof_stringhash <= remaining /\ strings = {}
          /\ phase' = "empty"
          /\ UNCHANGED <<search, written>>
       \/ /\ sizeof_stringhash <= remaining /\ strings # {}
          /\ StartSearch(2^log2u(Cardinality(strings)))
          /\ UNCHANGED written
    /\ UNCHANGED <<table, strings, remaining>>

NextSalt ==
    /\ si < MaxSalts
    /\ si' = si + 1 /\ lookup8' \in HashFunctions

\* initnorm() and inittab() for this salt: two keys have the same (a,b).  After
\* RETRY_INITKEY of them a and b get more bits.
CollidingSalt ==
    LET enough == bad_initkey + 1 >= RETRY_INITKEY IN
    /\ phase = "search" /\ ~inittab(lookup8, alen, blen)
    /\ bad_initkey' = IF enough THEN 0 ELSE bad_initkey + 1
    /\ bad_perfect' = IF enough THEN 0 ELSE bad_perfect
    /\ alen' = IF enough /\ alen < smax THEN alen * 2 ELSE alen
    /\ blen' = IF enough /\ alen >= smax /\ blen < smax THEN blen * 2 ELSE blen
    /\ NextSalt
    /\ UNCHANGED <<table, strings, remaining, phase, smax, scramble, mapping, phash,
                   written>>

DistinctSalt ==
    /\ phase = "search" /\ inittab(lookup8, alen, blen)
    /\ phase' = "perfect"
    /\ mapping' = perfect(lookup8, alen, blen, smax)
    /\ UNCHANGED <<table, strings, remaining, si, lookup8, smax, alen, blen,
                   bad_initkey, bad_perfect, scramble, phash, written>>

\* No perfect hash with this salt.  The fourth time b gets another bit, and the
\* same salt is tried again; when b is as wide as a, findhash() gives up and
\* make_perfect() doubles the range once.
ImperfectSalt ==
    LET enough == bad_perfect + 1 >= RETRY_PERFECT
        first  == smax = 2^log2u(Cardinality(strings))
    IN
    /\ phase = "perfect" /\ ~mapping.ok
    /\ \/ /\ ~enough
          /\ phase' = "search" /\ bad_perfect' = bad_perfect + 1
          /\ NextSalt
          /\ UNCHANGED <<smax, alen, blen, bad_initkey, scramble, mapping, phash>>
       \/ /\ enough /\ blen < smax
          /\ phase' = "search" /\ bad_perfect' = 0 /\ blen' = blen * 2
          /\ UNCHANGED <<si, lookup8, smax, alen, bad_initkey, scramble, mapping, phash>>
       \/ /\ enough /\ blen >= smax
          /\ IF first THEN StartSearch(2 * smax)
             ELSE phase' = "failed" /\ UNCHANGED search
    /\ UNCHANGED <<table, strings, remaining, written>>

PerfectSalt ==
    /\ phase = "perfect" /\ mapping.ok
    /\ phase' = "write"
    /\ phash' = [capacity |-> smax, shift |-> UB8BITS - log2u(alen),
                 mask |-> blen - 1, tab |-> mapping.t.val, scramble |-> scramble]
    /\ UNCHANGED <<table, strings, remaining, si, lookup8, smax, alen, blen,
                   bad_initkey, bad_perfect, scramble, mapping, written>>

\* The string part; then the other tables add their entries.
WriteStrings ==
    LET At(h) == {k \in strings : Hash(lookup8[k]) = h}
        slots == 0 .. phash.capacity - 1
        Fits  == /\ stringhash_size(phash) <= remaining
                 /\ strings \cap FarNames = {}
                 /\ table = "clsopt" => clsopt_size(phash, 0) <= remaining
                 /\ table = "protocolopt" => protocolopt_size(phash) <= remaining
    IN
    /\ phase = "write"
    /\ \/ ~Fits /\ Fail
       \/ /\ Fits
          /\ phase' = IF table = "selopt" THEN "done" ELSE "entries"
          /\ offsets' = [h \in slots |-> At(h)]
          /\ checkbytes' = [h \in slots |-> IF At(h) = {} THEN 0
                                   ELSE checkbyte(CHOOSE k \in At(h) : TRUE)]
          /\ classOffsets' = [h \in slots |-> NoEntry]
          /\ todo' = strings
          /\ UNCHANGED <<search, duplicateOffsets>>
    /\ UNCHANGED <<table, strings, remaining>>

\* The entries of name k: the one class, or the number of classes and where
\* they are; the names come in any order.  A legacy protocol has only one.
WriteEntries(k) ==
    LET h == getIndex(k, lookup8[k])
        entries == IF table = "clsopt" THEN AddressesOf[k] ELSE SubSeq(AddressesOf[k], 1, 1)
        last == Len(duplicateOffsets)
        Fits == /\ h # NotFound
                /\ \A e \in Range(entries) :
                      {e.clsOffset, e.hiOffset} \cap FarAddresses = {}
                /\ Len(entries) > 1 =>
                      clsopt_size(phash, last + Len(entries)) <= remaining
    IN
    /\ phase = "entries" /\ k \in todo
    /\ \/ ~Fits /\ Fail
       \/ /\ Fits
          /\ classOffsets' = [classOffsets EXCEPT ![h] =
                IF Len(entries) = 1 THEN entries[1]
                ELSE [clsOffset |-> Len(entries) * 2 + 1, hiOffset |-> last]]
          /\ duplicateOffsets' = IF Len(entries) = 1 THEN duplicateOffsets
                                 ELSE duplicateOffsets \o entries
          /\ todo' = todo \ {k}
          /\ phase' = IF todo' = {} THEN "done" ELSE phase
          /\ UNCHANGED <<search, offsets, checkbytes>>
    /\ UNCHANGED <<table, strings, remaining>>

Next ==
    \/ Write \/ CollidingSalt \/ DistinctSalt \/ ImperfectSalt \/ PerfectSalt
    \/ WriteStrings
    \/ \E k \in Names : WriteEntries(k)

Spec == Init /\ [][Next]_vars

-----------------------------------------------------------------------------
(* Properties *)

\* What the runtime finds in a finished table is what the builder was given: a
\* name of the table has its own slot, and all its classes, in order, however
\* many salts, wider tables and second attempts it took; a name that is not in
\* it, whatever its hash is, reads a slot inside the table and is not found.
FindsWhatWasWritten ==
    phase = "done" =>
        /\ \A k \in strings : getIndex(k, lookup8[k]) # NotFound
        /\ \A k \in Names \ strings, v \in 0 .. 2^UB8BITS - 1 :
              /\ Hash(v) \in 0 .. phash.capacity - 1
              /\ getIndex(k, v) = NotFound
        /\ table = "clsopt" =>
              \A k \in strings : getClassesAndHeaders(k, lookup8[k]) = AddressesOf[k]
        /\ table = "protocolopt" =>
              \A k \in strings : legacy_getProtocol(k, lookup8[k]) = AddressesOf[k][1].clsOffset

\* tabq[] has blen + 1 places; augment() never needs more.
QueueHasRoom == phase \in {"perfect", "write"} => mapping.t.tail <= blen + 1
=============================================================================
