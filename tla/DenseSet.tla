------------------------------ MODULE DenseSet ------------------------------
(***************************************************************************)
(* DenseSet and SmallDenseSet (llvm-DenseSet.h): a DenseMap whose entries  *)
(* are keys alone, for every type of key that llvm-DenseMapInfo.h names.   *)
(* A type sets two of its values aside, says what hashes and what is equal;*)
(* strings are equal when their characters are, whatever their addresses.  *)
(***************************************************************************)
EXTENDS Integers, Sequences, SequencesExt, FiniteSets

CONSTANTS
    Types,          \* types of keys, by their C++ names; a subset of those below
    Bits,           \* the width of each integer type
    Texts,          \* strings: sequences of characters
    InlineSizes,    \* InlineBuckets of a SmallDenseSet; 0: a DenseSet
    MinBuckets,
    KeysOf,         \* for each type, the keys that programs use
    Reservations

VARIABLES
    type, InlineBuckets,    \* never change
    set,
    members                 \* what should be in it

Wrap(n) == n % 2^Bits
Unsigned == 0 .. 2^Bits - 1
SignedWords == -(2^(Bits - 1)) .. 2^(Bits - 1) - 1

----------------------------------------------------------------------------
(* DenseMapInfo.  The mixing of pointers and pairs is left to collide.     *)
_objc_strhash(text) == FoldLeft(LAMBDA hash, a : Wrap(hash + 256 * hash + a), 0, text)
ptr_hash(pointer) == pointer \div 4
Times37(n) == Wrap(n * 37)

Pointers == Texts \X (0 .. 2)       \* strings: what they say, and where they are

IntegerInfo(values, empty, tombstone) ==
    [empty |-> empty, tombstone |-> tombstone, values |-> values, hash |-> [v \in values |-> Times37(v)]]
PointerInfo(empty, tombstone) ==
    [empty |-> empty, tombstone |-> tombstone, values |-> Unsigned, hash |-> [v \in Unsigned |-> ptr_hash(v)]]

\* DisguisedPtr keeps minus the pointer, so -1 and -2 are kept as 1 and 2.
DisguisedKey(pointer) == Wrap(-pointer)
MinusOne == 2^Bits - 1
MinusTwo == 2^Bits - 2

Info == [ty \in Types |->
    CASE ty = "T *" -> PointerInfo(MinusOne, MinusTwo)
      [] ty = "DisguisedPtr" ->
            [PointerInfo(DisguisedKey(MinusOne), DisguisedKey(MinusTwo)) EXCEPT
               !.hash = [v \in Unsigned |-> ptr_hash(Wrap(-v))]]
      [] ty = "const char *" ->
            [empty |-> <<-1>>, tombstone |-> <<-2>>, values |-> Texts \cup {<<-1>>, <<-2>>},
             hash |-> [t \in Texts |-> _objc_strhash(t)]]
      [] ty = "char" -> IntegerInfo(SignedWords, -1, -2)
      [] ty \in {"unsigned", "unsigned long", "unsigned long long"} ->
            IntegerInfo(Unsigned, MinusOne, MinusTwo)
      [] ty \in {"int", "long long"} ->
            IntegerInfo(SignedWords, 2^(Bits - 1) - 1, -(2^(Bits - 1) - 1) - 1)
      [] ty = "long" -> IntegerInfo(SignedWords, 2^(Bits - 1) - 1, 2^(Bits - 1) - 2)
      [] ty = "pair" ->
            [empty |-> <<MinusOne, 2^(Bits - 1) - 1>>, tombstone |-> <<MinusTwo, -(2^(Bits - 1))>>,
             values |-> Unsigned \X SignedWords,
             hash |-> [v \in Unsigned \X SignedWords |-> Times37(v[1]) + Times37(v[2])]]]

\* isEqual: keys are equal when they have this in common.
Same(ty, key) == IF ty = "const char *" THEN key[1] ELSE key

----------------------------------------------------------------------------
(* A set is a map without values, and the key each of its entries keeps.   *)
DM(ty, inline) == INSTANCE DenseMap WITH
    Keys <- {Same(ty, k) : k \in KeysOf[ty]}, Values <- {"in"}, DefaultValue <- "in", Purgeable <- {},
    EmptyKey <- Info[ty].empty, TombstoneKey <- Info[ty].tombstone, Absent <- "absent",
    HashValue <- Info[ty].hash, InlineChoices <- {}, Reservations <- {},
    MIN_BUCKETS <- MinBuckets, MIN_COMPACT <- 64, UnsignedBits <- 16,
    InlineBuckets <- inline, map <- {}, other <- {}, corrupt <- FALSE

NewSet(ty, inline, n) == [table |-> DM(ty, inline)!init(n), keeps |-> <<>>]

contains(ty, inline, s, key) == DM(ty, inline)!find(s.table, Same(ty, key)) # "absent"

\* *find(key); *insert(key).first: the key that is in the set, not the one asked for.
stored(ty, s, key) == s.keeps[Same(ty, key)]

insert_ReplacesKey(ty, inline, s, key) ==
    [table |-> DM(ty, inline)!try_emplace(s.table, Same(ty, key), "in"),
     keeps |-> [k \in DOMAIN s.keeps \cup {Same(ty, key)} |-> IF k = Same(ty, key) THEN key ELSE s.keeps[k]]]

insert(ty, inline, s, key) ==
    [table |-> DM(ty, inline)!try_emplace(s.table, Same(ty, key), "in"),
     keeps |-> IF contains(ty, inline, s, key) THEN s.keeps
               ELSE [k \in DOMAIN s.keeps \cup {Same(ty, key)} |->
                       IF k = Same(ty, key) THEN key ELSE s.keeps[k]]]

insertRange(ty, inline, s, keys) == FoldLeft(LAMBDA acc, k : insert(ty, inline, acc, k), s, keys)

erase(ty, inline, s, key) ==
    [table |-> DM(ty, inline)!erase(s.table, Same(ty, key)),
     keeps |-> [k \in DOMAIN s.keeps \ {Same(ty, key)} |-> s.keeps[k]]]

\* What an iteration meets; empty buckets and tombstones are passed over.
Iterated(ty, inline, s) == {s.table.Buckets[i].key : i \in DM(ty, inline)!Iterated(s.table)}

Equal(ty, inline, lhs, rhs) ==
    /\ lhs.table.NumEntries = rhs.table.NumEntries
    /\ \A k \in Iterated(ty, inline, lhs) : DM(ty, inline)!find(rhs.table, k) # "absent"

----------------------------------------------------------------------------
Init ==
    /\ type \in Types /\ InlineBuckets \in InlineSizes
    /\ \E ty \in Types, inline \in InlineSizes :
           ty = type /\ inline = InlineBuckets /\ set = NewSet(ty, inline, 0)
    /\ members = {}

Insert(ty, inline, key) ==
    /\ set' = insert(ty, inline, set, key)
    /\ members' = IF \E m \in members : Same(ty, m) = Same(ty, key) THEN members ELSE members \cup {key}
    /\ UNCHANGED <<type, InlineBuckets>>

Erase(ty, inline, key) ==
    /\ set' = erase(ty, inline, set, key)
    /\ members' = {m \in members : Same(ty, m) # Same(ty, key)}
    /\ UNCHANGED <<type, InlineBuckets>>

Clear(ty, inline) ==
    /\ set' = [table |-> DM(ty, inline)!clear(set.table), keeps |-> <<>>]
    /\ members' = {}
    /\ UNCHANGED <<type, InlineBuckets>>

Reserve(ty, inline, n) ==
    /\ set' = [set EXCEPT !.table = DM(ty, inline)!reserve(@, n)]
    /\ UNCHANGED <<type, InlineBuckets, members>>

\* A set of the range of another one, in some order, takes its place.
Assemble(ty, inline) ==
    /\ set' = insertRange(ty, inline, NewSet(ty, inline, 0), SetToSeq(members))
    /\ UNCHANGED <<type, InlineBuckets, members>>

Next == \E ty \in Types, inline \in InlineSizes :
    /\ ty = type /\ inline = InlineBuckets
    /\ \/ \E k \in KeysOf[ty] : Insert(ty, inline, k) \/ Erase(ty, inline, k)
       \/ Clear(ty, inline) \/ Assemble(ty, inline)
       \/ \E n \in Reservations : Reserve(ty, inline, n)

(* A set of any type of key holds what was inserted and not erased, each   *)
(* once: the key that was inserted first of those equal to it stays the    *)
(* one that is kept, which makes a selector of a name.  A search ends, the *)
(* values that are set aside are two, and == compares members, however the *)
(* sets came about.                                                        *)
SetHolds ==
    \E ty \in Types, inline \in InlineSizes :
        /\ ty = type /\ inline = InlineBuckets
        /\ Info[ty].empty # Info[ty].tombstone
        /\ {Info[ty].empty, Info[ty].tombstone} \subseteq Info[ty].values
        /\ Iterated(ty, inline, set) = {Same(ty, m) : m \in members}
        /\ set.table.NumEntries = Cardinality(members)
        /\ \A k \in KeysOf[ty] :
              /\ ~DM(ty, inline)!Corrupts(set.table, Same(ty, k))
              /\ contains(ty, inline, set, k) = (\E m \in members : Same(ty, m) = Same(ty, k))
        /\ \A m \in members : stored(ty, set, m) = m
        /\ \A some \in SUBSET members :
              Equal(ty, inline, insertRange(ty, inline, NewSet(ty, inline, 0), SetToSeq(some)), set)
                = (some = members)

=============================================================================
