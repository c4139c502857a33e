------------------------------- MODULE IsaWord -------------------------------
(***************************************************************************)
(* The bits of an isa (isa.h), under every layout the sources define, and  *)
(* the other words that are signed or mixed with a class: a superclass     *)
(* pointer and an implementation in a method cache.  A word is the set of  *)
(* the positions of its one bits, so that & is \cap and | is \cup.         *)
(***************************************************************************)
EXTENDS Integers, Sequences, FiniteSets, SequencesExt

CONSTANTS
    Objects,        \* the places of isas, which their signatures depend on
    Layouts,        \* names of layouts; a subset of those below
    IndexesTaken,   \* how many indexes of classes may be gone at the start
    MaxRetains      \* bound: retains in a row

Classes == {"A", "B"}
None == "none"

VARIABLES
    layout,         \* one of Layouts
    isa,            \* the words of the objects
    superclass,     \* the word of the superclass field of "B"
    bucket,         \* the imp of a bucket: [word, sel, cls]
    index,          \* class_rw_t::index
    objc_indexed_classes,           \* [index -> class]
    objc_indexed_classes_count,
    requiresRawIsa, \* classes whose instances need a raw isa
    is              \* what each object's isa is meant to say
vars == <<layout, isa, superclass, bucket, index, objc_indexed_classes, objc_indexed_classes_count,
          requiresRawIsa, is>>

----------------------------------------------------------------------------
(* isa.h.  Fields are <<name, width>> from bit 0 up.                       *)
Bits(first, last) == first .. last
Packed(fields, mask, magicMask, magicValue, rcOne, va) ==
    [fields |-> fields, MASK |-> mask, MAGIC_MASK |-> magicMask, MAGIC_VALUE |-> magicValue,
     RC_ONE |-> rcOne, va |-> va, indexed |-> FALSE, sign |-> "NONE", auth |-> FALSE]

arm64e == Packed(<<<<"nonpointer", 1>>, <<"has_assoc", 1>>, <<"weakly_referenced", 1>>,
                   <<"shiftcls", 52>>, <<"has_sidetable_rc", 1>>, <<"extra_rc", 8>>>>,
                 Bits(3, 54), {0}, {0}, 56, 47)
arm64 == Packed(<<<<"nonpointer", 1>>, <<"has_assoc", 1>>, <<"has_cxx_dtor", 1>>, <<"shiftcls", 33>>,
                  <<"magic", 6>>, <<"weakly_referenced", 1>>, <<"unused", 1>>, <<"has_sidetable_rc", 1>>,
                  <<"extra_rc", 19>>>>,
                Bits(3, 35), {0} \cup Bits(36, 41), {0, 37, 39, 40}, 45, 36)
x86_64 == Packed(<<<<"nonpointer", 1>>, <<"has_assoc", 1>>, <<"has_cxx_dtor", 1>>, <<"shiftcls", 44>>,
                   <<"magic", 6>>, <<"weakly_referenced", 1>>, <<"unused", 1>>, <<"has_sidetable_rc", 1>>,
                   <<"extra_rc", 8>>>>,
                 Bits(3, 46), {0} \cup Bits(47, 52), {0, 47, 48, 50, 51, 52}, 56, 47)
indexedIsa ==       \* ISA_INDEX_*, for 32-bit pointers; a raw isa is the whole word
    [Packed(<<<<"nonpointer", 1>>, <<"has_assoc", 1>>, <<"indexcls", 15>>, <<"magic", 4>>,
              <<"has_cxx_dtor", 1>>, <<"weakly_referenced", 1>>, <<"unused", 1>>, <<"has_sidetable_rc", 1>>,
              <<"extra_rc", 7>>>>,
            Bits(2, 16), {0} \cup Bits(17, 20), {0, 18, 19, 20}, 25, 32) EXCEPT !.indexed = TRUE]

L == CASE layout = "arm64e" -> [arm64e EXCEPT !.sign = "ALL", !.auth = TRUE]
       [] layout = "arm64e_strips" -> [arm64e EXCEPT !.sign = "ALL"]
       [] layout = "arm64e_swift" -> [arm64e EXCEPT !.sign = "ONLY_SWIFT"]
       [] layout = "simulator" -> arm64e
       [] layout = "arm64" -> arm64
       [] layout = "x86_64" -> x86_64
       [] layout = "indexed" -> indexedIsa
ptrauth == layout \in {"arm64e", "arm64e_strips", "arm64e_swift"}
Width == IF L.indexed THEN 32 ELSE 64

FieldAt(name) == CHOOSE i \in DOMAIN L.fields : L.fields[i][1] = name
HasField(name) == \E i \in DOMAIN L.fields : L.fields[i][1] = name
Offset(name) == FoldLeft(LAMBDA n, f : n + f[2], 0, SubSeq(L.fields, 1, FieldAt(name) - 1))
PositionsOf(name) == Offset(name) .. Offset(name) + L.fields[FieldAt(name)][2] - 1

(* Reading and storing a bit-field, and a flag or a number in one.         *)
Shift(word, n) == {b + n : b \in {c \in word : c + n >= 0}}
Field(word, name) == Shift(word \cap PositionsOf(name), -Offset(name))
WithField(word, name, v) == (word \ PositionsOf(name)) \cup (Shift(v, Offset(name)) \cap PositionsOf(name))
Flag(v) == IF v THEN {0} ELSE {}
Number(word) == FoldLeft(LAMBDA n, b : n + IF b \in word THEN 2 ^ b ELSE 0, 0, [i \in 1 .. 30 |-> i - 1])
Word(n) == {b \in 0 .. 20 : (n \div 2 ^ b) % 2 = 1}

----------------------------------------------------------------------------
(* Addresses of classes, and signed pointers: a pointer's signature is in  *)
(* bits no address uses, and depends on the place the pointer is kept.     *)
Address(cls) == IF cls = "A" THEN {4, L.va - 1} ELSE {3, 5}
ClassAt(word) == IF \E c \in Classes : Address(c) = word THEN CHOOSE c \in Classes : Address(c) = word ELSE "fault"
ptrauth_sign(pointer, place) == pointer \cup {47 + ((Cardinality(pointer) + 3 * Number(pointer \cap 0 .. 5) + place) % 8)}
ptrauth_strip(word) == word \ Bits(47, 54)
ptrauth_auth(word, place) ==
    IF word = ptrauth_sign(ptrauth_strip(word), place) THEN ptrauth_strip(word) ELSE {63}

isSwiftStable(cls) == cls = "B"
hasCxxDtor(cls) == cls = "A"
canAllocNonpointer(cls) == cls \notin requiresRawIsa

setClass_SignedForNoPlace(word, cls, obj) ==
    IF L.indexed THEN Address(cls)
    ELSE WithField(word, "shiftcls", Shift(IF ptrauth THEN ptrauth_sign(Address(cls), 7) ELSE Address(cls), -3))

setClass(word, cls, obj) ==
    LET signs == ptrauth /\ (L.sign = "ALL" \/ (L.sign = "ONLY_SWIFT" /\ isSwiftStable(cls)))
        signedCls == IF signs THEN ptrauth_sign(Address(cls), obj) ELSE Address(cls)
    IN IF L.indexed THEN Address(cls) ELSE WithField(word, "shiftcls", Shift(signedCls, -3))

objc_debug_isa_class_mask == L.MASK \cap Bits(0, L.va - 1)

getClass(word, obj, authenticated) ==
    LET clsbits == word \cap L.MASK IN
    CASE L.indexed -> word
      [] ~L.indexed /\ ~ptrauth -> clsbits
      [] ptrauth /\ L.auth /\ authenticated -> IF clsbits = {} THEN {} ELSE ptrauth_auth(clsbits, obj)
      [] OTHER -> word \cap objc_debug_isa_class_mask

classForIndex(n) == objc_indexed_classes[n]
getDecodedClass(word, obj, authenticated) ==
    IF L.indexed /\ 0 \in word THEN classForIndex(Number(Field(word, "indexcls")))
    ELSE ClassAt(getClass(word, obj, authenticated))

(* ExtractISA of arm64-asm.h, and the mask of the other messengers.        *)
ExtractISA(word, obj) ==
    LET bits == word \cap L.MASK
    IN IF ~ptrauth THEN bits ELSE IF L.auth THEN ptrauth_auth(bits, obj) ELSE ptrauth_strip(bits)

----------------------------------------------------------------------------
(* A fresh isa, and a change of it.                                        *)
Zero == [cls |-> None, nonpointer |-> FALSE, count |-> 0, flags |-> {}]

initIsa(obj, cls, nonpointer) ==
    /\ is[obj] = Zero
    /\ cls \in DOMAIN index /\ (nonpointer => canAllocNonpointer(cls))
    /\ LET magic == IF HasField("has_cxx_dtor")
                    THEN WithField(L.MAGIC_VALUE, "has_cxx_dtor", Flag(hasCxxDtor(cls))) ELSE L.MAGIC_VALUE
           named == IF L.indexed THEN WithField(magic, "indexcls", Word(index[cls])) ELSE setClass(magic, cls, obj)
       IN isa' = [isa EXCEPT ![obj] =
                    IF nonpointer THEN WithField(named, "extra_rc", Word(1)) ELSE setClass({}, cls, obj)]
    /\ is' = [is EXCEPT ![obj] = [cls |-> cls, nonpointer |-> nonpointer,
                                  count |-> IF nonpointer THEN 1 ELSE 0, flags |-> {}]]
    /\ UNCHANGED <<layout, superclass, bucket, index, objc_indexed_classes, objc_indexed_classes_count, requiresRawIsa>>

changeIsa(obj, cls) ==
    /\ cls \in DOMAIN index
    /\ LET old == isa[obj]
           stays == (old = {} \/ 0 \in old) /\ canAllocNonpointer(cls)
           start == IF old = {} THEN WithField(L.MAGIC_VALUE, "extra_rc", Word(1)) ELSE old
           dtor == IF HasField("has_cxx_dtor") THEN WithField(start, "has_cxx_dtor", Flag(hasCxxDtor(cls))) ELSE start
           new == IF ~stays THEN setClass({}, cls, obj)
                  ELSE IF L.indexed THEN WithField(dtor, "indexcls", Word(index[cls])) ELSE setClass(dtor, cls, obj)
       IN /\ isa' = [isa EXCEPT ![obj] = new]
          /\ is' = [is EXCEPT ![obj] =
                IF ~stays THEN [Zero EXCEPT !.cls = cls]
                ELSE [@ EXCEPT !.cls = cls, !.nonpointer = TRUE, !.count = IF old = {} THEN 1 ELSE @]]
    /\ UNCHANGED <<layout, superclass, bucket, index, objc_indexed_classes, objc_indexed_classes_count, requiresRawIsa>>

(* The flags, and retain: bits + RC_ONE, or half of the range on a carry.  *)
setFlag(obj, name) ==
    /\ 0 \in isa[obj] /\ name \notin is[obj].flags
    /\ isa' = [isa EXCEPT ![obj] = WithField(@, name, {0})]
    /\ is' = [is EXCEPT ![obj].flags = @ \cup {name}]
    /\ UNCHANGED <<layout, superclass, bucket, index, objc_indexed_classes, objc_indexed_classes_count, requiresRawIsa>>

retain(obj, n) ==
    /\ 0 \in isa[obj]
    /\ LET above == Width - L.RC_ONE
           sum == Number(Shift(isa[obj], -L.RC_ONE)) + n
           half == 2 ^ (L.fields[FieldAt("extra_rc")][2] - 1)
           carry == sum >= 2 ^ above
       IN /\ n > 1 => ~carry
          /\ isa' = [isa EXCEPT ![obj] =
                LET low == @ \cap Bits(0, L.RC_ONE - 1)
                IN IF carry THEN WithField(WithField(low, "extra_rc", Word(half)), "has_sidetable_rc", {0})
                   ELSE low \cup Shift(Word(sum), L.RC_ONE)]
          /\ is' = [is EXCEPT ![obj].count = IF carry THEN half ELSE @ + n,
                              ![obj].flags = IF carry THEN @ \cup {"has_sidetable_rc"} ELSE @]
    /\ UNCHANGED <<layout, superclass, bucket, index, objc_indexed_classes, objc_indexed_classes_count, requiresRawIsa>>

----------------------------------------------------------------------------
(* chooseClassArrayIndex, as a class is realized; 0 is not used.           *)
chooseClassArrayIndex(cls) ==
    /\ cls \notin DOMAIN index
    /\ LET first == IF objc_indexed_classes_count = 0 THEN 1 ELSE objc_indexed_classes_count
           gone == L.indexed /\ objc_indexed_classes_count >= 2 ^ 15
       IN IF ~L.indexed \/ gone
          THEN /\ index' = [c \in DOMAIN index \cup {cls} |-> IF c = cls THEN 0 ELSE index[c]]
               /\ requiresRawIsa' = IF gone THEN requiresRawIsa \cup {cls} ELSE requiresRawIsa
               /\ UNCHANGED <<objc_indexed_classes, objc_indexed_classes_count>>
          ELSE /\ objc_indexed_classes_count' = first + 1
               /\ objc_indexed_classes' =
                     [n \in DOMAIN objc_indexed_classes \cup {first} |->
                        IF n = first THEN cls ELSE objc_indexed_classes[n]]
               /\ index' = [c \in DOMAIN index \cup {cls} |-> IF c = cls THEN first ELSE index[c]]
               /\ UNCHANGED requiresRawIsa
    /\ UNCHANGED <<layout, isa, superclass, bucket, is>>

(* Superclass pointers.                                                    *)
setSuperclass ==
    /\ superclass' = [word |-> IF ptrauth /\ L.sign = "ALL" THEN ptrauth_sign(Address("A"), 2) ELSE Address("A"),
                      is |-> "A"]
    /\ UNCHANGED <<layout, isa, bucket, index, objc_indexed_classes, objc_indexed_classes_count, requiresRawIsa, is>>

getSuperclass ==
    LET word == superclass.word IN
    CASE ~ptrauth \/ word = {} -> word
      [] ptrauth /\ ~L.auth -> ptrauth_strip(word)
      [] OTHER -> ptrauth_auth(word, 2)

(* bucket_t: an implementation signed for its place, selector and class,   *)
(* or mixed with the class; TailCallCachedImp undoes it with the isa.      *)
Xor(a, b) == (a \ b) \cup (b \ a)
modifierForSEL(base, sel, cls) == base + sel + Number(Address(cls) \cap 0 .. 5)
Imp(cls) == IF cls = "A" THEN {4, 7} ELSE {5, 9}
encodeImp(imp, sel, cls) ==
    IF ptrauth THEN ptrauth_sign(imp, modifierForSEL(1, sel, cls)) ELSE IF L.indexed THEN imp ELSE Xor(imp, Address(cls))
TailCallCachedImp(word, sel, class) ==
    IF ptrauth THEN ptrauth_auth(word, modifierForSEL(1, sel, class))
    ELSE IF L.indexed THEN word ELSE Xor(word, Address(class))

setBucket(obj, sel) ==
    /\ is[obj].cls # None
    /\ bucket' = [word |-> encodeImp(Imp(is[obj].cls), sel, is[obj].cls), sel |-> sel, cls |-> is[obj].cls]
    /\ UNCHANGED <<layout, isa, superclass, index, objc_indexed_classes, objc_indexed_classes_count, requiresRawIsa, is>>

----------------------------------------------------------------------------
Init ==
    /\ layout \in Layouts
    /\ isa = [o \in Objects |-> {}] /\ is = [o \in Objects |-> Zero]
    /\ superclass = [word |-> {}, is |-> None]
    /\ bucket = [word |-> {}, sel |-> 0, cls |-> None]
    /\ index = <<>> /\ objc_indexed_classes = <<>> /\ requiresRawIsa = {}
    /\ objc_indexed_classes_count \in IF layout = "indexed" THEN IndexesTaken ELSE {0}

Next ==
    \/ \E c \in Classes : chooseClassArrayIndex(c)
    \/ \E o \in Objects, c \in Classes :
           \/ \E nonpointer \in BOOLEAN : initIsa(o, c, nonpointer)
           \/ changeIsa(o, c)
    \/ \E o \in Objects :
           \/ \E f \in {"has_assoc", "weakly_referenced"} : setFlag(o, f)
           \/ /\ is[o].count \in 1 .. MaxRetains \cup {2 ^ L.fields[FieldAt("extra_rc")][2] - 1}
              /\ \E n \in {1, 2 ^ L.fields[FieldAt("extra_rc")][2] - 2} : retain(o, n)
    \/ setSuperclass
    \/ \E o \in Objects, sel \in {1, 2} : setBucket(o, sel)

(* Whatever was done to it, an isa names its class, to the runtime and to  *)
(* the messengers, has the right magic bits and keeps flags and count; a   *)
(* raw isa is nothing but a class.  A superclass that was set is found.  A *)
(* cached imp is what was put there, for a receiver of its class.          *)
IsaSays(obj) ==
    LET word == isa[obj]  says == is[obj] IN
    IF says.cls = None THEN word = {}
    ELSE /\ word \subseteq 0 .. Width - 1
         /\ \A a \in BOOLEAN : getDecodedClass(word, obj, a) = says.cls
         /\ ~L.indexed => ClassAt(ExtractISA(word, obj)) = says.cls
         /\ (0 \in word) = says.nonpointer
         /\ IF says.nonpointer
            THEN /\ word \cap L.MAGIC_MASK = L.MAGIC_VALUE
                 /\ Number(Field(word, "extra_rc")) = says.count
                 /\ \A f \in {"has_assoc", "weakly_referenced", "has_sidetable_rc"} :
                        (Field(word, f) = {0}) = (f \in says.flags)
                 /\ HasField("has_cxx_dtor") => (Field(word, "has_cxx_dtor") = {0}) = hasCxxDtor(says.cls)
                 /\ HasField("unused") => Field(word, "unused") = {}
            ELSE ptrauth_strip(word) = Address(says.cls)
SignedWordsHold ==
    /\ \A o \in Objects : IsaSays(o)
    /\ superclass.is # None => ClassAt(getSuperclass) = superclass.is
    /\ bucket.cls # None => TailCallCachedImp(bucket.word, bucket.sel, bucket.cls) = Imp(bucket.cls)

=============================================================================
