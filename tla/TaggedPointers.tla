--------------------------- MODULE TaggedPointers ---------------------------
(***************************************************************************)
(* Tagged pointers (objc-internal.h, objc-object.h, and the registration   *)
(* of their classes in objc-runtime-new.mm) in the three layouts of the    *)
(* headers, scaled down: a word of W bits, a tag index of TagBits bits     *)
(* (3 in the code) and an extended index of ExtBits bits (8).              *)
(***************************************************************************)
EXTENDS Naturals, FiniteSets, Bitwise

CONSTANTS W, TagBits, ExtBits,
    Layouts,        \* subset of {"split", "msb", "lsb"}
    Obfuscators,    \* values of objc_debug_taggedpointer_obfuscator
    Permutations60, \* values of objc_debug_tag60_permutations
    TagClasses, nil, Unrecognized,
    MaxRegistrations \* bound: tags with a class

VARIABLES
    layout, obfuscator, permutations,
    objc_tag_classes,       \* [slot -> class, nil or Unrecognized]
    objc_tag_ext_classes    \* [slot -> class or nil]

vars == <<layout, obfuscator, permutations, objc_tag_classes, objc_tag_ext_classes>>

----------------------------------------------------------------------------
(* The layout's masks and shifts, objc-internal.h:401-478.                 *)

Word == 0 .. 2^W - 1
TAG_INDEX_MASK == 2^TagBits - 1
EXT_INDEX_MASK == 2^ExtBits - 1

Split ==
    [TAG_MASK |-> 2^(W - 1), INDEX_SHIFT |-> 0, SLOT_SHIFT |-> 0, SLOT_MASK |-> TAG_INDEX_MASK,
     LSHIFT |-> 1, RSHIFT |-> 1 + TagBits,
     EXT_MASK |-> 2^(W - 1) + TAG_INDEX_MASK, EXT_SHIFT |-> W - 1 - ExtBits,
     EXT_LSHIFT |-> 1 + ExtBits, EXT_RSHIFT |-> 1 + ExtBits + TagBits]
MSB ==
    [TAG_MASK |-> 2^(W - 1), INDEX_SHIFT |-> W - 1 - TagBits, SLOT_SHIFT |-> W - 1 - TagBits,
     SLOT_MASK |-> 2^(1 + TagBits) - 1, LSHIFT |-> 1 + TagBits, RSHIFT |-> 1 + TagBits,
     EXT_MASK |-> (2^(1 + TagBits) - 1) * 2^(W - 1 - TagBits),
     EXT_SHIFT |-> W - 1 - TagBits - ExtBits,
     EXT_LSHIFT |-> 1 + TagBits + ExtBits, EXT_RSHIFT |-> 1 + TagBits + ExtBits]
LSB ==
    [TAG_MASK |-> 1, INDEX_SHIFT |-> 1, SLOT_SHIFT |-> 0, SLOT_MASK |-> 2^(1 + TagBits) - 1,
     LSHIFT |-> 0, RSHIFT |-> 1 + TagBits,
     EXT_MASK |-> 2^(1 + TagBits) - 1, EXT_SHIFT |-> 1 + TagBits,
     EXT_LSHIFT |-> 0, EXT_RSHIFT |-> 1 + TagBits + ExtBits]

L == CASE layout = "split" -> Split [] layout = "msb" -> MSB [] layout = "lsb" -> LSB
isSplit == layout = "split"
TAG_NO_OBFUSCATION_MASK == 2^(W - 2) + Split.EXT_MASK

Shl(x, n) == (x * 2^n) % 2^W
Shr(x, n) == x \div 2^n
(* (intptr_t)x >> n *)
Sar(x, n) == IF x >= 2^(W - 1) THEN Shr(x, n) + (2^n - 1) * 2^(W - n) ELSE Shr(x, n)
Index(x) == Shr(x, L.INDEX_SHIFT) & TAG_INDEX_MASK
ExtIndex(x) == Shr(x, L.EXT_SHIFT) & EXT_INDEX_MASK

(* objc_tag_index_t, objc-internal.h:299-350.                              *)
Last60BitPayload == 2^TagBits - 2
RESERVED_7 == 2^TagBits - 1
First52BitPayload == 2^TagBits
Last52BitPayload == 2^TagBits + 2^ExtBits - 1
FirstUnobfuscatedSplitTag == First52BitPayload + 2^(ExtBits - 1)
BasicTags == 0 .. Last60BitPayload
ExtTags == First52BitPayload .. Last52BitPayload

----------------------------------------------------------------------------
(* Encoding and decoding.                                                  *)

WithIndex(x, i) == (x - Shl(Index(x), L.INDEX_SHIFT)) + Shl(i, L.INDEX_SHIFT)

_objc_encodeTaggedPointer(ptr) ==
    LET value == obfuscator ^^ ptr IN
    IF ~isSplit THEN value
    ELSE IF value & TAG_NO_OBFUSCATION_MASK = TAG_NO_OBFUSCATION_MASK THEN ptr
    ELSE WithIndex(value, permutations[Index(value)])

_objc_decodeTaggedPointer_noPermute(ptr) ==
    IF isSplit /\ ptr & TAG_NO_OBFUSCATION_MASK = TAG_NO_OBFUSCATION_MASK
    THEN ptr ELSE ptr ^^ obfuscator

_objc_obfuscatedTagToBasicTag(tag) ==
    IF \E i \in BasicTags : permutations[i] = tag
    THEN CHOOSE i \in BasicTags : permutations[i] = tag
    ELSE RESERVED_7

_objc_decodeTaggedPointer(ptr) ==
    LET value == _objc_decodeTaggedPointer_noPermute(ptr) IN
    IF isSplit THEN WithIndex(value, _objc_obfuscatedTagToBasicTag(Index(value))) ELSE value

_objc_makeTaggedPointer(tag, value) ==
    _objc_encodeTaggedPointer(
        IF tag <= Last60BitPayload
        THEN L.TAG_MASK | (Shl(tag, L.INDEX_SHIFT) | Shr(Shl(value, L.RSHIFT), L.LSHIFT))
        ELSE L.EXT_MASK | (Shl(tag - First52BitPayload, L.EXT_SHIFT)
                           | Shr(Shl(value, L.EXT_RSHIFT), L.EXT_LSHIFT)))

_objc_isTaggedPointer(ptr) == ptr & L.TAG_MASK = L.TAG_MASK

isExtTaggedPointer(ptr) == _objc_decodeTaggedPointer(ptr) & L.EXT_MASK = L.EXT_MASK
isBasicTaggedPointer(ptr) == _objc_isTaggedPointer(ptr) /\ ~isExtTaggedPointer(ptr)

_objc_getTaggedPointerTag(ptr) ==
    LET value == _objc_decodeTaggedPointer(ptr) IN
    IF Index(value) = TAG_INDEX_MASK THEN ExtIndex(value) + First52BitPayload ELSE Index(value)

_objc_getTaggedPointerValue(ptr) ==
    LET value == _objc_decodeTaggedPointer_noPermute(ptr) IN
    IF Index(value) = TAG_INDEX_MASK
    THEN Shr(Shl(value, L.EXT_LSHIFT), L.EXT_RSHIFT)
    ELSE Shr(Shl(value, L.LSHIFT), L.RSHIFT)

_objc_getTaggedPointerSignedValue(ptr) ==
    LET value == _objc_decodeTaggedPointer_noPermute(ptr) IN
    IF Index(value) = TAG_INDEX_MASK
    THEN Sar(Shl(value, L.EXT_LSHIFT), L.EXT_RSHIFT)
    ELSE Sar(Shl(value, L.LSHIFT), L.RSHIFT)

----------------------------------------------------------------------------
(* The classes of the tags.                                                *)

classSlotForBasicTagIndex(tag) ==
    IF isSplit THEN permutations[tag]
    ELSE LET obfuscated == tag ^^ Index(obfuscator) IN
         IF layout = "msb" THEN 2^TagBits | obfuscated ELSE 2 * obfuscated | 1

ExtSlot_Obfuscated(tag) == (tag - First52BitPayload) ^^ ExtIndex(obfuscator)

(* classSlotForTagIndex for an extended tag.                               *)
ExtSlot(tag) ==
    IF isSplit /\ tag >= FirstUnobfuscatedSplitTag
    THEN tag - First52BitPayload
    ELSE (tag - First52BitPayload) ^^ ExtIndex(obfuscator)

_objc_getClassForTag(tag) ==
    IF tag \in BasicTags THEN objc_tag_classes[classSlotForBasicTagIndex(tag)]
    ELSE IF tag \in ExtTags THEN objc_tag_ext_classes[ExtSlot(tag)]
    ELSE nil

(* A tag used for two classes is fatal: no such call.                      *)
_objc_registerTaggedPointerClass(tag, cls) ==
    /\ tag \in BasicTags \cup ExtTags
    /\ _objc_getClassForTag(tag) \in {nil, cls}
    /\ \/ /\ tag \in BasicTags
          /\ objc_tag_classes' = [objc_tag_classes EXCEPT ![classSlotForBasicTagIndex(tag)] = cls]
          /\ UNCHANGED objc_tag_ext_classes
       \/ /\ tag \in ExtTags
          /\ objc_tag_ext_classes' = [objc_tag_ext_classes EXCEPT ![ExtSlot(tag)] = cls]
          /\ objc_tag_classes' =
                 [objc_tag_classes EXCEPT ![classSlotForBasicTagIndex(RESERVED_7)] =
                     IF @ = nil THEN Unrecognized ELSE @]
    /\ UNCHANGED <<layout, obfuscator, permutations>>

(* objc_object::getIsa reads the word as it is, without decoding it.       *)
getIsa(ptr) ==
    LET cls == objc_tag_classes[Shr(ptr, L.SLOT_SHIFT) & L.SLOT_MASK] IN
    IF cls = Unrecognized
    THEN objc_tag_ext_classes[Shr(ptr, L.EXT_SHIFT) & EXT_INDEX_MASK]
    ELSE cls

----------------------------------------------------------------------------
(* An obfuscator leaves the bits alone that say that a pointer is tagged   *)
(* (and, split, that it is extended or not obfuscated).                    *)
Init ==
    /\ layout \in Layouts
    /\ obfuscator \in {o & (2^W - 1 - (IF isSplit THEN TAG_NO_OBFUSCATION_MASK ELSE L.TAG_MASK)) :
                          o \in Obfuscators}
    /\ permutations \in IF isSplit THEN Permutations60 ELSE {[i \in 0 .. TAG_INDEX_MASK |-> i]}
    /\ objc_tag_classes = [s \in 0 .. L.SLOT_MASK |-> nil]
    /\ objc_tag_ext_classes = [s \in 0 .. EXT_INDEX_MASK |-> nil]

Registered == {t \in BasicTags \cup ExtTags : _objc_getClassForTag(t) # nil}

Next ==
    \E tag \in BasicTags \cup ExtTags, cls \in TagClasses :
        /\ Cardinality(Registered \cup {tag}) <= MaxRegistrations
        /\ _objc_registerTaggedPointerClass(tag, cls)

Spec == Init /\ [][Next]_vars

----------------------------------------------------------------------------
(* Whatever the layout, the obfuscator and the permutation of the tags: a  *)
(* pointer made with any tag and payload is tagged, gives back that tag    *)
(* and the payload cut to the tag's width, zero- and sign-extended, and    *)
(* is an instance of the class registered for its tag and of no other,     *)
(* though message sending looks the class up without decoding it.          *)
TagsResolve ==
    \A tag \in BasicTags \cup ExtTags :
        LET bits == W - 1 - TagBits - (IF tag \in ExtTags THEN ExtBits ELSE 0) IN
        \A value \in {0, 1, 2^bits - 1, 2^(bits - 1), 2^bits + 2} :
            LET p == _objc_makeTaggedPointer(tag, value)
                payload == value % 2^bits
            IN  /\ _objc_isTaggedPointer(p)
                /\ isExtTaggedPointer(p) = (tag \in ExtTags)
                /\ isBasicTaggedPointer(p) = (tag \in BasicTags)
                /\ _objc_getTaggedPointerTag(p) = tag
                /\ _objc_getTaggedPointerValue(p) = payload
                /\ _objc_getTaggedPointerSignedValue(p) =
                       IF payload < 2^(bits - 1) THEN payload ELSE 2^W - 2^bits + payload
                /\ IF _objc_getClassForTag(tag) # nil
                   THEN getIsa(p) = _objc_getClassForTag(tag)
                   ELSE getIsa(p) \in {nil, Unrecognized}

=============================================================================
