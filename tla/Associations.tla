---------------------------- MODULE Associations ----------------------------
(***************************************************************************)
(* Associated objects (objc-references.mm): the table of associations, the *)
(* bit in the isa that makes -dealloc look into it, and the references     *)
(* that associations keep.  Objects have nonpointer isas; RawIsaObject has *)
(* the others.  The table is only touched inside AssociationsManager's     *)
(* lock and nothing else is waited for there, so each of these sections is *)
(* one action.  An autoreleased value counts as the thread's until it      *)
(* gives it up.                                                            *)
(***************************************************************************)
EXTENDS Naturals, Sequences, FiniteSets, FiniteSetsExt, SequencesExt, Functions

CONSTANTS
    Threads, Objects, nil,
    Sets,       \* the <<object, key, value, policy>>s that are set; policies are
                \* subsets of {"RETAIN", "GETTER_RETAIN", "SYSTEM_OBJECT"}
    Creator,    \* the thread that owns a reference to each object at first
    MaxOwned    \* bound: references of one thread to one object

VARIABLES
    associations,   \* object -> key -> [value, policy], of the objects that have some
    has_assoc,      \* objects with the bit in their isa
    count,          \* retain counts
    owned,          \* [Threads -> [Objects -> references]]
    stack,          \* [Threads -> calls in progress, innermost last]
    freed, bad

vars == <<associations, has_assoc, count, owned, stack, freed, bad>>

Keys == {s[2] : s \in Sets}
Top(t) == stack[t][Len(stack[t])]
Push(t, f) == stack' = [stack EXCEPT ![t] = Append(@, f)]
Goto(t, f) == stack' = [stack EXCEPT ![t][Len(stack[t])] = f]
Return(t) == stack' = [stack EXCEPT ![t] = Front(@)]
At(t, pc) == stack[t] # <<>> /\ Top(t).pc = pc
Idle(t) == stack[t] = <<>>
Own(t, o) == owned[t][o] > 0

Frame(pc, o) ==
    [pc |-> pc, object |-> o, key |-> nil, new |-> nil, policy |-> {},
     release |-> <<>>, deallocating |-> FALSE]

Retain(v) == count' = [count EXCEPT ![v] = @ + 1] /\ bad' = (bad \/ v \in freed \/ count[v] = 0)

-----------------------------------------------------------------------------
(* _object_get_associative_reference; the value is returned autoreleased.  *)
Entry(o, k) == associations[o][k]
HasEntry(o, k) == o \in DOMAIN associations /\ k \in DOMAIN associations[o]

Get(t, o, k) ==
    /\ Idle(t) /\ Own(t, o) /\ HasEntry(o, k) /\ "GETTER_RETAIN" \in Entry(o, k).policy
    /\ owned[t][Entry(o, k).value] < MaxOwned
    /\ Retain(Entry(o, k).value)
    /\ owned' = [owned EXCEPT ![t][Entry(o, k).value] = @ + 1]
    /\ UNCHANGED <<associations, has_assoc, stack, freed>>

(* _object_set_associative_reference, to the lock: acquireValue.  What     *)
(* -copy returns is taken to be the object itself, retained.               *)
Set(t, o, k, v, policy) ==
    /\ Idle(t) /\ Own(t, o) /\ (v # nil => Own(t, v))
    /\ IF v # nil /\ "RETAIN" \in policy THEN Retain(v) ELSE UNCHANGED <<count, bad>>
    /\ Push(t, [Frame("set", o) EXCEPT !.key = k, !.new = v, !.policy = policy])
    /\ UNCHANGED <<associations, has_assoc, owned, freed>>

Held(entry) == IF "RETAIN" \in entry.policy THEN <<entry.value>> ELSE <<>>
Insert(o, k, entry) ==
    associations' =
        [x \in DOMAIN associations \cup {o} |->
            IF x # o THEN associations[x]
            ELSE [j \in {k} \cup (IF o \in DOMAIN associations THEN DOMAIN associations[o] ELSE {}) |->
                    IF j = k THEN entry ELSE Entry(o, j)]]

Without(o, ks) ==
    associations' =
        IF DOMAIN associations[o] \subseteq ks
        THEN [x \in DOMAIN associations \ {o} |-> associations[x]]
        ELSE [associations EXCEPT ![o] = [k \in DOMAIN @ \ ks |-> @[k]]]

(* In the lock: the entry is made, replaced or erased, and with the last   *)
(* one the object's.                                                       *)
isFirstAssociation_OfAny(o) == DOMAIN associations = {}
isFirstAssociation(o) == o \notin DOMAIN associations

Establish(t) ==
    LET f == Top(t)
        old == IF HasEntry(f.object, f.key) THEN Held(Entry(f.object, f.key)) ELSE <<>>
        first == f.new # nil /\ isFirstAssociation(f.object)
    IN  /\ At(t, "set")
        /\ IF f.new # nil
           THEN Insert(f.object, f.key, [value |-> f.new, policy |-> f.policy])
           ELSE IF HasEntry(f.object, f.key) THEN Without(f.object, {f.key})
           ELSE UNCHANGED associations
        /\ Goto(t, [f EXCEPT !.pc = IF first THEN "flag" ELSE "release", !.release = old,
                             !.new = nil, !.policy = {}, !.key = nil])
        /\ UNCHANGED <<has_assoc, count, owned, freed, bad>>

setHasAssociatedObjects(t) ==
    /\ At(t, "flag")
    /\ has_assoc' = has_assoc \cup {Top(t).object}
    /\ Goto(t, [Top(t) EXCEPT !.pc = "release"])
    /\ UNCHANGED <<associations, count, owned, freed, bad>>

(* objc_removeAssociatedObjects.                                           *)
RemoveAll(t, o) ==
    /\ Idle(t) /\ Own(t, o) /\ o \in has_assoc
    /\ Push(t, Frame("detach", o))
    /\ UNCHANGED <<associations, has_assoc, count, owned, freed, bad>>

(* _object_remove_assocations: unless the object is being deallocated, the *)
(* system's associations go back and are not released; if it is, they are  *)
(* released last.                                                          *)
IsSystem(entry) == "SYSTEM_OBJECT" \in entry.policy
Later(o, ks) == SetToSeq({k \in ks : IsSystem(Entry(o, k))})
ToRelease_Everything(o, deallocating) ==
    LET ks == DOMAIN associations[o]
        normal == SetToSeq({k \in ks : ~IsSystem(Entry(o, k))})
    IN  FlattenSeq([i \in 1 .. Cardinality(ks) |-> Held(Entry(o, (normal \o Later(o, ks))[i]))])

ToRelease(o, deallocating) ==
    LET ks == DOMAIN associations[o]
        normal == SetToSeq({k \in ks : ~IsSystem(Entry(o, k))})
        all == IF deallocating THEN normal \o Later(o, ks) ELSE normal
    IN  FlattenSeq([i \in DOMAIN all |-> Held(Entry(o, all[i]))])

_object_remove_assocations(t) ==
    LET o == Top(t).object
        dying == Top(t).deallocating
    IN  /\ At(t, "detach")
        /\ IF o \in DOMAIN associations
           THEN /\ Without(o, {k \in DOMAIN associations[o] : dying \/ ~IsSystem(Entry(o, k))})
                /\ Goto(t, [Top(t) EXCEPT !.pc = "release", !.release = ToRelease(o, dying)])
           ELSE UNCHANGED associations /\ Goto(t, [Top(t) EXCEPT !.pc = "release"])
        /\ UNCHANGED <<has_assoc, count, owned, freed, bad>>

-----------------------------------------------------------------------------
(* A release, outside the lock, may be the last one and send -dealloc.     *)
Dealloc(o) == [Frame("destruct", o) EXCEPT !.deallocating = TRUE]

releaseHeldValue(t) ==
    /\ At(t, "release") /\ Top(t).release # <<>>
    /\ LET v == Head(Top(t).release)
           rest == [Top(t) EXCEPT !.release = Tail(@)]
       IN  /\ count' = [count EXCEPT ![v] = IF @ = 0 THEN 0 ELSE @ - 1]
           /\ bad' = (bad \/ count[v] = 0)
           /\ stack' = [stack EXCEPT ![t] =
                          Append(Front(@), rest) \o (IF count[v] = 1 THEN <<Dealloc(v)>> ELSE <<>>)]
    /\ UNCHANGED <<associations, has_assoc, owned, freed>>

Released(t) ==
    /\ At(t, "release") /\ Top(t).release = <<>>
    /\ IF Top(t).deallocating THEN Goto(t, [Top(t) EXCEPT !.pc = "free"]) ELSE Return(t)
    /\ UNCHANGED <<associations, has_assoc, count, owned, freed, bad>>

Release(t, o) ==
    /\ Idle(t) /\ Own(t, o)
    /\ owned' = [owned EXCEPT ![t][o] = @ - 1]
    /\ count' = [count EXCEPT ![o] = @ - 1]
    /\ IF count[o] = 1 THEN Push(t, Dealloc(o)) ELSE UNCHANGED stack
    /\ UNCHANGED <<associations, has_assoc, freed, bad>>

(* The program hands a reference to another thread.                        *)
Give(t, u, o) ==
    /\ Idle(t) /\ Own(t, o) /\ owned[u][o] < MaxOwned
    /\ owned' = [owned EXCEPT ![u][o] = @ + 1]
    /\ Retain(o)
    /\ UNCHANGED <<associations, has_assoc, stack, freed>>

(* rootDealloc, objc_destructInstance and free().                          *)
objc_destructInstance(t) ==
    /\ At(t, "destruct")
    /\ Goto(t, [Top(t) EXCEPT !.pc = IF Top(t).object \in has_assoc THEN "detach" ELSE "free"])
    /\ UNCHANGED <<associations, has_assoc, count, owned, freed, bad>>

Free(t) ==
    /\ At(t, "free") /\ freed' = freed \cup {Top(t).object} /\ Return(t)
    /\ UNCHANGED <<associations, has_assoc, count, owned, bad>>

-----------------------------------------------------------------------------
Init ==
    /\ associations = [o \in {} |-> nil] /\ has_assoc = {}
    /\ count = [o \in Objects |-> 1]
    /\ owned = [t \in Threads |-> [o \in Objects |-> IF t = Creator THEN 1 ELSE 0]]
    /\ stack = [t \in Threads |-> <<>>]
    /\ freed = {} /\ bad = FALSE

Next ==
    \E t \in Threads :
        \/ \E s \in Sets : Set(t, s[1], s[2], s[3], s[4]) \/ Set(t, s[1], s[2], nil, {})
        \/ \E o \in Objects, k \in Keys : Get(t, o, k)
        \/ \E o \in Objects : RemoveAll(t, o) \/ Release(t, o)
        \/ \E u \in Threads \ {t}, o \in Objects : Give(t, u, o)
        \/ Establish(t) \/ setHasAssociatedObjects(t) \/ _object_remove_assocations(t)
        \/ releaseHeldValue(t) \/ Released(t) \/ objc_destructInstance(t) \/ Free(t)

-----------------------------------------------------------------------------
(* The references to an object: the threads', the associations', and the   *)
(* ones a call has taken and not yet stored, or taken out and not yet      *)
(* released.                                                               *)
InFrame(f, o) ==
    (IF f.pc = "set" /\ f.new = o /\ "RETAIN" \in f.policy THEN 1 ELSE 0)
        + Cardinality({i \in DOMAIN f.release : f.release[i] = o})
References(o) ==
    SumFunction([t \in Threads |-> owned[t][o]])
        + Cardinality({p \in Objects \X Keys :
                          /\ HasEntry(p[1], p[2]) /\ Entry(p[1], p[2]).value = o
                          /\ "RETAIN" \in Entry(p[1], p[2]).policy})
        + SumFunction([t \in Threads |->
              SumFunction([i \in DOMAIN stack[t] |-> InFrame(stack[t][i], o)])])

(* Every association that keeps its value keeps exactly one reference,     *)
(* wherever it is between the table and its release, and no getter or      *)
(* release finds a value that is gone; nothing is associated with an       *)
(* object any more when it is freed, or an object made at the same address *)
(* would inherit it.                                                       *)
AssociationsKept ==
    /\ ~bad
    /\ \A o \in Objects : count[o] = References(o)
    /\ DOMAIN associations \cap freed = {}

=============================================================================
