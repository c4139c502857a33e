---------------------------- MODULE RawIsaObject ----------------------------
(***************************************************************************)
(* An object in a build without nonpointer isas (the second half of        *)
(* objc-object.h): the isa is only a class, the whole retain count beyond  *)
(* the first reference and the weak and deallocating flags are in the side *)
(* table, and whether an object may have associations is a flag of its     *)
(* class.  Several threads own references to one object.                   *)
(***************************************************************************)
EXTENDS Naturals, FiniteSetsExt

CONSTANTS Threads, Classes, Creator, First, None,
    Pinned,     \* SIDE_TABLE_RC_PINNED, as a count
    MaxOwned    \* bound: references that one thread owns

VARIABLES
    isa,            \* the object's class
    flagged,        \* classes with instancesHaveAssociatedObjects
    refcnts,        \* the side table's entry, or None
    weak,           \* a weak variable holds the object
    associated,     \* the table of associations has an entry
    owned,          \* [Threads -> Nat] references
    pc,             \* [Threads -> where it is in a longer operation]
    seen,           \* [Threads -> the class it read and the one it wrote]
    freed,
    overlapped      \* a class change went on while an association was made

vars == <<isa, flagged, refcnts, weak, associated, owned, pc, seen, freed, overlapped>>

NoEntry == [count |-> 0, deallocating |-> FALSE, weakly |-> FALSE]
Entry == IF refcnts = None THEN NoEntry ELSE refcnts

Init ==
    /\ isa = First /\ flagged = {}
    /\ refcnts = None /\ weak = FALSE /\ associated = FALSE
    /\ owned = [t \in Threads |-> IF t = Creator THEN 1 ELSE 0]
    /\ pc = [t \in Threads |-> "idle"] /\ seen = [t \in Threads |-> <<First, First>>]
    /\ freed = FALSE /\ overlapped = FALSE

Idle(t) == pc[t] = "idle" /\ owned[t] > 0
Goto(t, where) == pc' = [pc EXCEPT ![t] = where]

----------------------------------------------------------------------------
(* A pinned count is not changed any more.                                 *)
Add(e) == IF e.count = Pinned THEN e ELSE [e EXCEPT !.count = @ + 1]
Subtract(e) == IF e.count = Pinned THEN e ELSE [e EXCEPT !.count = @ - 1]

(* sidetable_retain, by t for u.                                           *)
sidetable_retain(t, u) ==
    /\ Idle(t) /\ owned[u] < MaxOwned
    /\ refcnts' = Add(Entry)
    /\ owned' = [owned EXCEPT ![u] = @ + 1]
    /\ UNCHANGED <<isa, flagged, weak, associated, pc, seen, freed, overlapped>>

(* sidetable_release: the entry is made with the deallocating flag, or     *)
(* gets it when it has no count left.                                      *)
sidetable_release_NoEntry(t) ==
    /\ Idle(t)
    /\ owned' = [owned EXCEPT ![t] = @ - 1]
    /\ IF refcnts = None
       THEN /\ refcnts' = [NoEntry EXCEPT !.deallocating = TRUE]
            /\ Goto(t, "dealloc")
       ELSE refcnts' = (IF refcnts.count = 0 THEN refcnts ELSE Subtract(refcnts)) /\ UNCHANGED pc
    /\ UNCHANGED <<isa, flagged, weak, associated, seen, freed, overlapped>>

sidetable_release(t) ==
    /\ Idle(t)
    /\ owned' = [owned EXCEPT ![t] = @ - 1]
    /\ IF Entry.count = 0 /\ ~Entry.deallocating
       THEN /\ refcnts' = [Entry EXCEPT !.deallocating = TRUE]
            /\ Goto(t, "dealloc")
       ELSE refcnts' = Subtract(Entry) /\ UNCHANGED pc
    /\ UNCHANGED <<isa, flagged, weak, associated, seen, freed, overlapped>>

(* sidetable_tryRetain, through a weak variable.                           *)
sidetable_tryRetain(t) ==
    /\ weak /\ pc[t] = "idle" /\ owned[t] < MaxOwned
    /\ IF Entry.deallocating
       THEN UNCHANGED <<refcnts, owned>>
       ELSE /\ refcnts' = IF refcnts = None THEN [NoEntry EXCEPT !.count = 1] ELSE Add(refcnts)
            /\ owned' = [owned EXCEPT ![t] = @ + 1]
    /\ UNCHANGED <<isa, flagged, weak, associated, pc, seen, freed, overlapped>>

(* sidetable_setWeaklyReferenced_nolock, by a store to a weak variable.    *)
sidetable_setWeaklyReferenced_nolock(t) ==
    /\ Idle(t) /\ ~weak
    /\ weak' = TRUE
    /\ refcnts' = [Entry EXCEPT !.weakly = TRUE]
    /\ UNCHANGED <<isa, flagged, associated, owned, pc, seen, freed, overlapped>>

----------------------------------------------------------------------------
(* The association goes into its table; after that lock is dropped,        *)
(* setHasAssociatedObjects reads the class and sets its flag.              *)
Changing == \E t \in Threads : pc[t] = "changed"
Associating == \E t \in Threads : pc[t] \in {"associated", "flag"}

Associate(t) ==
    /\ Idle(t) /\ ~associated
    /\ associated' = TRUE
    /\ Goto(t, "associated")
    /\ overlapped' = (overlapped \/ Changing)
    /\ UNCHANGED <<isa, flagged, refcnts, weak, owned, seen, freed>>

setHasAssociatedObjects(t) ==
    /\ \/ /\ pc[t] = "associated"
          /\ seen' = [seen EXCEPT ![t] = <<isa, isa>>]
          /\ Goto(t, "flag") /\ UNCHANGED flagged
       \/ /\ pc[t] = "flag"
          /\ flagged' = flagged \cup {seen[t][1]}
          /\ Goto(t, "idle") /\ UNCHANGED seen
    /\ UNCHANGED <<isa, refcnts, weak, associated, owned, freed, overlapped>>

(* changeIsa: the exchange, then the flag of the old class goes over to    *)
(* the new one.                                                            *)
changeIsa(t, cls) ==
    /\ Idle(t)
    /\ isa' = cls
    /\ seen' = [seen EXCEPT ![t] = <<isa, cls>>]
    /\ Goto(t, "changed")
    /\ overlapped' = (overlapped \/ Associating \/ Changing)
    /\ UNCHANGED <<flagged, refcnts, weak, associated, owned, freed>>

PassFlag_Dropped(t) ==
    /\ pc[t] = "changed" /\ Goto(t, "idle")
    /\ UNCHANGED <<isa, flagged, refcnts, weak, associated, owned, seen, freed, overlapped>>

PassFlag(t) ==
    /\ pc[t] = "changed"
    /\ flagged' = IF seen[t][1] \in flagged THEN flagged \cup {seen[t][2]} ELSE flagged
    /\ Goto(t, "idle")
    /\ UNCHANGED <<isa, refcnts, weak, associated, owned, seen, freed, overlapped>>

----------------------------------------------------------------------------
(* -dealloc down to object_dispose: hasAssociatedObjects, then             *)
(* sidetable_clearDeallocating and free().                                 *)
objc_destructInstance(t) ==
    /\ pc[t] = "dealloc"
    /\ associated' = (associated /\ isa \notin flagged)
    /\ Goto(t, "clear")
    /\ UNCHANGED <<isa, flagged, refcnts, weak, owned, seen, freed, overlapped>>

clearDeallocating(t) ==
    /\ pc[t] = "clear"
    /\ weak' = (weak /\ ~Entry.weakly)
    /\ refcnts' = None
    /\ freed' = TRUE
    /\ Goto(t, "idle")
    /\ UNCHANGED <<isa, flagged, associated, owned, seen, overlapped>>

Next ==
    \E t \in Threads :
        \/ \E u \in Threads : sidetable_retain(t, u)
        \/ sidetable_release(t) \/ sidetable_tryRetain(t)
        \/ sidetable_setWeaklyReferenced_nolock(t)
        \/ Associate(t) \/ setHasAssociatedObjects(t)
        \/ \E cls \in Classes : changeIsa(t, cls)
        \/ PassFlag(t) \/ objc_destructInstance(t) \/ clearDeallocating(t)

Spec == Init /\ [][Next]_vars

----------------------------------------------------------------------------
References == MapThenSumSet(LAMBDA t : owned[t], Threads)

(* The side table's count is that of the references beyond the first, or   *)
(* pinned; the object is freed when and only when nobody owns it, and then *)
(* no side table entry, weak variable or association is left, unless its   *)
(* class was changed in the middle of making the association.              *)
RawCountExact ==
    /\ ~freed /\ ~Entry.deallocating =>
           Entry.count = Pinned \/ Entry.count + 1 = References
    /\ freed \/ Entry.deallocating => References = 0
    /\ freed => refcnts = None /\ ~weak /\ (associated => overlapped)

=============================================================================
