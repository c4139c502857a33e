------------------------------ MODULE WeakTable ------------------------------
(***************************************************************************)
(* weak_table_t of runtime/objc-weak.mm: a hash table of objects, each     *)
(* with a set of the variables that refer to it, first a small array and   *)
(* then a hash table too.  Both probe linearly, leave no tombstones and    *)
(* bound every search by the longest displacement of any insertion.        *)
(***************************************************************************)
EXTENDS Integers, FiniteSets

CONSTANTS
    Objects, Locations, nil,
    ObjectHash, LocationHash,  \* hash_pointer and w_hash_pointer
    WEAK_INLINE_COUNT,
    InitialSize,   \* 64
    ShrinkMin,     \* 1024
    Sparse,        \* 16: shrink when at most this fraction is in use,
    ShrinkBy       \* 8:  by this factor

VARIABLES
    weak_table,
    registered, \* ghost: the variables registered with each object
    weakError,  \* objc_weak_error() was called
    bad         \* bad_weak_table() was called

vars == <<weak_table, registered, weakError, bad>>

-----------------------------------------------------------------------------
(* A hash table: of entries, or of the referrers of one entry. *)

EmptyTable(n) ==
    [slots |-> [i \in 0 .. n - 1 |-> nil], size |-> n, num |-> 0, max |-> 0]

InUse(tab) == {i \in DOMAIN tab.slots : tab.slots[i] # nil}

SlotAt(tab, h, d) == (h + d) % tab.size

\* Every displacement, from the hash on and around.
Displacements(tab) == 0 .. tab.size - 1

Free(tab, h, d) == tab.slots[SlotAt(tab, h, d)] = nil

\* Mutant: max_hash_displacement is not maintained.
insert_NoMax(tab, h, x) ==
    LET d == CHOOSE d \in Displacements(tab) :
                /\ Free(tab, h, d)
                /\ \A c \in 0 .. d - 1 : ~Free(tab, h, c)
    IN  [tab EXCEPT !.slots = [@ EXCEPT ![SlotAt(tab, h, d)] = x],
                    !.num = @ + 1]

\* x, whose hash is h, in the first free slot.
insert(tab, h, x) ==
    LET d == CHOOSE d \in Displacements(tab) :
                /\ Free(tab, h, d)
                /\ \A c \in 0 .. d - 1 : ~Free(tab, h, c)
    IN  [tab EXCEPT !.slots = [@ EXCEPT ![SlotAt(tab, h, d)] = x],
                    !.num = @ + 1,
                    !.max = IF d > @ THEN d ELSE @]

Contents(tab) == {tab.slots[i] : i \in InUse(tab)}

\* The contents of tab, in the order of its slots, in a table of n slots.
rehash(tab, n, hash) ==
    LET upTo[i \in 0 .. tab.size] ==
            IF i = 0 THEN EmptyTable(n)
            ELSE LET x == tab.slots[i - 1]
                 IN  IF x = nil THEN upTo[i - 1]
                     ELSE insert(upTo[i - 1], hash[x], x)
    IN  upTo[tab.size]

\* Mutant: grow only when there is no slot left.
Crowded_Full(tab) == tab.num >= tab.size

\* "Grow if at least 3/4 full."
Crowded(tab) == tab.num >= (tab.size * 3) \div 4

\* Those of the slots S, one at most, that a search from h gets to.
Finds(tab, h, S) ==
    S \cap {SlotAt(tab, h, d) : d \in {d \in Displacements(tab) : d <= tab.max}}

TheSlot(S) == CHOOSE i \in S : TRUE

\* The search gets back to where it began before it gives up.
RunsAround(tab, S) == tab.max >= tab.size - 1 /\ S = {}

-----------------------------------------------------------------------------
(* The referrers of one entry. *)

InlineReferrers == EmptyTable(WEAK_INLINE_COUNT)

weak_entry(o, v) ==
    [referent |-> o, out_of_line |-> FALSE,
     referrers |-> [InlineReferrers EXCEPT !.slots = [@ EXCEPT ![0] = v]]]

\* append_referrer when out of line.  The table that grow_refs_and_insert
\* makes is at most half full, so filling it does not make it grow again.
append_out_of_line(tab, v) ==
    IF Crowded(tab)
    THEN insert(rehash(tab, 2 * tab.size, LocationHash), LocationHash[v], v)
    ELSE insert(tab, LocationHash[v], v)

append_referrer(e, v) ==
    LET tab == e.referrers
        free == DOMAIN tab.slots \ InUse(tab)
    IN  IF e.out_of_line
        THEN [e EXCEPT !.referrers = append_out_of_line(tab, v)]
        ELSE IF free # {}
        THEN [e EXCEPT !.referrers.slots =
                [@ EXCEPT ![CHOOSE i \in free : \A j \in free : i <= j] = v]]
        ELSE [e EXCEPT !.out_of_line = TRUE,
                       !.referrers = append_out_of_line(
                            [tab EXCEPT !.num = WEAK_INLINE_COUNT], v)]

\* Where remove_referrer finds v.
ReferrerSlots(e, v) ==
    LET S == {i \in DOMAIN e.referrers.slots : e.referrers.slots[i] = v}
    IN  IF e.out_of_line THEN Finds(e.referrers, LocationHash[v], S) ELSE S

\* remove_referrer, of a variable it finds.
remove_referrer(e, v) ==
    [e EXCEPT !.referrers.slots = [@ EXCEPT ![TheSlot(ReferrerSlots(e, v))] = nil],
              !.referrers.num = IF e.out_of_line THEN @ - 1 ELSE @]

ReferrersOf(e) == Contents(e.referrers)

\* The test in weak_unregister_no_lock.  inline_referrers[0] is the pointer
\* `referrers` when the entry is out of line: such an entry never looks empty.
LooksEmpty(e) == ~e.out_of_line /\ ReferrersOf(e) = {}

-----------------------------------------------------------------------------
(* The entries of the table. *)

EntryHash(tab) == [e \in Contents(tab) |-> ObjectHash[e.referent]]

EntrySlots(tab, o) == {i \in InUse(tab) : tab.slots[i].referent = o}

\* Where weak_entry_for_referent finds the entry of o.
weak_entry_for_referent(tab, o) ==
    Finds(tab, ObjectHash[o], EntrySlots(tab, o))

BadSearch(tab, o) ==
    tab.size # 0 /\ RunsAround(tab, EntrySlots(tab, o))

weak_resize(tab, n) == rehash(tab, n, EntryHash(tab))

weak_grow_maybe(tab) ==
    IF Crowded(tab)
    THEN weak_resize(tab, IF tab.size = 0 THEN InitialSize ELSE 2 * tab.size)
    ELSE tab

weak_compact_maybe(tab) ==
    IF tab.size >= ShrinkMin /\ tab.size \div Sparse >= tab.num
    THEN weak_resize(tab, tab.size \div ShrinkBy)
    ELSE tab

weak_entry_remove(tab, i) ==
    weak_compact_maybe([tab EXCEPT !.slots = [@ EXCEPT ![i] = nil],
                                   !.num = @ - 1])

SetEntry(tab, i, e) == [tab EXCEPT !.slots = [@ EXCEPT ![i] = e]]

-----------------------------------------------------------------------------
(* The operations. *)

Init ==
    /\ weak_table = EmptyTable(0)
    /\ registered = [o \in Objects |-> {}]
    /\ weakError = FALSE
    /\ bad = FALSE

\* weak_register_no_lock; a variable is registered with one object at a time.
Register(o, v) ==
    /\ \A p \in Objects : v \notin registered[p]
    /\ bad' = BadSearch(weak_table, o)
    /\ LET entry == weak_entry_for_referent(weak_table, o)
           i == TheSlot(entry)
       IN  weak_table' =
            IF entry # {}
            THEN SetEntry(weak_table, i, append_referrer(weak_table.slots[i], v))
            ELSE insert(weak_grow_maybe(weak_table), ObjectHash[o], weak_entry(o, v))
    /\ registered' = [registered EXCEPT ![o] = @ \cup {v}]
    /\ UNCHANGED weakError

\* weak_unregister_no_lock, of a variable registered with the object.
Unregister(o, v) ==
    /\ v \in registered[o]
    /\ \E i \in weak_entry_for_referent(weak_table, o) :
        LET e == weak_table.slots[i]
            known == ReferrerSlots(e, v) # {}
            rest == IF known THEN remove_referrer(e, v) ELSE e
        IN  /\ weakError' = ~known
            /\ weak_table' = IF LooksEmpty(rest) THEN weak_entry_remove(weak_table, i)
                             ELSE SetEntry(weak_table, i, rest)
    /\ registered' = [registered EXCEPT ![o] = @ \ {v}]
    /\ UNCHANGED bad

\* weak_clear_no_lock; what it does to the variables is in WeakReferences.
Clear(o) ==
    /\ bad' = BadSearch(weak_table, o)
    /\ LET entry == weak_entry_for_referent(weak_table, o)
       IN  weak_table' = IF entry = {} THEN weak_table
                         ELSE weak_entry_remove(weak_table, TheSlot(entry))
    /\ registered' = [registered EXCEPT ![o] = {}]
    /\ UNCHANGED weakError

Next ==
    /\ ~bad
    /\ \E o \in Objects :
        \/ \E v \in Locations : Register(o, v) \/ Unregister(o, v)
        \/ Clear(o)

Spec == Init /\ [][Next]_vars

-----------------------------------------------------------------------------
(* Properties. *)

\* What the table holds for o, as its own search finds it.
Found(o) ==
    UNION {ReferrersOf(weak_table.slots[i]) :
            i \in weak_entry_for_referent(weak_table, o)}

\* For each object the table gives back exactly the variables registered with
\* it and not yet unregistered or cleared, which is what WeakReferences assumes
\* of it: no growth, compaction, collision or hole left by a removal hides an
\* entry from the bounded search, or brings an old one back.
FindsExactly == \A o \in Objects : Found(o) = registered[o]

\* The table never finds itself corrupt.  "bad weak table ... This may be a
\* runtime bug": no search, not even of an object that is not there, gets back
\* to where it began.  "Attempted to unregister unknown __weak variable":
\* remove_referrer finds every variable that was appended.
NeverBad ==
    /\ ~bad /\ ~weakError
    /\ \A o \in Objects : ~BadSearch(weak_table, o)

=============================================================================
