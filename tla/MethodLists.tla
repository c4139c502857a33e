----------------------------- MODULE MethodLists -----------------------------
(***************************************************************************)
(* A class's methods: lists of structs whose size and marks are in one     *)
(* word, methods that are three pointers or three relative offsets, and    *)
(* the array of lists that categories put theirs in front of.  Addresses   *)
(* are numbers, as the arithmetic on them is what can go wrong; a SEL is   *)
(* the address of a registered name.                                       *)
(***************************************************************************)
EXTENDS Integers, SequencesExt

CONSTANTS
    Static,             \* the compiled lists: [number -> [entsize, small, fixup, inSharedCache, methods]]
    Registered,         \* [address of a spelling -> its SEL]
    Imps,               \* addresses of functions
    MaxAttaches, MaxSets    \* bounds

VARIABLES
    mlist,          \* [number -> list], compiled and allocated
    selrefs,        \* [address -> SEL or unregistered name]
    smallMethodIMPMap,  \* [pointer to a small method -> IMP]
    lists,          \* [class -> list_array_tt]: [hasArray, lists]
    promised,       \* [class -> its methods, as [sel, imp], the first one that matches counts]
    attaches, sets

vars == <<mlist, selrefs, smallMethodIMPMap, lists, promised, attaches, sets>>

Classes == {"original", "copy"}
Copy(n) == n + 50       \* the number of the list that duplicate() allocates for list n
HeaderSize == 8
bigSize == 24
smallSize == 12

----------------------------------------------------------------------------
(* RelativePointer: an offset from its own address; 0 is nil.              *)
get(at, offset) == IF offset = 0 THEN 0 ELSE at + offset
OffsetOf(at, target) == IF target = 0 THEN 0 ELSE target - at

(* entsize_list_tt: where the elements are, an odd pointer for a small     *)
(* method, and the iterator over them.                                     *)
Base(n) == 1000 * n
modify(n, p) == IF mlist[n].small THEN p + 1 ELSE p
getOrEnd(n, i) == modify(n, Base(n) + HeaderSize + i * mlist[n].entsize)
count(n) == Len(mlist[n].methods)
isExpectedSize(n) == mlist[n].entsize = (IF mlist[n].small THEN smallSize ELSE bigSize)

iterator(n, start) == [entsize |-> mlist[n].entsize, index |-> start, element |-> getOrEnd(n, start)]
begin(n) == iterator(n, 0)
end(n) == iterator(n, count(n))
Plus(it, delta) == [it EXCEPT !.element = @ + delta * it.entsize, !.index = @ + delta]

indexOfMethod(n, meth) == (meth - Base(n)) \div mlist[n].entsize

(* method_t: what a pointer to a method leads to.                          *)
isSmall(m) == m % 2 = 1
Address(m) == m - (m % 2)
ListOf(m) == m \div 1000
Place(m) == (Address(m) - Base(ListOf(m)) - HeaderSize) \div mlist[ListOf(m)].entsize + 1
Stored(m) == mlist[ListOf(m)].methods[Place(m)]

name(m) ==
    IF ~isSmall(m) THEN Stored(m).name
    ELSE LET target == get(Address(m), Stored(m).name)
         IN IF mlist[ListOf(m)].inSharedCache THEN target ELSE selrefs[target]

imp_NotRemapped(m) == IF isSmall(m) THEN get(Address(m) + 8, Stored(m).imp) ELSE Stored(m).imp

imp(m) ==
    IF ~isSmall(m) THEN Stored(m).imp
    ELSE IF m \in DOMAIN smallMethodIMPMap THEN smallMethodIMPMap[m]
    ELSE get(Address(m) + 8, Stored(m).imp)

setImp(m, new) ==
    IF isSmall(m)
    THEN /\ smallMethodIMPMap' = (m :> new) @@ smallMethodIMPMap
         /\ UNCHANGED mlist
    ELSE /\ mlist' = [mlist EXCEPT ![ListOf(m)].methods[Place(m)].imp = new]
         /\ UNCHANGED smallMethodIMPMap

----------------------------------------------------------------------------
(* The searches.  A list that is sorted and of the usual struct size is    *)
(* searched by halves, back to the first of several equal ones.            *)
RECURSIVE Rewind(_, _, _)
Rewind(probe, first, key) ==
    LET before == Plus(probe, -1)
    IN IF probe.element > first.element /\ name(before.element) = key
       THEN Rewind(before, first, key) ELSE probe.element

RECURSIVE Halve_NoRewind(_, _, _, _)
Halve_NoRewind(first, base, n, key) ==
    IF n = 0 THEN 0
    ELSE LET probe == Plus(base, n \div 2)
         IN CASE name(probe.element) = key -> probe.element
              [] key > name(probe.element) -> Halve_NoRewind(first, Plus(probe, 1), (n - 1) \div 2, key)
              [] OTHER -> Halve_NoRewind(first, base, n \div 2, key)

RECURSIVE Halve(_, _, _, _)
Halve(first, base, n, key) ==
    IF n = 0 THEN 0
    ELSE LET probe == Plus(base, n \div 2)
         IN CASE name(probe.element) = key -> Rewind(probe, first, key)
              [] key > name(probe.element) -> Halve(first, Plus(probe, 1), (n - 1) \div 2, key)
              [] OTHER -> Halve(first, base, n \div 2, key)

findMethodInSortedMethodList(key, n) == Halve(begin(n), begin(n), count(n), key)

RECURSIVE Scan(_, _, _)
Scan(it, n, key) ==
    IF it.element = end(n).element THEN 0
    ELSE IF name(it.element) = key THEN it.element ELSE Scan(Plus(it, 1), n, key)

search_method_list_inline(n, key) ==
    IF mlist[n].fixup = 3 /\ isExpectedSize(n)
    THEN findMethodInSortedMethodList(key, n)
    ELSE Scan(begin(n), n, key)

(* getMethodNoSuper_nolock: the lists in order.                            *)
RECURSIVE FirstFound(_, _)
FirstFound(ls, key) ==
    IF ls = <<>> THEN 0
    ELSE LET m == search_method_list_inline(Head(ls), key)
         IN IF m # 0 THEN m ELSE FirstFound(Tail(ls), key)
getMethodNoSuper_nolock(c, key) == FirstFound(lists[c].lists, key)

(* list_array_tt::iterator: every element of every list.                   *)
ArrayBegin(ls) == [lists |-> ls, m |-> IF ls = <<>> THEN 0 ELSE begin(Head(ls)).element]
ArrayNext(it) ==
    LET l == Head(it.lists)
        m == it.m + mlist[l].entsize
    IN IF m # end(l).element THEN [it EXCEPT !.m = m] ELSE ArrayBegin(Tail(it.lists))
RECURSIVE Elements(_)
Elements(it) ==
    IF it.lists = <<>> THEN <<>>
    ELSE <<[sel |-> name(it.m), imp |-> imp(it.m)]>> \o Elements(ArrayNext(it))
countOf(c) == FoldLeft(LAMBDA sum, n : sum + count(n), 0, lists[c].lists)

----------------------------------------------------------------------------
(* fixupMethodList: the names become SELs, in the list or in the selrefs   *)
(* it points to; a list of big methods is sorted and marked.               *)
Sorted(s) ==
    LET rank(i) == 1 + Cardinality({j \in DOMAIN s :
                            s[j].name < s[i].name \/ (s[j].name = s[i].name /\ j < i)})
    IN [k \in DOMAIN s |-> s[CHOOSE i \in DOMAIN s : rank(i) = k]]

FixedUp(l) ==
    LET named == [i \in DOMAIN l.methods |-> [l.methods[i] EXCEPT !.name = Registered[@]]]
    IN IF l.fixup = 3 \/ l.small THEN l
       ELSE [l EXCEPT !.fixup = 3,
                      !.methods = LET ms == IF l.fixup = 1 THEN l.methods ELSE named
                                  IN IF l.entsize = bigSize THEN Sorted(ms) ELSE ms]

RefsOf(n) == IF mlist[n].small /\ ~mlist[n].inSharedCache
             THEN {get(Address(m), Stored(m).name) : m \in {getOrEnd(n, i) : i \in 0 .. count(n) - 1}}
             ELSE {}

(* list_array_tt::attachLists, after prepareMethodLists: in front.         *)
attachLists(a, added) ==
    [hasArray |-> a.hasArray \/ a.lists # <<>> \/ Len(added) > 1, lists |-> added \o a.lists]

Described(n) == [i \in 1 .. count(n) |->
    LET m == getOrEnd(n, i - 1)
    IN [sel |-> IF mlist[n].fixup > 0 THEN name(m) ELSE Registered[name(m)], imp |-> imp(m)]]

attachMethodLists(added) ==
    /\ attaches < MaxAttaches /\ attaches' = attaches + 1
    /\ mlist' = [n \in DOMAIN mlist |-> IF n \in Range(added) THEN FixedUp(mlist[n]) ELSE mlist[n]]
    /\ selrefs' = [r \in DOMAIN selrefs |->
           IF \E n \in Range(added) : r \in RefsOf(n) THEN Registered[selrefs[r]] ELSE selrefs[r]]
    /\ lists' = [lists EXCEPT !["original"] = attachLists(@, added)]
    /\ promised' = [promised EXCEPT !["original"] =
           FlattenSeq([i \in DOMAIN added |-> Described(added[i])]) \o @]
    /\ UNCHANGED <<smallMethodIMPMap, sets>>

(* method_setImplementation, of a method that a lookup found.              *)
method_setImplementation(c, key, new) ==
    /\ sets < MaxSets /\ sets' = sets + 1
    /\ getMethodNoSuper_nolock(c, key) # 0
    /\ setImp(getMethodNoSuper_nolock(c, key), new)
    /\ promised' = [promised EXCEPT ![c][SelectInSeq(promised[c], LAMBDA d : d.sel = key)].imp = new]
    /\ UNCHANGED <<selrefs, lists, attaches>>

(* method_list_t::duplicate: always big methods; duplicateInto for the     *)
(* class that objc_duplicateClass makes.                                   *)
duplicate(n) ==
    [mlist[n] EXCEPT !.small = FALSE, !.inSharedCache = FALSE,
        !.entsize = IF mlist[n].small THEN bigSize ELSE @,
        !.fixup = IF mlist[n].small THEN 0 ELSE @,
        !.methods = [i \in DOMAIN @ |-> [name |-> name(getOrEnd(n, i - 1)), imp |-> imp(getOrEnd(n, i - 1))]]]

duplicateInto ==
    /\ lists["copy"].lists = <<>> /\ lists["original"].lists # <<>>
    /\ mlist' = [k \in {Copy(n) : n \in Range(lists["original"].lists)} |-> duplicate(k - 50)] @@ mlist
    /\ lists' = [lists EXCEPT !["copy"] = [lists["original"] EXCEPT !.lists = [i \in DOMAIN @ |-> Copy(@[i])]]]
    /\ promised' = [promised EXCEPT !["copy"] = promised["original"]]
    /\ UNCHANGED <<selrefs, smallMethodIMPMap, attaches, sets>>

(* tryFree, when the copy is disposed of.                                  *)
tryFree ==
    /\ lists["copy"].lists # <<>>
    /\ mlist' = Restrict(mlist, DOMAIN mlist \ Range(lists["copy"].lists))
    /\ lists' = [lists EXCEPT !["copy"] = [hasArray |-> FALSE, lists |-> <<>>]]
    /\ promised' = [promised EXCEPT !["copy"] = <<>>]
    /\ UNCHANGED <<selrefs, smallMethodIMPMap, attaches, sets>>

Unattached == DOMAIN Static \ Range(lists["original"].lists)
SELs == Range(Registered)

Init ==
    /\ mlist = Static
    /\ selrefs = [r \in {get(Base(n) + HeaderSize + i * smallSize, Static[n].methods[i + 1].name) :
                         n \in {k \in DOMAIN Static : Static[k].small /\ ~Static[k].inSharedCache}, i \in {0, 1}}
                  |-> r % 100]      \* a selref lies at 100 * x + the address of the name in it
    /\ smallMethodIMPMap = [m \in {} |-> 0]
    /\ lists = [c \in Classes |-> [hasArray |-> FALSE, lists |-> <<>>]]
    /\ promised = [c \in Classes |-> <<>>]
    /\ attaches = 0 /\ sets = 0

Next ==
    \/ \E n \in Unattached : attachMethodLists(<<n>>)
    \/ \E n, k \in Unattached : n # k /\ attachMethodLists(<<n, k>>)
    \/ \E c \in Classes, key \in SELs, new \in Imps : method_setImplementation(c, key, new)
    \/ duplicateInto \/ tryFree

----------------------------------------------------------------------------
(* Every selector is answered by the first method of the most recently     *)
(* attached list that has one, with the implementation last set for it,    *)
(* whatever the form of the list and in a duplicate as in the original;    *)
(* enumerating the methods yields as many as are counted, all of them; and *)
(* a method's index is its place.                                          *)
MethodListsAgree ==
    /\ \A c \in Classes :
           /\ \A key \in SELs :
                  LET m == getMethodNoSuper_nolock(c, key)
                      i == SelectInSeq(promised[c], LAMBDA d : d.sel = key)
                  IN IF m = 0 THEN i = 0
                     ELSE i # 0 /\ name(m) = key /\ imp(m) = promised[c][i].imp
           /\ LET all == Elements(ArrayBegin(lists[c].lists))
              IN Len(all) = countOf(c) /\ ToSet(all) = ToSet(promised[c])
    /\ \A n \in DOMAIN mlist : \A i \in 0 .. count(n) - 1 : indexOfMethod(n, getOrEnd(n, i)) = i

=============================================================================
