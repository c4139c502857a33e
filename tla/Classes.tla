------------------------------ MODULE Classes ------------------------------
(***************************************************************************)
(* Classes, their method lists and their method caches                     *)
(* (objc-runtime-new.mm, objc-runtime-new.h): realizing a class, attaching *)
(* categories, marking a class initialized, adding and replacing methods,  *)
(* changing a superclass, looking a method up and flushing caches, and the *)
(* scanners that decide whether retain, release, +alloc and the like may   *)
(* skip objc_msgSend because a class inherits NSObject's own versions.     *)
(* Everything here happens under runtimeLock, one operation at a time.     *)
(*                                                                         *)
(* A class object is <<name, isMeta>>; a method list maps selectors to     *)
(* implementations (the empty function stands for a null list); the cache  *)
(* of a class is the map that MethodCache implements.                      *)
(***************************************************************************)
EXTENDS Integers, Sequences, SequencesExt, FiniteSets, Functions

CONSTANTS
    Names, NSObject,    \* the classes, and the one with the default methods
    InitialSuper,       \* superclass of each class; nil for a root class
    baseMethods,        \* method list of each class object, from the compiler
    Categories,         \* categories: target class, list for class and metaclass
    Bundles,            \* scanners: selectors, and whether instances count
    Sels,               \* selectors that methods are added and changed for
    Lookups,            \* messages: pairs of a class object and a selector
    Replacement,        \* implementations that programs install
    Superclasses,       \* classes that class_setSuperclass() may name
    ATTACH_BUFSIZ,
    MaxOperations,      \* bound on the categories loaded and the changes made
    nil

VARIABLES
    realized,           \* class objects that are realized
    initialized,        \* names whose +initialize is over
    superclass,
    subclasses,         \* for each class object, its realized subclasses
    rwe,                \* class_rw_ext_t, or nil while ro serves
    unattached,         \* categories of classes that are not realized
    custom,             \* for each scanner, the class objects marked custom
    NSObjectSwizzled,   \* pairs of a scanner and isMeta
    cache,              \* method cache of each class object
    loaded,             \* history: the categories in the order they were loaded
    changes             \* how many methods or superclasses were changed so far

vars == <<realized, initialized, superclass, subclasses, rwe, unattached, custom,
          NSObjectSwizzled, cache, loaded, changes>>

-----------------------------------------------------------------------------
(* Class objects.                                                          *)

Objects == Names \X BOOLEAN
isMeta(c) == c[2]
ISA(c) == <<c[1], TRUE>>
Root == <<NSObject, FALSE>>
RootMeta == <<NSObject, TRUE>>

\* The superclass of a root metaclass is the root class.
getSuperclass(c) ==
    LET s == superclass[c[1]] IN
    IF s # nil THEN <<s, c[2]>> ELSE IF isMeta(c) THEN <<c[1], FALSE>> ELSE nil

isInitialized(c) == c[1] \in initialized

\* foreach_realized_class_and_subclass(): everything below top, without the
\* subtrees of the classes in skip.
RECURSIVE Below(_, _)
Below(top, skip) ==
    IF top \in skip THEN {}
    ELSE {top} \cup UNION {Below(c, skip) : c \in subclasses[top]}

-----------------------------------------------------------------------------
(* Method lists: list_array_tt and class_rw_t.                             *)

\* empty, a pointer to a single list, or an array of pointers
NoLists == [hasArray |-> FALSE, lists |-> <<>>]

attachLists(a, added) ==
    IF added = <<>> THEN a
    ELSE IF a.hasArray THEN [a EXCEPT !.lists = added \o @]
    ELSE IF a.lists = <<>> /\ Len(added) = 1 THEN [a EXCEPT !.lists = added]
    ELSE [hasArray |-> TRUE, lists |-> added \o a.lists]

IsList(l) == DOMAIN l # {}

\* class_rw_t::extAllocIfNeeded()
extAllocIfNeeded(c) ==
    IF rwe[c] # nil THEN rwe[c]
    ELSE attachLists(NoLists, SelectSeq(<<baseMethods[c]>>, IsList))

\* class_rw_t::methods(), from the first list to the last
methods(c) == extAllocIfNeeded(c).lists

\* The methods of categories: all lists but the last if there are base methods.
categoryMethodLists(c) ==
    IF IsList(baseMethods[c]) /\ methods(c) # <<>> THEN Front(methods(c)) ELSE methods(c)

\* method_lists_contains_any()
ContainsAny(lists, sels) == \E k \in DOMAIN lists : DOMAIN lists[k] \cap sels # {}

\* getMethodNoSuper_nolock(): index of the first list with the selector, or 0.
getMethodNoSuper(c, s) ==
    LET found == {k \in DOMAIN methods(c) : s \in DOMAIN methods(c)[k]}
    IN  IF found = {} THEN 0 ELSE CHOOSE k \in found : \A j \in found : k <= j

\* What a search of the method lists alone gives: the reference for the caches.
RECURSIVE Find(_, _)
Find(c, s) ==
    IF c = nil THEN "forward"
    ELSE IF getMethodNoSuper(c, s) # 0 THEN methods(c)[getMethodNoSuper(c, s)][s]
    ELSE Find(getSuperclass(c), s)

-----------------------------------------------------------------------------
(* Scanners.  Flags are passed around as a function from scanner to set.   *)

Watches(b, meta) == meta \/ Bundles[b].instances

\* setCustomRecursively(): subclasses that are not initialized are left alone,
\* and a class that is custom already has custom subclasses.
setCustomRecursively(flags, b, c) ==
    [flags EXCEPT ![b] =
        @ \cup Below(c, {d \in Objects : d # c /\ ~isInitialized(d)} \cup @)]

\* scanAddedMethodLists(), for a class that is initialized.
scanAddedMethodLists(flags, c, lists) ==
    [b \in DOMAIN flags |->
        IF isInitialized(c) /\ c \notin flags[b] /\ ContainsAny(lists, Bundles[b].sels)
        THEN setCustomRecursively(flags, b, c)[b] ELSE flags[b]]

\* scanAddedSubClass()
scanAddedSubClass(flags, sub, super) ==
    [b \in DOMAIN flags |->
        IF super \in flags[b] /\ sub \notin flags[b]
        THEN setCustomRecursively(flags, b, sub)[b] ELSE flags[b]]

\* StaysCustom, but the superclass is forgotten.
StaysCustom_OwnMethodsOnly(flags, b, c) ==
    \/ <<b, isMeta(c)>> \in NSObjectSwizzled
    \/ IF c \in {Root, RootMeta}
       THEN ContainsAny(categoryMethodLists(c), Bundles[b].sels)
       ELSE ContainsAny(methods(c), Bundles[b].sels)

\* scanAddedClassImpl(): whether the class must stay custom.
StaysCustom(flags, b, c) ==
    \/ <<b, isMeta(c)>> \in NSObjectSwizzled
    \/ IF c \in {Root, RootMeta}
       THEN ContainsAny(categoryMethodLists(c), Bundles[b].sels)
       ELSE \/ getSuperclass(c) = nil
            \/ getSuperclass(c) \in flags[b]
            \/ ContainsAny(methods(c), Bundles[b].sels)

\* scanInitializedClass(): first the class, then its metaclass.
scanInitializedClass(flags, c) ==
    [b \in DOMAIN flags |->
        LET one == IF ~Watches(b, FALSE) \/ StaysCustom(flags, b, c) THEN flags
                   ELSE [flags EXCEPT ![b] = @ \ {c}]
        IN  IF StaysCustom(one, b, ISA(c)) THEN one[b] ELSE one[b] \ {ISA(c)}]

\* scanChangedMethod() for the method s of c: only a change of NSObject's own
\* default methods matters.
Swizzles(b, c, s) ==
    /\ s \in Bundles[b].sels /\ c \in {Root, RootMeta} /\ Watches(b, isMeta(c))
    /\ <<b, isMeta(c)>> \notin NSObjectSwizzled

-----------------------------------------------------------------------------
(* Caches.                                                                 *)

Empty == <<>>

\* The class's own cache is flushed, but not its subclasses' caches.
flushCaches_OnlyOne(c) == {c}

\* flushCaches() without a predicate empties the caches of c and its subclasses.
flushCaches(c) == Below(c, {})

flushed(S) == [c \in Objects |-> IF c \in S THEN Empty ELSE cache[c]]

Init ==
    /\ realized = {} /\ initialized = {}
    /\ superclass = InitialSuper
    /\ subclasses = [c \in Objects |-> {}]
    /\ rwe = [c \in Objects |-> nil]
    /\ unattached = [c \in Objects |-> <<>>]
    /\ custom = [b \in DOMAIN Bundles |-> Objects]
    /\ NSObjectSwizzled = {}
    /\ cache = [c \in Objects |-> Empty]
    /\ loaded = <<>> /\ changes = 0

\* lookUpImpOrForward(): the caches of the superclasses are used on the way.
RECURSIVE LookUp(_, _)
LookUp(c, s) ==
    IF getMethodNoSuper(c, s) # 0 THEN methods(c)[getMethodNoSuper(c, s)][s]
    ELSE IF getSuperclass(c) = nil THEN "forward"
    ELSE IF s \in DOMAIN cache[getSuperclass(c)] THEN cache[getSuperclass(c)][s]
    ELSE LookUp(getSuperclass(c), s)

lookUpImpOrForward(c, s) ==
    /\ isInitialized(c) /\ s \notin DOMAIN cache[c]
    /\ cache' = [cache EXCEPT ![c] = [x \in DOMAIN @ \cup {s} |->
                                        IF x = s THEN LookUp(c, s) ELSE @[x]]]
    /\ UNCHANGED <<realized, initialized, superclass, subclasses, rwe, unattached,
                   custom, NSObjectSwizzled, loaded, changes>>

-----------------------------------------------------------------------------
(* Categories.                                                             *)

CategoryList(cat, c) ==
    IF isMeta(c) THEN Categories[cat].classMethods ELSE Categories[cat].instanceMethods

ListsOf(cats, c) ==
    SelectSeq([k \in DOMAIN cats |-> CategoryList(cats[k], c)], IsList)

\* The chunks are attached front to back, each of them as it is.
RECURSIVE AttachChunks_Unreversed(_, _)
AttachChunks_Unreversed(a, lists) ==
    IF Len(lists) <= ATTACH_BUFSIZ THEN attachLists(a, lists)
    ELSE AttachChunks_Unreversed(attachLists(a, SubSeq(lists, 1, ATTACH_BUFSIZ)),
                                 SubSeq(lists, ATTACH_BUFSIZ + 1, Len(lists)))

\* attachCategories(): the lists are collected back to front in a buffer, which is
\* attached whenever it is full.
RECURSIVE AttachChunks(_, _)
AttachChunks(a, lists) ==
    IF Len(lists) <= ATTACH_BUFSIZ THEN attachLists(a, Reverse(lists))
    ELSE AttachChunks(attachLists(a, Reverse(SubSeq(lists, 1, ATTACH_BUFSIZ))),
                      SubSeq(lists, ATTACH_BUFSIZ + 1, Len(lists)))

attachCategories(c, cats) == AttachChunks(extAllocIfNeeded(c), ListsOf(cats, c))

\* load_categories_nolock(), for one category: attach it to a class that is
\* realized, otherwise remember it; the same for the metaclass.
LoadCategory(cat) ==
    LET cls == <<Categories[cat].cls, FALSE>>
        targets == {c \in {cls, ISA(cls)} : IsList(CategoryList(cat, c))}
        now == targets \cap realized IN
    /\ cat \notin Range(loaded) /\ changes + Len(loaded) < MaxOperations
    /\ loaded' = Append(loaded, cat)
    /\ rwe' = [c \in Objects |-> IF c \in now THEN attachCategories(c, <<cat>>) ELSE rwe[c]]
    /\ custom' = LET one == scanAddedMethodLists(custom, cls, ListsOf(<<cat>>, cls))
                 IN  IF ISA(cls) \in now
                     THEN scanAddedMethodLists(one, ISA(cls), ListsOf(<<cat>>, ISA(cls)))
                     ELSE one
    /\ cache' = flushed(UNION {flushCaches(c) : c \in now})
    /\ unattached' = [c \in Objects |-> IF c \in targets \ now
                                        THEN Append(unattached[c], cat) ELSE unattached[c]]
    /\ UNCHANGED <<realized, initialized, superclass, subclasses, NSObjectSwizzled, changes>>

\* category_list::erase(): in an array the entries behind move up and the count
\* stays, so the last entry is there twice, or still there.
erase(cats, cat) ==
    IF Len(cats) = 1 THEN SelectSeq(cats, LAMBDA x : x # cat)
    ELSE LET i == SelectInSeq(cats, LAMBDA x : x = cat) IN
         [k \in DOMAIN cats |->
             IF i # 0 /\ k >= i /\ k < Len(cats) THEN cats[k + 1] ELSE cats[k]]

\* _unload_image() for an image with the one category cat.
_unload_image(cat) ==
    LET cls == <<Categories[cat].cls, FALSE>> IN
    /\ cat \in Range(loaded) /\ cls \notin realized
    /\ unattached' = [unattached EXCEPT ![cls] = erase(@, cat)]
    /\ loaded' = SelectSeq(loaded, LAMBDA x : x # cat)
    /\ UNCHANGED <<realized, initialized, superclass, subclasses, rwe, custom,
                   NSObjectSwizzled, cache, changes>>

-----------------------------------------------------------------------------
(* Realizing and initializing.                                             *)

RECURSIVE Ancestors(_)
Ancestors(c) == IF c = nil THEN {} ELSE {c} \cup Ancestors(getSuperclass(c))

\* realizeClassWithoutSwift(): the superclasses and metaclasses that are not
\* realized yet, then the class; each is linked to its superclass and methodized.
\* A root metaclass gets an +initialize method.
realizeClassWithoutSwift(name) ==
    LET cls == <<name, FALSE>>
        new == (Ancestors(cls) \cup Ancestors(ISA(cls))) \ realized
        withBonus(c) ==
            IF c # RootMeta \/ getMethodNoSuper(c, "initialize") # 0 THEN rwe[c]
            ELSE attachLists(extAllocIfNeeded(c), <<[s \in {"initialize"} |-> "noop"]>>)
        methodized(c) ==
            IF unattached[c] = <<>> THEN withBonus(c)
            ELSE AttachChunks(IF withBonus(c) = nil THEN extAllocIfNeeded(c) ELSE withBonus(c),
                              ListsOf(unattached[c], c))
    IN  /\ cls \notin realized
        /\ realized' = realized \cup new
        /\ subclasses' = [c \in Objects |->
                            subclasses[c] \cup {d \in new : getSuperclass(d) = c}]
        /\ rwe' = [c \in Objects |-> IF c \in new THEN methodized(c) ELSE rwe[c]]
        /\ unattached' = [c \in Objects |-> IF c \in new THEN <<>> ELSE unattached[c]]
        /\ UNCHANGED <<initialized, superclass, custom, NSObjectSwizzled, cache, loaded,
                       changes>>

\* objc_class::setInitialized(), after the superclass
setInitialized(name) ==
    LET cls == <<name, FALSE>> IN
    /\ cls \in realized /\ name \notin initialized
    /\ superclass[name] \in initialized \cup {nil}
    /\ custom' = scanInitializedClass(custom, cls)
    /\ initialized' = initialized \cup {name}
    /\ UNCHANGED <<realized, superclass, subclasses, rwe, unattached, NSObjectSwizzled,
                   cache, loaded, changes>>

-----------------------------------------------------------------------------
(* Changing methods and superclasses.                                      *)

Change == changes + Len(loaded) < MaxOperations /\ changes' = changes + 1

\* The flags after the methods in M (pairs of class and selector) were changed.
adjustCustomFlags(M) ==
    LET hit(b) == {m[1] : m \in {n \in M : Swizzles(b, n[1], n[2])}} IN
    /\ NSObjectSwizzled' = NSObjectSwizzled \cup
                           UNION {{<<b, isMeta(c)>> : c \in hit(b)} : b \in DOMAIN Bundles}
    /\ custom' = [b \in DOMAIN Bundles |->
                    custom[b] \cup UNION {setCustomRecursively(custom, b, c)[b] :
                                            c \in {d \in hit(b) : isInitialized(d)}}]

\* method_t::setImp() of the methods in the domain of new, <<class, index, selector>>.
\* The code changes the list in place; here rwe keeps it, as baseMethods is constant.
setImps(new) ==
    rwe' = [c \in Objects |->
              LET own == {m \in DOMAIN new : m[1] = c} IN
              IF own = {} THEN rwe[c]
              ELSE LET a == extAllocIfNeeded(c) IN
                   [a EXCEPT !.lists = [k \in DOMAIN @ |-> [s \in DOMAIN @[k] |->
                       IF <<c, k, s>> \in own THEN new[<<c, k, s>>] ELSE @[k][s]]]]]

imp(m) == methods(m[1])[m[2]][m[3]]
Methods == {<<c, k, s>> \in realized \X (1 .. MaxOperations + 2) \X Sels :
              k \in DOMAIN methods(c) /\ s \in DOMAIN methods(c)[k]}

\* shouldFlush(sel, old) for one of the methods whose implementation changed
Holds(c, M) == \E m \in M : m[3] \in DOMAIN cache[c] /\ cache[c][m[3]] = imp(m)

method_setImplementation(m, new) ==
    /\ setImps([x \in {m} |-> new])
    /\ cache' = flushed({c \in realized : Holds(c, {m})})
    /\ adjustCustomFlags({<<m[1], m[3]>>})
    /\ Change
    /\ UNCHANGED <<realized, initialized, superclass, subclasses, unattached, loaded>>

method_exchangeImplementations(m1, m2) ==
    /\ m1 # m2
    /\ setImps([x \in {m1, m2} |-> IF x = m1 THEN imp(m2) ELSE imp(m1)])
    /\ cache' = flushed({c \in realized : Holds(c, {m1, m2})})
    /\ adjustCustomFlags({<<m1[1], m1[3]>>, <<m2[1], m2[3]>>})
    /\ Change
    /\ UNCHANGED <<realized, initialized, superclass, subclasses, unattached, loaded>>

\* class_replaceMethod() of a method the class has: the class is known.
ReplaceMethod(c, s, new) ==
    LET m == <<c, getMethodNoSuper(c, s), s>> IN
    /\ c \in realized /\ m[2] # 0
    /\ setImps([x \in {m} |-> new])
    /\ cache' = flushed({d \in flushCaches(c) : Holds(d, {m})})
    /\ adjustCustomFlags({<<c, s>>})
    /\ Change
    /\ UNCHANGED <<realized, initialized, superclass, subclasses, unattached, loaded>>

\* addMethod() of a method the class does not have: addMethods_finish().
AddMethod(c, s, new) ==
    LET list == <<[x \in {s} |-> new]>> IN
    /\ c \in realized /\ getMethodNoSuper(c, s) = 0
    /\ rwe' = [rwe EXCEPT ![c] = attachLists(extAllocIfNeeded(c), list)]
    /\ custom' = scanAddedMethodLists(custom, c, list)
    /\ cache' = flushed(flushCaches(c))
    /\ Change
    /\ UNCHANGED <<realized, initialized, superclass, subclasses, unattached,
                   NSObjectSwizzled, loaded>>

\* setSuperclass(): unlink and link class and metaclass, inherit the flags, flush.
class_setSuperclass(name, super) ==
    LET c == <<name, FALSE>>
        new == <<super, FALSE>>
        old == getSuperclass(c) IN
    /\ {c, new} \subseteq realized /\ super # superclass[name]
    /\ c \notin Ancestors(new) /\ superclass[name] # nil
    /\ superclass' = [superclass EXCEPT ![name] = super]
    /\ subclasses' = [d \in Objects |->
            IF d \in {old, ISA(old)} THEN subclasses[d] \ {c, ISA(c)}
            ELSE IF d = new THEN subclasses[d] \cup {c}
            ELSE IF d = ISA(new) THEN subclasses[d] \cup {ISA(c)}
            ELSE subclasses[d]]
    /\ custom' = scanAddedSubClass(scanAddedSubClass(custom, c, new), ISA(c), ISA(new))
    /\ cache' = flushed(flushCaches(c) \cup flushCaches(ISA(c)))
    /\ Change
    /\ UNCHANGED <<realized, initialized, rwe, unattached, NSObjectSwizzled, loaded>>

-----------------------------------------------------------------------------
Next ==
    \/ \E cat \in DOMAIN Categories : LoadCategory(cat)
    \/ \E name \in Names : realizeClassWithoutSwift(name) \/ setInitialized(name)
    \/ \E m \in Lookups : lookUpImpOrForward(m[1], m[2])
    \/ \E m \in Methods : method_setImplementation(m, Replacement)
    \/ \E m1, m2 \in Methods : method_exchangeImplementations(m1, m2)
    \/ \E c \in Objects, s \in Sels :
          AddMethod(c, s, Replacement) \/ ReplaceMethod(c, s, Replacement)
    \/ \E name \in Names, super \in Superclasses : class_setSuperclass(name, super)

Spec == Init /\ [][Next]_vars

\* Behaviours in which images with a category are unloaded again, which dlclose()
\* does with bundles.
UnloadSpec == Init /\ [][Next \/ \E cat \in DOMAIN Categories : _unload_image(cat)]_vars

-----------------------------------------------------------------------------
(* Properties                                                              *)

\* NSObject itself implements everything a scanner watches.
ASSUME NSObjectAssumption ==
    \A b \in DOMAIN Bundles :
        /\ Bundles[b].sels \subseteq DOMAIN baseMethods[RootMeta]
        /\ Bundles[b].instances => Bundles[b].sels \subseteq DOMAIN baseMethods[Root]

DefaultImp(c, s) == baseMethods[IF isMeta(c) THEN RootMeta ELSE Root][s]

\* A class object that is not marked custom gets NSObject's own implementation
\* for every selector of the scanner: objc_retain() and the others that skip the
\* message do what the message would do.  Categories, class_addMethod(), swizzling,
\* superclass changes and +initialize may come in any order.
CustomFlagsSound ==
    \A b \in DOMAIN Bundles : \A c \in realized \ custom[b] :
        Watches(b, isMeta(c)) =>
            \A s \in Bundles[b].sels : Find(c, s) = DefaultImp(c, s)

\* Whatever a method cache holds is what a search of the method lists would find
\* now: lookUpImpOrForward() fills and flushCaches() empties all caches a change
\* may concern, those of subclasses included.
CachesFresh ==
    \A c \in Objects : \A s \in DOMAIN cache[c] : cache[c][s] = Find(c, s)

\* Of the lists that categories added to a class that is realized, each is there
\* once and the newest comes first, in front of the class's own methods, whether
\* the category was loaded before or after the class was realized.
NewestCategoryWins ==
    \A c \in realized :
        LET cats == SelectSeq(loaded, LAMBDA cat :
                        Categories[cat].cls = c[1] /\ IsList(CategoryList(cat, c)))
        IN  changes = 0 /\ c # RootMeta =>
                methods(c) = Reverse(ListsOf(cats, c)) \o
                             SelectSeq(<<baseMethods[c]>>, IsList)

\* Once an image is unloaded no category of it waits to be attached any more:
\* "Unload unattached categories" (objc-runtime-new.mm:3934).
UnloadedAreForgotten ==
    \A c \in Objects : Range(unattached[c]) \subseteq Range(loaded)

=============================================================================
