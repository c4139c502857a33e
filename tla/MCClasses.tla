----------------------------- MODULE MCClasses -----------------------------
(***************************************************************************)
(* What is kept for a class, one part in each behaviour:                   *)
(*   classes  NSObject (n) with a subclass a and its subclass b.  NSObject *)
(*            defines -retain and +alloc; categories and replaced methods  *)
(*            override them;                                               *)
(*   data     the words a class's data and flags are packed in;            *)
(*   lists    method lists, sorted, fixed up and searched;                 *)
(*   preopt   constant caches from the shared cache;                       *)
(*   names    selectors and demangled names;                               *)
(*   resolve  dynamic method resolution in the demonstration program.      *)
(* The variables of the parts that are not played keep an initial value.   *)
(***************************************************************************)
EXTENDS Classes, TLC

CONSTANTS t1, t2, None, NoLoad

VARIABLES mode,
    layout, bits, cacheFlags, flags, ro_or_rw_ext, dataExt, ros, extending, pending,
    reader, wanted,
    mlist, selrefs, smallMethodIMPMap, methodLists, promised, attaches, sets,
    cacheLayout, built, overridden, methodImps, word, stored, realizedUpTo,
    initializedUpTo, noCaches, noSels, dropped, missed, methodChanges,
    namedSelectors, DemangleCache, live, bundleMapped, nameRealized, demangledName,
    thread, given, calls,
    demoLists, demoCache, agenda, got, asked, resolved, dogLoaded, sends

dataVars == <<layout, bits, cacheFlags, flags, ro_or_rw_ext, dataExt, ros, extending,
              pending, reader, wanted>>
listVars == <<mlist, selrefs, smallMethodIMPMap, methodLists, promised, attaches, sets>>
preoptVars == <<cacheLayout, built, overridden, methodImps, word, stored, realizedUpTo,
                initializedUpTo, noCaches, noSels, dropped, missed, methodChanges>>
nameVars == <<namedSelectors, DemangleCache, live, bundleMapped, nameRealized,
              demangledName, thread, given, calls>>
demoVars == <<demoLists, demoCache, agenda, got, asked, resolved, dogLoaded, sends>>

-----------------------------------------------------------------------------
MCNames == {"n", "a", "b"}
MCSuper == [x \in MCNames |-> CASE x = "n" -> nil [] x = "a" -> "n" [] x = "b" -> "a"]

List(who, sels) == [s \in sels |-> who]
MCBase ==
    [c \in MCNames \X BOOLEAN |->
        CASE c = <<"n", FALSE>> -> List("n", {"retain"})
          [] c = <<"n", TRUE>>  -> List("n+", {"retain", "alloc"})
          [] OTHER -> List("none", {})]

OfClass(cls, instance, class) ==
    [cls |-> cls, instanceMethods |-> instance, classMethods |-> class]
MCCategories ==
    [k \in {"c0", "c1", "c2", "c3"} |->
        CASE k = "c0" -> OfClass("n", List("c0", {"retain"}), List("c0", {}))
          [] k = "c1" -> OfClass("a", List("c1", {"foo"}), List("c1", {}))
          [] k = "c2" -> OfClass("a", List("c2", {"foo", "retain"}), List("c2", {}))
          [] k = "c3" -> OfClass("a", List("c3", {"foo"}), List("c3+", {"alloc"}))]

MCLookups == {<<<<"a", FALSE>>, "foo">>, <<<<"b", FALSE>>, "foo">>, <<<<"b", TRUE>>, "alloc">>}

MCBundles ==
    [b \in {"RR", "AWZ"} |->
        IF b = "RR" THEN [sels |-> {"retain"}, instances |-> TRUE]
        ELSE [sels |-> {"alloc"}, instances |-> FALSE]]

-----------------------------------------------------------------------------
\* An instance size that fits the bits of the cache's flags and one that does not;
\* small base lists in the shared cache and in an image.
BaseList(inCache, signedFor) ==
    [id |-> "base", small |-> TRUE, inCache |-> inCache, signedFor |-> signedFor]
Data ==
    INSTANCE ClassData WITH
        rwe <- dataExt, Sizes <- {20, 65544}, Extras <- {0, 16},
        Flags <- {"HAS_DEFAULT_RR", "HAS_CXX_DTOR"}, Category <- "category",
        BaseLists <- {[inCache |-> TRUE, list |-> BaseList(TRUE, "nothing")],
                      [inCache |-> FALSE, list |-> BaseList(FALSE, "image")]}

\* Five lists of an image: unsorted, small and relative, with two methods of one
\* name, already sorted by the builder, and small with direct selectors.
Big(names, fixup, size) ==
    [entsize |-> size, small |-> FALSE, fixup |-> fixup, inSharedCache |-> FALSE,
     methods |-> [i \in DOMAIN names |->
                    [name |-> names[i], imp |-> 900 + 10 * size + names[i] + i]]]
Small(n, refs, inCache) ==
    LET at(i) == 1000 * n + 8 + 12 * (i - 1) IN
    [entsize |-> 12, small |-> TRUE, fixup |-> IF inCache THEN 3 ELSE 0,
     inSharedCache |-> inCache,
     methods |-> [i \in DOMAIN refs |->
                    [name |-> refs[i] - at(i), imp |-> 500 + 10 * n + i - (at(i) + 8)]]]
Lists ==
    INSTANCE MethodLists WITH
        lists <- methodLists,
        Static <- <<Big(<<31, 32, 33>>, 0, 24), Small(2, <<7031, 7033>>, FALSE),
                    Big(<<1, 3, 1>>, 1, 24), Big(<<33, 32>>, 0, 32), Small(5, <<1, 2>>, TRUE)>>,
        Registered <- 31 :> 3 @@ 32 :> 1 @@ 33 :> 2 @@ 1 :> 1 @@ 2 :> 2 @@ 3 :> 3,
        Imps <- {77}, MaxAttaches <- 2, MaxSets <- 2

\* Three classes; the middle one may come from an image that replaces the shared
\* cache's.  The mask has all its 11 bits, the shift five with two zeros between.
Preopt ==
    INSTANCE PreoptCache WITH
        layout <- cacheLayout, imps <- methodImps, given <- stored,
        realized <- realizedUpTo, initialized <- initializedUpTo,
        changes <- methodChanges,
        Chain <- <<"r", "a", "b">>,
        Own <- [r |-> {"alloc", "foo"}, a |-> {"foo"}, b |-> {}],
        Inlined <- {"alloc"}, MaxChanges <- 2, MaxMask <- 11, Shift <- 21

Strings ==
    INSTANCE Names WITH
        realized <- nameRealized,
        Threads <- {t1, t2}, Texts <- {<<1>>, <<2>>, <<3>>}, Builtins <- {<<3>>},
        Classes <- {"A", "B"},
        Demangled <- [c \in {"A", "B"} |-> [text |-> IF c = "A" THEN <<1>> ELSE <<2>>,
                                            mangled |-> c = "A"]],
        MaxHeap <- 4, MaxCalls <- 3

Demo ==
    INSTANCE StudyPro WITH
        lists <- demoLists, cache <- demoCache, loaded <- dogLoaded,
        Threads <- {t1, t2}, MaxSends <- 2

-----------------------------------------------------------------------------
MCInit ==
    /\ mode \in {"classes", "data", "lists", "preopt", "names", "resolve"}
    /\ Init /\ Lists!Init /\ Strings!Init /\ Demo!Init
    /\ Data!Init
    /\ mode # "data" => /\ layout = "fast" /\ flags = {}
                        /\ ros["ro"].instanceSize = 20
                        /\ ~ros["ro"].inCache
    /\ Preopt!Init
    /\ mode # "preopt" => cacheLayout = "outlined" /\ overridden = {}

MCNext ==
    \/ /\ mode = "classes" /\ Next
       /\ UNCHANGED <<mode, dataVars, listVars, preoptVars, nameVars, demoVars>>
    \/ /\ mode = "data" /\ Data!Next
       /\ UNCHANGED <<mode, vars, listVars, preoptVars, nameVars, demoVars>>
    \/ /\ mode = "lists" /\ Lists!Next
       /\ UNCHANGED <<mode, vars, dataVars, preoptVars, nameVars, demoVars>>
    \/ /\ mode = "preopt" /\ Preopt!Next
       /\ UNCHANGED <<mode, vars, dataVars, listVars, nameVars, demoVars>>
    \/ /\ mode = "names" /\ Strings!Next
       /\ UNCHANGED <<mode, vars, dataVars, listVars, preoptVars, demoVars>>
    \/ /\ mode = "resolve" /\ Demo!Next
       /\ UNCHANGED <<mode, vars, dataVars, listVars, preoptVars, nameVars>>

Unload ==
    /\ mode = "classes" /\ \E cat \in DOMAIN Categories : _unload_image(cat)
    /\ UNCHANGED <<mode, dataVars, listVars, preoptVars, nameVars, demoVars>>

allVars == <<mode, vars, dataVars, listVars, preoptVars, nameVars, demoVars>>
MCSpec == MCInit /\ [][MCNext]_allVars
MCPreoptSpec == MCInit /\ mode = "preopt" /\ [][MCNext]_allVars
MCUnloadSpec == MCInit /\ mode = "classes" /\ [][MCNext \/ Unload]_allVars

-----------------------------------------------------------------------------
\* A class's packed words give back what was stored, whatever was stored beside it
\* and by whom; its method lists agree with a search from first to last and keep
\* every implementation that was set; its names outlive those who were given them.
ClassDataSound ==
    /\ mode = "data" => Data!ClassDataIntact
    /\ mode = "lists" => Lists!MethodListsAgree
    /\ mode = "names" => Strings!NamesLast


\* Below a class that may not have one, no constant cache answers with a method a
\* message should not find.
NoStaleCaches == mode = "preopt" => Preopt!NoStaleCacheBelow
=============================================================================
