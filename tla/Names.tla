------------------------------- MODULE Names -------------------------------
(***************************************************************************)
(* Two sets of strings that threads share: the selectors (objc-sel.mm),    *)
(* where a name is looked up in the shared cache first and registered      *)
(* under selLock, and the demangled names of Swift classes                 *)
(* (objc_class::demangledName), kept with the class or in DemangleCache.   *)
(* A string is <<text, address>>; some addresses are in images that can be *)
(* unmapped, some in images that cannot, the others belong to malloc.      *)
(***************************************************************************)
EXTENDS Integers, Sequences, FiniteSets

CONSTANTS
    Threads,
    Texts,          \* names: of methods, and demangled ones
    Builtins,       \* names that the shared cache has selectors for
    Classes,        \* classes with mangled names; each demangles to a text
    Demangled,
    nil,
    MaxHeap,        \* bound: copies of one text
    MaxCalls        \* bound

Immutable(text) == <<text, 0>>      \* in an image that stays
InBundle(text) == <<text, 1>>       \* in an image that may be unmapped
InCache(text) == <<text, 2>>        \* in the shared cache
Heap(text) == {<<text, n>> : n \in 3 .. 2 + MaxHeap}

VARIABLES
    namedSelectors, DemangleCache,  \* DenseSets of strings
    live,           \* the strings that may be read
    bundleMapped,
    realized, demangledName,        \* of each class
    thread,         \* [pc, cls or string, de]: a call
    given,          \* history: what sel_registerName and class_getName returned
    calls

vars == <<namedSelectors, DemangleCache, live, bundleMapped, realized, demangledName, thread, given, calls>>

Str == INSTANCE DenseSet WITH
    Types <- {"const char *"}, Bits <- 4, InlineSizes <- {0}, MinBuckets <- 4,
    KeysOf <- [ty \in {"const char *"} |-> Texts \X (0 .. 2 + MaxHeap)], Reservations <- {},
    type <- "const char *", InlineBuckets <- 0, set <- {}, members <- {}

Text(string) == string[1]
Put(s, string) == Str!insert("const char *", 0, s, string)
Kept(s, string) == Str!stored("const char *", s, string)
Holds(s, string) == Str!contains("const char *", 0, s, string)
EmptySet == Str!NewSet("const char *", 0, 0)

Idle == [pc |-> "idle"]
At(t, pc) == thread[t].pc = pc
Goes(t, r) == thread' = [thread EXCEPT ![t] = r]
Return(t, what, key, string) ==
    /\ Goes(t, Idle)
    /\ given' = [given EXCEPT ![what][key] = @ \cup {string}]
FreeCopy(text) == CHOOSE p \in Heap(text) : p \notin live
CanCopy(text) == \E p \in Heap(text) : p \notin live
Call == calls < MaxCalls /\ calls' = calls + 1

----------------------------------------------------------------------------
(* Selectors.  Images that stay register their own strings; the others,    *)
(* and the program, have theirs copied unless they can never change.       *)
search_builtins(text) == IF text \in Builtins THEN InCache(text) ELSE nil

sel_alloc_InPlace(string, copy) == string
sel_alloc(string, copy) ==
    IF copy /\ string # Immutable(Text(string)) THEN FreeCopy(Text(string)) ELSE string

registerName(t, string, copy) ==
    /\ At(t, "idle") /\ string \in live /\ Call
    /\ IF search_builtins(Text(string)) # nil
       THEN Return(t, "sel", Text(string), search_builtins(Text(string)))
       ELSE /\ Goes(t, [pc |-> "register", string |-> string, copy |-> copy])
            /\ UNCHANGED given
    /\ UNCHANGED <<namedSelectors, DemangleCache, live, bundleMapped, realized, demangledName>>

register_insert(t) ==
    /\ At(t, "register")
    /\ LET string == thread[t].string
           text == Text(string)
           sel == IF Holds(namedSelectors, string) THEN Kept(namedSelectors, string)
                  ELSE sel_alloc(string, thread[t].copy)
       IN /\ CanCopy(text)
          /\ namedSelectors' = [Put(namedSelectors, string) EXCEPT !.keeps[text] = sel]
          /\ live' = live \cup {sel}
          /\ Return(t, "sel", text, sel)
    /\ UNCHANGED <<DemangleCache, bundleMapped, realized, demangledName, calls>>

sel_isMapped(string) ==
    \/ string = search_builtins(Text(string))
    \/ Holds(namedSelectors, string) /\ Kept(namedSelectors, string) = string

(* An image goes while no thread is in a call with one of its strings.     *)
unmap ==
    /\ bundleMapped
    /\ \A t \in Threads : At(t, "register") => thread[t].string # InBundle(Text(thread[t].string))
    /\ bundleMapped' = FALSE
    /\ live' = live \ {InBundle(x) : x \in Texts}
    /\ UNCHANGED <<namedSelectors, DemangleCache, realized, demangledName, thread, given, calls>>

----------------------------------------------------------------------------
(* Demangled names.  mangledName is in an image that stays.                *)
mangledName(cls) == Immutable(Demangled[cls].text)

class_getName(t, cls) ==
    /\ At(t, "idle") /\ Call
    /\ IF realized[cls] /\ demangledName[cls] # nil
       THEN Return(t, "name", cls, demangledName[cls]) /\ UNCHANGED live
       ELSE IF Demangled[cls].mangled
       THEN /\ CanCopy(Demangled[cls].text)
            /\ live' = live \cup {FreeCopy(Demangled[cls].text)}
            /\ Goes(t, [pc |-> "demangled", cls |-> cls, de |-> FreeCopy(Demangled[cls].text)])
            /\ UNCHANGED given
       ELSE Goes(t, [pc |-> "demangled", cls |-> cls, de |-> nil]) /\ UNCHANGED <<given, live>>
    /\ UNCHANGED <<namedSelectors, DemangleCache, bundleMapped, realized, demangledName>>

\* The class may have been realized meanwhile.
name_where(t) ==
    /\ At(t, "demangled")
    /\ IF realized[thread[t].cls] THEN Goes(t, [thread[t] EXCEPT !.pc = "swap"]) /\ UNCHANGED given
       ELSE IF thread[t].de = nil THEN Return(t, "name", thread[t].cls, mangledName(thread[t].cls))
       ELSE Goes(t, [thread[t] EXCEPT !.pc = "cache"]) /\ UNCHANGED given
    /\ UNCHANGED <<namedSelectors, DemangleCache, live, bundleMapped, realized, demangledName, calls>>

name_swap_Stores(t) ==
    /\ At(t, "swap")
    /\ LET cls == thread[t].cls
           mine == IF thread[t].de # nil THEN thread[t].de ELSE mangledName(cls)
       IN /\ demangledName' = [demangledName EXCEPT ![cls] = mine]
          /\ live' = live \ ({demangledName[cls]} \cap Heap(Demangled[cls].text))
          /\ Return(t, "name", cls, mine)
    /\ UNCHANGED <<namedSelectors, DemangleCache, bundleMapped, realized, calls>>

name_swap(t) ==
    /\ At(t, "swap")
    /\ LET cls == thread[t].cls
           won == demangledName[cls] = nil
           mine == IF thread[t].de # nil THEN thread[t].de ELSE mangledName(cls)
       IN /\ demangledName' = IF won THEN [demangledName EXCEPT ![cls] = mine] ELSE demangledName
          /\ live' = IF won THEN live ELSE live \ {thread[t].de}
          /\ Return(t, "name", cls, demangledName'[cls])
    /\ UNCHANGED <<namedSelectors, DemangleCache, bundleMapped, realized, calls>>

name_cache(t) ==
    /\ At(t, "cache")
    /\ LET de == thread[t].de
           s == Put(DemangleCache, de)
           cached == Kept(s, de)
       IN /\ DemangleCache' = s
          /\ live' = IF cached # de THEN live \ {de} ELSE live
          /\ Return(t, "name", thread[t].cls, cached)
    /\ UNCHANGED <<namedSelectors, bundleMapped, realized, demangledName, calls>>

realize(cls) ==
    /\ ~realized[cls]
    /\ realized' = [realized EXCEPT ![cls] = TRUE]
    /\ UNCHANGED <<namedSelectors, DemangleCache, live, bundleMapped, demangledName, thread, given, calls>>

----------------------------------------------------------------------------
Init ==
    /\ namedSelectors = EmptySet /\ DemangleCache = EmptySet
    /\ live = {Immutable(x) : x \in Texts} \cup {InBundle(x) : x \in Texts} \cup {InCache(x) : x \in Builtins}
    /\ bundleMapped = TRUE
    /\ realized = [c \in Classes |-> FALSE] /\ demangledName = [c \in Classes |-> nil]
    /\ thread = [t \in Threads |-> Idle]
    /\ given = [sel |-> [x \in Texts |-> {}], name |-> [c \in Classes |-> {}]]
    /\ calls = 0

Next ==
    \/ \E t \in Threads :
        \/ \E x \in Texts, copy \in BOOLEAN : registerName(t, Immutable(x), copy)
        \/ \E x \in Texts : registerName(t, InBundle(x), TRUE)
        \/ register_insert(t)
        \/ \E c \in Classes : class_getName(t, c)
        \/ name_where(t) \/ name_swap(t) \/ name_cache(t)
    \/ unmap
    \/ \E c \in Classes : realize(c)

(* A selector is unique: one name has one, whoever registers it, from      *)
(* whatever image, and it can be read for good, as every class name that   *)
(* was handed out can; sel_isMapped is right about every string.  No copy  *)
(* that lost a race, or that nobody needs, is left behind.                 *)
NamesLast ==
    /\ \A x \in Texts :
           /\ Cardinality(given.sel[x]) <= 1
           /\ \A sel \in given.sel[x] : sel \in live /\ Text(sel) = x /\ sel_isMapped(sel)
    /\ \A c \in Classes : \A name \in given.name[c] : name \in live /\ Text(name) = Demangled[c].text
    /\ \A string \in live : sel_isMapped(string) = (string \in given.sel[Text(string)] \/ string \in {InCache(x) : x \in Builtins})
    /\ {p \in live : p[2] >= 3} =
          {p \in {namedSelectors.keeps[x] : x \in DOMAIN namedSelectors.keeps}
             \cup {DemangleCache.keeps[x] : x \in DOMAIN DemangleCache.keeps}
             \cup {demangledName[c] : c \in Classes}
             \cup {thread[t].de : t \in {u \in Threads : thread[u].pc \in {"demangled", "swap", "cache"}}} : p # nil /\ p[2] >= 3}

=============================================================================
