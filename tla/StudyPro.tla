------------------------------ MODULE StudyPro ------------------------------
(***************************************************************************)
(* Dynamic method resolution, driven by the classes of the demonstration   *)
(* program (StudyPro): NSObject (MethodTest) adds -girlfriend to the class *)
(* that was asked for it and +getMarried to the ROOT metaclass, Person     *)
(* adds -eat, and Dog's +load exchanges two of its methods and replaces a  *)
(* third.                                                                  *)
(*                                                                         *)
(* A lookup that finds nothing drops runtimeLock and calls the resolvers,  *)
(* so any number of threads may be resolving the same method; what each    *)
(* still has to do is its agenda, a stack of calls whose head runs next.   *)
(* A class is <<name, FALSE>>, its metaclass <<name, TRUE>>.  All classes  *)
(* are initialized here (module Initialize is about how they become so).   *)
(***************************************************************************)
EXTENDS Naturals, Sequences, SequencesExt, FiniteSets

CONSTANTS
    Threads,
    MaxSends,       \* bound: messages sent
    None            \* an empty cache slot

VARIABLES
    lists,          \* class -> its method lists, one after the other: <<[name, imp], ...>>
    cache,          \* class -> selector -> cached implementation, or None
    agenda,         \* thread -> the calls it still has to make
    got,            \* thread -> what its last lookup returned
    asked,          \* thread -> the message it sent last
    resolved,       \* thread -> whether that message ran the resolvers
    loaded,         \* whether Dog's +load has been called
    sends           \* messages sent so far

vars == <<lists, cache, agenda, got, asked, resolved, loaded, sends>>

ClassNames == {"NSObject", "SDSingleDog", "Person", "Dog"}
Classes == ClassNames \X BOOLEAN
RootMeta == <<"NSObject", TRUE>>
object_getClass(c) == IF c[2] THEN RootMeta ELSE <<c[1], TRUE>>
getMeta(c) == <<c[1], TRUE>>

Resolvers == {"resolveInstanceMethod", "resolveClassMethod"}
Selectors == Resolvers \cup {"girlfriend", "getMarried", "spareTire", "blindDate", "eat",
                        "show", "bark", "run", "sleep"}

(* _objc_msgForward_impcache, what a cache holds for a method nobody has,  *)
(* and _objc_msgForward, what class_getMethodImplementation returns then.  *)
Forward == "msgForward_impcache"
MsgForward == "msgForward"
Nil == "Nil"

Entry(name, imp) == [name |-> name, imp |-> imp]

(* The methods the images attach, newest category first.                   *)
InstanceMethods ==
    [n \in ClassNames |->
        CASE n = "SDSingleDog" -> <<Entry("spareTire", "-spareTire")>>
          [] n = "Person" -> <<Entry("show", "Cat1 show"), Entry("show", "Cat show"),
                               Entry("show", "Person show")>>
          [] n = "Dog" ->
               <<Entry("bark", "Cat1 bark"), Entry("eat", "Cat1 eat"),
                 Entry("sleep", "Cat1 sleep"), Entry("run", "Cat1 run"),
                 Entry("bark", "Dog bark"), Entry("eat", "Dog eat"),
                 Entry("sleep", "Dog sleep"), Entry("run", "Dog run")>>
          [] OTHER -> <<>>]
ClassMethods ==
    [n \in ClassNames |->
        CASE n = "SDSingleDog" -> <<Entry("blindDate", "+blindDate")>>
          [] n = "Person" -> <<Entry("resolveInstanceMethod", "Person resolves")>>
          [] n = "NSObject" ->
               <<Entry("resolveInstanceMethod", "MethodTest resolves"),
                 Entry("resolveClassMethod", "NSObject resolves"),
                 Entry("resolveInstanceMethod", "NSObject resolves")>>
          [] OTHER -> <<>>]

(* The class, its superclass, and so on: a metaclass's chain ends in NSObject. *)
Chain(c) ==
    LET own == IF c[1] = "NSObject" THEN <<c>> ELSE <<c, <<"NSObject", c[2]>>>>
    IN  IF c[2] THEN Append(own, <<"NSObject", FALSE>>) ELSE own
Below(c) == {k \in Classes : Contains(Chain(k), c)}

(* What the program's tests send.                                          *)
methodTest == {<<<<"SDSingleDog", FALSE>>, "girlfriend">>, <<<<"SDSingleDog", TRUE>>, "getMarried">>}
addMethodTest == {<<<<"Person", FALSE>>, "eat">>}
categoryTest == {<<<<"Person", FALSE>>, "show">>}
methodSwizzeTest == {<<<<"Dog", FALSE>>, s>> : s \in {"bark", "eat", "run", "sleep"}}
Messages == methodTest \cup addMethodTest \cup categoryTest \cup methodSwizzeTest

Calls == [do : {"send", "try", "lookUp", "resolve", "unlessFound", "add", "exchange", "set"},
          cls : Classes, sel : Selectors, how : SUBSET {"RESOLVER", "NIL", "METHOD"}, imp : STRING]
Call(do, c, s, how) == [do |-> do, cls |-> c, sel |-> s, how |-> how, imp |-> Nil]

Init ==
    /\ lists = [c \in Classes |-> IF c[2] THEN ClassMethods[c[1]] ELSE InstanceMethods[c[1]]]
    /\ cache = [c \in Classes |-> [s \in Selectors |-> None]]
    /\ agenda = [t \in Threads |-> <<>>]
    /\ got = [t \in Threads |-> Nil]
    /\ asked = [t \in Threads |-> None]
    /\ resolved = [t \in Threads |-> FALSE]
    /\ loaded = FALSE
    /\ sends = 0

-----------------------------------------------------------------------------
(* Where the first method of that name is in the class's lists, or 0.      *)
getMethodNoSuper(c, s) ==
    SelectInSeq(lists[c], LAMBDA m : m.name = s)

(* The class that has the method, as getMethod_nolock finds it.            *)
Owner(c, s) ==
    LET k == SelectInSeq(Chain(c), LAMBDA x : getMethodNoSuper(x, s) # 0)
    IN  IF k = 0 THEN None ELSE Chain(c)[k]
Imp(c, s) == lists[c][getMethodNoSuper(c, s)].imp

(* The search under runtimeLock: the class's own lists, then each          *)
(* superclass's cache and lists.  A forward entry in a superclass's cache  *)
(* ends it.                                                                *)
Search(c, s) ==
    LET k == SelectInSeq(Chain(c), LAMBDA x : \/ x # c /\ cache[x][s] # None
                                              \/ getMethodNoSuper(x, s) # 0)
        x == Chain(c)[k] IN
    IF k = 0 THEN Forward
    ELSE IF k > 1 /\ cache[x][s] # None THEN cache[x][s] ELSE Imp(x, s)

(* The two resolvers, as resolveMethod_locked calls them.  The lookup      *)
(* after each one leaves its result in the cache, "good or bad".           *)
resolveInstanceMethod(c, s) ==
    << Call("try", object_getClass(c), "resolveInstanceMethod", {"NIL"}),
       Call("resolve", c, s, {}),
       Call("try", c, s, {"NIL"}) >>
resolveClassMethod(c, s) ==
    << Call("try", c, "resolveClassMethod", {"NIL"}),
       (* +[NSObject resolveClassMethod:], which returns NO *)
       Call("try", c, s, {"NIL"}) >>
resolveMethod(c, s, how) ==
    (IF ~c[2] THEN resolveInstanceMethod(c, s)
     ELSE resolveClassMethod(c, s) \o << Call("try", c, s, {"NIL"}),
                                         Call("unlessFound", c, s, {}) >>)
    \o << Call("try", c, s, how \ {"RESOLVER"}) >>

(* A call is over and returns an implementation.                           *)
Returned(imp, how) ==
    IF "NIL" \in how /\ imp = Forward THEN Nil ELSE imp
Return(t, imp, how) ==
    /\ got' = [got EXCEPT ![t] = IF "METHOD" \in how THEN @ ELSE Returned(imp, how)]
    /\ agenda' = [agenda EXCEPT ![t] = Tail(@)]

Next_(t, do) == agenda[t] # <<>> /\ Head(agenda[t]).do = do

(* objc_msgSend and _lookUpImpTryCache: the cache first, without a lock.   *)
TryCache(t) ==
    /\ Next_(t, "send") \/ Next_(t, "try")
    /\ LET call == Head(agenda[t])
           imp == cache[call.cls][call.sel] IN
       IF imp # None THEN Return(t, imp, call.how)
       ELSE /\ agenda' = [agenda EXCEPT ![t][1].do = "lookUp"]
            /\ UNCHANGED got
    /\ UNCHANGED <<lists, cache, asked, resolved, loaded, sends>>

lookUpImpOrForward(t) ==
    /\ Next_(t, "lookUp")
    /\ LET call == Head(agenda[t])
           imp == Search(call.cls, call.sel) IN
       IF imp = Forward /\ "RESOLVER" \in call.how
       THEN /\ agenda' = [agenda EXCEPT ![t] = resolveMethod(call.cls, call.sel, call.how) \o Tail(@)]
            /\ resolved' = [resolved EXCEPT ![t] = @ \/ asked[t] = <<call.cls, call.sel>>]
            /\ UNCHANGED <<cache, got>>
       ELSE /\ cache' = [cache EXCEPT ![call.cls][call.sel] = imp]
            /\ Return(t, imp, call.how)
            /\ UNCHANGED resolved
    /\ UNCHANGED <<lists, asked, loaded, sends>>

(* The bodies of the program's +resolveInstanceMethod:.  The lookup of the *)
(* Method, for its types, runs the resolvers of that selector too.         *)
AddCopyOf(self, original, to, sel) ==
    << Call("try", self, original, {"RESOLVER", "NIL"}),
       Call("lookUp", IF sel = "getMarried" THEN getMeta(self) ELSE self, original,
            {"RESOLVER", "METHOD"}),
       Call("add", to, sel, {}) >>
MethodTestResolves(self, sel) ==
    CASE sel = "girlfriend" -> AddCopyOf(self, "spareTire", self, sel)
      [] sel = "getMarried" -> AddCopyOf(self, "blindDate", object_getClass(self), sel)
      [] OTHER -> <<>>
PersonResolves(self, sel) ==
    (IF sel = "eat" THEN << [Call("add", self, sel, {}) EXCEPT !.imp = "eat"] >> ELSE <<>>)
    \o MethodTestResolves(self, sel)

Resolve(t) ==
    /\ Next_(t, "resolve")
    /\ LET call == Head(agenda[t])
           meta == object_getClass(call.cls)
           body == CASE got[t] = "Person resolves" -> PersonResolves(call.cls, call.sel)
                     [] got[t] = "MethodTest resolves" -> MethodTestResolves(call.cls, call.sel)
       IN  agenda' = [agenda EXCEPT ![t] = body \o Tail(@)]
    /\ UNCHANGED <<lists, cache, got, asked, resolved, loaded, sends>>

(* After +resolveClassMethod:, the metaclass's own +resolveInstanceMethod: *)
UnlessFound(t) ==
    /\ Next_(t, "unlessFound")
    /\ LET call == Head(agenda[t]) IN
       agenda' = [agenda EXCEPT ![t] = (IF got[t] = Nil THEN resolveInstanceMethod(call.cls, call.sel)
                                        ELSE <<>>) \o Tail(@)]
    /\ UNCHANGED <<lists, cache, got, asked, resolved, loaded, sends>>

-----------------------------------------------------------------------------
flushCaches(c) == [k \in Classes |-> IF k \in Below(c) THEN [s \in Selectors |-> None] ELSE cache[k]]

(* class_addMethod: not when the class itself has the method already.      *)
class_addMethod(t) ==
    /\ Next_(t, "add")
    /\ LET call == Head(agenda[t])
           imp == IF call.imp # Nil THEN call.imp ELSE IF got[t] = Nil THEN MsgForward ELSE got[t] IN
       IF getMethodNoSuper(call.cls, call.sel) # 0 THEN UNCHANGED <<lists, cache>>
       ELSE /\ lists' = [lists EXCEPT ![call.cls] = <<Entry(call.sel, imp)>> \o @]
            /\ cache' = flushCaches(call.cls)
    /\ agenda' = [agenda EXCEPT ![t] = Tail(@)]
    /\ UNCHANGED <<got, asked, resolved, loaded, sends>>

shouldFlush(old) == {c \in Classes : \E m \in old : cache[c][m.name] = m.imp}
Erased(S) == [c \in Classes |-> IF c \in S THEN [s \in Selectors |-> None] ELSE cache[c]]
TheMethod(c, s) == [cls |-> Owner(c, s), name |-> s, imp |-> Imp(Owner(c, s), s)]
setImp(ls, m, imp) == [ls EXCEPT ![m.cls][getMethodNoSuper(m.cls, m.name)].imp = imp]

(* The two changes of Dog's +load.                                         *)
method_exchangeImplementations(t) ==
    /\ Next_(t, "exchange")
    /\ LET c == Head(agenda[t]).cls
           m1 == TheMethod(c, "bark")
           m2 == TheMethod(c, "run") IN
       /\ lists' = setImp(setImp(lists, m1, m2.imp), m2, m1.imp)
       /\ cache' = Erased(shouldFlush({m1, m2}))
    /\ agenda' = [agenda EXCEPT ![t] = Tail(@)]
    /\ UNCHANGED <<got, asked, resolved, loaded, sends>>

method_setImplementation(t) ==
    /\ Next_(t, "set")
    /\ LET m == TheMethod(Head(agenda[t]).cls, "eat") IN
       /\ lists' = setImp(lists, m, got[t])
       /\ cache' = Erased(shouldFlush({m}))
    /\ agenda' = [agenda EXCEPT ![t] = Tail(@)]
    /\ UNCHANGED <<got, asked, resolved, loaded, sends>>

Dog == <<"Dog", FALSE>>
DogLoad(t) ==
    LET method(s) == Call("lookUp", Dog, s, {"RESOLVER", "METHOD"}) IN
    /\ agenda[t] = <<>> /\ ~loaded
    /\ loaded' = TRUE
    /\ agenda' = [agenda EXCEPT ![t] =
         << method("bark"), method("run"), Call("exchange", Dog, "bark", {}),
            method("eat"), Call("try", Dog, "sleep", {"RESOLVER", "NIL"}),
            Call("set", Dog, "eat", {}) >>]
    /\ asked' = [asked EXCEPT ![t] = None]
    /\ UNCHANGED <<lists, cache, got, resolved, sends>>

Send(t) ==
    /\ agenda[t] = <<>> /\ sends < MaxSends
    /\ \E m \in Messages :
       /\ asked' = [asked EXCEPT ![t] = m]
       /\ agenda' = [agenda EXCEPT ![t] = <<Call("send", m[1], m[2], {"RESOLVER"})>>]
    /\ resolved' = [resolved EXCEPT ![t] = FALSE]
    /\ sends' = sends + 1
    /\ UNCHANGED <<lists, cache, got, loaded>>

Step(t) ==
    \/ Send(t) \/ DogLoad(t) \/ TryCache(t) \/ lookUpImpOrForward(t) \/ Resolve(t)
    \/ UnlessFound(t) \/ class_addMethod(t)
    \/ method_exchangeImplementations(t) \/ method_setImplementation(t)
Next == \E t \in Threads : Step(t)
Spec == Init /\ [][Next]_vars

-----------------------------------------------------------------------------
(* categoryMethodTest: the last method of that name in the copied list is  *)
(* the one the class itself defines, hidden by its categories.             *)
categoryMethodTest(c, s) ==
    lists[c][SelectLastInSeq(lists[c], LAMBDA m : m.name = s)].imp

TypeOK ==
    /\ lists \in [Classes -> Seq([name : Selectors, imp : STRING])]
    /\ agenda \in [Threads -> Seq(Calls)]
    /\ loaded \in BOOLEAN /\ sends \in 0 .. MaxSends

(* What the resolver of a selector copies.                                 *)
Promised == [girlfriend |-> "-spareTire", getMarried |-> "+blindDate", eat |-> "eat"]

(* A message that ran the resolvers ends in the method they promise,       *)
(* whichever thread's class_addMethod came first and however many negative *)
(* results were cached on the way; a cache never holds an implementation,  *)
(* or the absence of one, that its class's lists do not say; no resolver   *)
(* adds a method twice; and the methods a class defines itself survive     *)
(* what +load does to the categories' methods above them.                  *)
ResolutionTakes ==
    /\ \A t \in Threads :
         agenda[t] = <<>> /\ resolved[t] /\ asked[t] # None =>
             got[t] = Promised[asked[t][2]]
    /\ \A c \in Classes, s \in Selectors :
         \/ cache[c][s] = None
         \/ Owner(c, s) = None /\ cache[c][s] = Forward
         \/ Owner(c, s) # None /\ cache[c][s] = Imp(Owner(c, s), s)
    /\ \A c \in Classes, s \in DOMAIN Promised :
         c # Dog => Cardinality({k \in DOMAIN lists[c] : lists[c][k].name = s}) <= 1
    /\ \A s \in {"bark", "eat", "sleep", "run"} :
         categoryMethodTest(Dog, s) = Head(SelectSeq(SubSeq(InstanceMethods["Dog"], 5, 8),
                                                     LAMBDA m : m.name = s)).imp
=============================================================================
