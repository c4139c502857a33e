---------------------------- MODULE MCLifetimes ----------------------------
(***************************************************************************)
(* How objects and classes begin and end, one part in each behaviour:      *)
(*   refcount    the reference count of an object, down to its -dealloc    *)
(*               and free(), while its class is changed;                   *)
(*   counts      DenseMap and SmallDenseMap, the table in which the side   *)
(*               tables keep their counts, with colliding keys;            *)
(*   load        +load, as images are mapped and unmapped;                 *)
(*   initialize  +initialize, before the first message to a class.         *)
(* The parts that are not used keep their initial value.                   *)
(***************************************************************************)
EXTENDS ObjectRefCountInv, Sequences

CONSTANTS Funcs, nil, EmptyKey, TombstoneKey, Absent

VARIABLES mode,
    InlineBuckets, map, other, corrupt,
    info, pendingInitializeMap, initializingClasses, stack, willInitializeFuncs, telling,
    told, calls, child, alive, halted,
    mapped, RW_LOADED, loadable_classes, loadable_categories, phase, detached, running,
    called, missed, maps

mapVars == <<InlineBuckets, map, other, corrupt>>
initVars == <<info, pendingInitializeMap, initializingClasses, stack, willInitializeFuncs,
              telling, told, calls, child, alive, halted>>
loadVars == <<mapped, RW_LOADED, loadable_classes, loadable_categories, phase, detached,
              running, called, missed, maps>>
allVars == <<mode, vars, mapVars, initVars, loadVars>>

\* The keys collide, wrap around, or need as many bits as there are.
Dense ==
    INSTANCE DenseMap WITH
        Keys <- 1 .. 4, Values <- {0, 1}, DefaultValue <- 0, Purgeable <- {0},
        HashValue <- <<1, 1, 2, 8>>, InlineChoices <- {0, 4}, Reservations <- {12},
        MIN_BUCKETS <- 4, MIN_COMPACT <- 16, UnsignedBits <- 8

(* A root, its subclass and a subclass of that, whose +initialize methods  *)
(* message up and down the line.  The root's counts as trivial, whatever   *)
(* it does, and the lowest class has none of its own.                      *)
Line == {"A", "B", "C"}
I == INSTANCE Initialize WITH
        Classes <- Line,
        superclass <- [c \in Line |-> CASE c = "A" -> nil [] c = "B" -> "A" [] c = "C" -> "B"],
        Messages <- [c \in Line |-> CASE c = "A" -> {"B", "C"}
                                      [] c = "B" -> {"A", "B", "C"} [] c = "C" -> {}],
        Trivial <- {"A", "C"}, MayFork <- TRUE, MaxSends <- 1, MaxCalls <- 1

(* An application; a bundle with a subclass and a category of it; and a    *)
(* bundle with an unrelated class and two categories.                      *)
L == INSTANCE LoadMethods WITH
        Images <- [i \in {"app", "sub", "cats"} |->
            CASE i = "app" -> [classes |-> <<"K">>, categories |-> <<"k1">>, needs |-> {}]
              [] i = "sub" -> [classes |-> <<"S", "M">>, categories |-> <<"s1">>, needs |-> {"app"}]
              [] i = "cats" -> [classes |-> <<"U">>, categories |-> <<"k2", "u1">>, needs |-> {"app"}]],
        Superclass <- [c \in {"K", "M", "S", "U"} |->
            CASE c = "S" -> "M" [] c = "M" -> "K" [] OTHER -> nil],
        ClassOf <- [k \in {"k1", "k2", "s1", "u1"} |->
            CASE k \in {"k1", "k2"} -> "K" [] k = "s1" -> "S" [] OTHER -> "U"],
        HasLoad <- {"K", "M", "S", "k1", "k2", "s1", "u1"},
        MaxMaps <- 5

-----------------------------------------------------------------------------
MCInit ==
    /\ mode \in {"refcount", "counts", "load", "initialize"}
    /\ Init /\ Dense!Init /\ I!Init /\ L!Init
    /\ mode # "refcount" =>
          /\ isa = InitIsa
          /\ owner = [r \in Refs |-> IF r = CHOOSE q \in Refs : TRUE
                                    THEN CHOOSE t \in Threads : TRUE ELSE NoThread]
    /\ mode # "counts" => InlineBuckets = 0

MCNext ==
    \/ mode = "refcount" /\ Next /\ UNCHANGED <<mode, mapVars, initVars, loadVars>>
    \/ mode = "counts" /\ Dense!Next /\ UNCHANGED <<mode, vars, initVars, loadVars>>
    \/ mode = "load" /\ L!Next /\ UNCHANGED <<mode, vars, mapVars, initVars>>
    \/ mode = "initialize" /\ I!Next /\ UNCHANGED <<mode, vars, mapVars, loadVars>>

MCFairness ==
    /\ Fairness
    /\ \A t \in Threads : WF_initVars(mode = "initialize" /\ I!Step(t))

MCSpec == MCInit /\ [][MCNext]_allVars /\ MCFairness

ForkSpec == MCInit /\ mode = "initialize" /\ [][MCNext]_allVars

-----------------------------------------------------------------------------
\* A DenseMap is a map: the refinement of AbstractMap.
ImplementsMap == Dense!ImplementsMap

\* A failing search in a DenseMap ends at an empty bucket; iteration, find(), size()
\* and == agree.
DenseMapSound == mode = "counts" => Dense!SearchEnds /\ Dense!ReadersAgree

\* A class is initialized, or being so, only if its superclass is further on or being
\* initialized by the same thread; no fatal error is met but the one of ForkChildContinues,
\* and that only in a child whose parent left a class pending on a thread that is gone;
\* and every registered callback is made exactly once for every class.
InitializeInOrder == I!HierarchyInOrder /\ I!ToldOnce

\* A message reaches a class only when it is initialized, or its +initialize is under
\* way on the thread that sends the message.
MessagesFindClassReady == I!MessagesFindClassReady

\* If +initialize methods message only their own superclasses and subclasses, every
\* message is delivered in the end, unless the process is stopped: in the child of a
\* fork(), by the rule that refuses +initialize there or by the error of
\* ForkChildContinues.
EveryMessageDelivered == I!EveryMessageDelivered

\* In the child of a fork() a class is either refused, because it has a +initialize of
\* its own, or marked as initialized, and the process goes on.
ForkChildContinues == I!ForkChildContinues

\* Each +load method is called once, after that of the superclass, and a category's
\* after its class's.
LoadsInOrder == L!LoadsInOrder

\* When the outermost call_load_methods returns, every +load method of every mapped
\* image was called.
ExactlyTheMappedAreLoaded == L!ExactlyTheMappedAreLoaded

=============================================================================
