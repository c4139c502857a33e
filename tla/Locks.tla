-------------------------------- MODULE Locks --------------------------------
(***************************************************************************)
(* The runtime's own locks: the order in which they may be nested, the     *)
(* check of it in a debug build, the striped locks, and fork(), which takes *)
(* every lock so that the child finds the runtime's data consistent, and   *)
(* then resets them in the child, where nobody is left to release them.    *)
(***************************************************************************)
EXTENDS Integers, Sequences, SequencesExt

CONSTANTS
    Threads,
    Forker,         \* the thread that may call fork()
    StripeCount,    \* locks of a StripedMap
    MaxForks

VARIABLES
    owner,          \* [lock -> thread or None]
    nest,           \* [lock -> times its owner locked it]
    owned,          \* lockdebug's list: [thread -> locks]
    path,           \* [thread -> the locks it will nest]
    held,           \* [thread -> how many of them it has]
    request,        \* [thread -> it passed lockdebug and waits for the lock]
    forking,        \* "no", or the stage of fork() the forker is in
    child,          \* the locks as the child of the last fork() has them
    forks,          \* calls of fork()
    fatal           \* lockdebug stopped the program

vars == <<owner, nest, owned, path, held, request, forking, child, forks, fatal>>

None == "none"

----------------------------------------------------------------------------
(* The locks.  A lock is <<name, stripe>>.                                 *)
One(name) == <<name, 0>>
Striped == {"PropertyLocks", "StructLocks", "CppObjectLocks", "SideTables"}
Single == {"loadMethodLock", "AssociationsManagerLock", "classInitLock", "runtimeLock", "DemangleCacheLock",
           "selLock", "objcMsgLogLock", "AltHandlerDebugLock", "crashlog_lock"}
AllLocks == {One(n) : n \in Single} \cup (Striped \X (0 .. StripeCount - 1))
IsRecursive(lock) == lock = One("loadMethodLock")

(* StripedMap.  lockAll, unlockAll and forceResetAll go through it in the  *)
(* order of its addresses.                                                 *)
lockAll(map) == [i \in 1 .. StripeCount |-> <<map, i - 1>>]
defineLockOrder(map) == {<<<<map, i - 1>>, <<map, i>>>> : i \in 1 .. StripeCount - 1}
precedeLock(map, lock) == <<<<map, StripeCount - 1>>, lock>>
succeedLock(map, lock) == <<lock, <<map, 0>>>>

(* mutex_tt::lockTwo.                                                      *)
lockTwo_AsGiven(map, i, j) ==
    IF i = j THEN <<<<map, i>>>> ELSE <<<<map, i>>, <<map, j>>>>
lockTwo(map, i, j) ==
    CASE i < j -> <<<<map, i>>, <<map, j>>>>
      [] i = j -> <<<<map, j>>>>
      [] OTHER -> <<<<map, j>>, <<map, i>>>>

----------------------------------------------------------------------------
(* defineLockOrder: which lock precedes which.                             *)
Precede(names, lock) == {<<One(n), lock>> : n \in names}
DeclaredOrder ==
    Precede(Single \ {"crashlog_lock"}, One("crashlog_lock"))
    \cup {precedeLock(m, One("crashlog_lock")) : m \in Striped}
    \cup {<<One("loadMethodLock"), One(n)>> : n \in Single \ {"loadMethodLock", "crashlog_lock"}}
    \cup {succeedLock(m, One("loadMethodLock")) : m \in Striped}
    \cup {precedeLock(m, One(n)) :
             m \in {"PropertyLocks", "CppObjectLocks"},
             n \in {"runtimeLock", "DemangleCacheLock", "classInitLock", "selLock", "objcMsgLogLock",
                    "AltHandlerDebugLock", "AssociationsManagerLock"}}
    \cup {<<One("AssociationsManagerLock"), One(n)>> :
             n \in {"runtimeLock", "DemangleCacheLock", "classInitLock", "selLock", "objcMsgLogLock",
                    "AltHandlerDebugLock"}}
    \cup {succeedLock("SideTables", <<m, i>>) :
             m \in {"PropertyLocks", "CppObjectLocks"}, i \in 0 .. StripeCount - 1}
    \cup {succeedLock("SideTables", One("AssociationsManagerLock"))}
    \cup {precedeLock("SideTables", One(n)) : n \in {"runtimeLock", "classInitLock"}}
    \cup {<<One("classInitLock"), One("runtimeLock")>>, <<One("runtimeLock"), One("selLock")>>,
          <<One("runtimeLock"), One("DemangleCacheLock")>>}
    \cup UNION {defineLockOrder(m) : m \in Striped}

(* lockPrecedesLock goes back through the predecessors.                    *)
RECURSIVE Predecessors(_, _)
Predecessors(order, S) ==
    LET more == S \cup {p[1] : p \in {q \in order : q[2] \in S}}
    IN IF more = S THEN S ELSE Predecessors(order, more)
PrecedesTable ==
    [l \in AllLocks |->
        LET order == DeclaredOrder
        IN Predecessors(order, {p[1] : p \in {q \in order : q[2] = l}})]

(* _objc_atfork_prepare.                                                   *)
PrepareOrder_SelectorsFirst ==
    <<One("selLock"), One("loadMethodLock")>> \o lockAll("PropertyLocks") \o lockAll("CppObjectLocks")
    \o <<One("AssociationsManagerLock")>> \o lockAll("SideTables")
    \o <<One("classInitLock"), One("runtimeLock"), One("DemangleCacheLock"),
         One("objcMsgLogLock"), One("AltHandlerDebugLock")>>
    \o lockAll("StructLocks") \o <<One("crashlog_lock")>>
PrepareOrder ==
    <<One("loadMethodLock")>> \o lockAll("PropertyLocks") \o lockAll("CppObjectLocks")
    \o <<One("AssociationsManagerLock")>> \o lockAll("SideTables")
    \o <<One("classInitLock"), One("runtimeLock"), One("DemangleCacheLock"), One("selLock"),
         One("objcMsgLogLock"), One("AltHandlerDebugLock")>>
    \o lockAll("StructLocks") \o <<One("crashlog_lock")>>

(* The nestings of the runtime's operations.  A +load method, and code run *)
(* under a property's, an association's or a C++ object's lock, may go on  *)
(* to any of those below it.                                               *)
Stripes == 0 .. StripeCount - 1
Lookup == <<One("classInitLock"), One("runtimeLock"), One("selLock")>>
Nestings ==
    {<<One("loadMethodLock"), One("loadMethodLock")>> \o Lookup,              \* +load that maps an image
     <<One("runtimeLock"), One("DemangleCacheLock"), One("crashlog_lock")>>,  \* a fatal error
     <<One("objcMsgLogLock")>>, <<One("AltHandlerDebugLock")>>}
    \cup {<<<<"PropertyLocks", i>>, <<"SideTables", j>>>> : i \in Stripes, j \in Stripes}
    \cup {lockTwo("StructLocks", i, j) : i \in Stripes, j \in Stripes}
    \cup {lockTwo("CppObjectLocks", i, j) \o <<<<"SideTables", i>>>> : i \in Stripes, j \in Stripes}
    \cup {<<One("AssociationsManagerLock"), <<"SideTables", i>>>> : i \in Stripes}
    \cup {lockTwo("SideTables", i, j) \o <<One("runtimeLock")>> : i \in Stripes, j \in Stripes}

----------------------------------------------------------------------------
(* lockdebug's setLock, before the lock is waited for.                     *)
inForkPrepare(t) == t = Forker /\ forking = "prepare"
OrderError(t, lock) ==
    \E old \in owned[t] \ {lock} :
        \/ lock \in PrecedesTable[old]
        \/ ~inForkPrepare(t) /\ old \notin PrecedesTable[lock]
Relocks(t, lock) == lock \in owned[t] /\ ~IsRecursive(lock)

(* A thread starts an operation; the next lock of it.                      *)
start(t) ==
    /\ path[t] = <<>> /\ ~fatal
    /\ t = Forker => forking = "no"
    /\ \E p \in Nestings : path' = [path EXCEPT ![t] = p]
    /\ held' = [held EXCEPT ![t] = 0]
    /\ UNCHANGED <<owner, nest, owned, request, forking, child, forks, fatal>>

lockdebug_lock(t) ==
    /\ held[t] < Len(path[t]) /\ ~request[t] /\ ~fatal
    /\ LET lock == path[t][held[t] + 1]
       IN IF OrderError(t, lock) \/ Relocks(t, lock)
          THEN fatal' = TRUE /\ UNCHANGED <<owned, request>>
          ELSE /\ owned' = [owned EXCEPT ![t] = @ \cup {lock}]
               /\ request' = [request EXCEPT ![t] = TRUE]
               /\ UNCHANGED fatal
    /\ UNCHANGED <<owner, nest, path, held, forking, child, forks>>

(* mutex_tt::lock, recursive_mutex_tt::lock, monitor_tt::enter.            *)
lock(t) ==
    /\ request[t]
    /\ LET l == path[t][held[t] + 1]
       IN /\ owner[l] = None \/ (owner[l] = t /\ IsRecursive(l))
          /\ owner' = [owner EXCEPT ![l] = t]
          /\ nest' = [nest EXCEPT ![l] = @ + 1]
    /\ held' = [held EXCEPT ![t] = @ + 1]
    /\ request' = [request EXCEPT ![t] = FALSE]
    /\ UNCHANGED <<owned, path, forking, child, forks, fatal>>

(* The locks are released in the opposite order when the operation is over. *)
unlock(t) ==
    /\ path[t] # <<>> /\ held[t] = Len(path[t])
    /\ t = Forker => forking = "no"
    /\ LET l == Last(path[t])
       IN /\ nest' = [nest EXCEPT ![l] = @ - 1]
          /\ owner' = [owner EXCEPT ![l] = IF nest[l] = 1 THEN None ELSE @]
          /\ owned' = [owned EXCEPT ![t] = IF nest[l] = 1 THEN @ \ {l} ELSE @]
    /\ path' = [path EXCEPT ![t] = Front(@)]
    /\ held' = [held EXCEPT ![t] = @ - 1]
    /\ UNCHANGED <<request, forking, child, forks, fatal>>

----------------------------------------------------------------------------
(* fork().  Prepare asserts that the caller holds no lock.                 *)
_objc_atfork_prepare ==
    /\ forking = "no" /\ path[Forker] = <<>> /\ forks < MaxForks /\ ~fatal
    /\ forking' = "prepare" /\ forks' = forks + 1
    /\ path' = [path EXCEPT ![Forker] = PrepareOrder] /\ held' = [held EXCEPT ![Forker] = 0]
    /\ fatal' = (owned[Forker] # {})
    /\ UNCHANGED <<owner, nest, owned, request, child>>

AllLocked == owned[Forker] = AllLocks

(* In the child there is the forker alone; forceReset clears each lock and *)
(* the debugger's note of it.                                              *)
forceResetAll(ls, os) == [l \in AllLocks |-> IF l \in ls THEN None ELSE os[l]]
_objc_atfork_child_NoSideTables ==
    LET reset == {l \in AllLocks : l[1] # "SideTables"}
    IN [owner |-> forceResetAll(reset, owner), owned |-> owned[Forker] \ reset]
_objc_atfork_child ==
    LET reset == {<<m, i>> : m \in {"CppObjectLocks", "StructLocks", "PropertyLocks", "SideTables"}, i \in Stripes}
                 \cup {One(n) : n \in {"AssociationsManagerLock", "AltHandlerDebugLock", "objcMsgLogLock",
                                       "crashlog_lock", "loadMethodLock", "selLock", "DemangleCacheLock",
                                       "runtimeLock", "classInitLock"}}
    IN [owner |-> forceResetAll(reset, owner), owned |-> owned[Forker] \ reset]

fork ==
    /\ forking = "prepare" /\ held[Forker] = Len(path[Forker])
    /\ fatal' = ~AllLocked
    /\ child' = _objc_atfork_child
    /\ forking' = "parent"
    /\ UNCHANGED <<owner, nest, owned, path, held, request, forks>>

(* The parent unlocks them, one by one, in an order of its own.            *)
_objc_atfork_parent ==
    /\ forking = "parent"
    /\ IF owned[Forker] = {}
       THEN /\ forking' = "no"
            /\ path' = [path EXCEPT ![Forker] = <<>>] /\ held' = [held EXCEPT ![Forker] = 0]
            /\ UNCHANGED <<owner, nest, owned>>
       ELSE LET order == lockAll("CppObjectLocks") \o lockAll("StructLocks") \o lockAll("PropertyLocks")
                         \o [k \in 1 .. 6 |-> One(<<"AssociationsManagerLock", "AltHandlerDebugLock",
                                "objcMsgLogLock", "crashlog_lock", "loadMethodLock", "selLock">>[k])]
                         \o lockAll("SideTables")
                         \o [k \in 1 .. 3 |-> One(<<"DemangleCacheLock", "runtimeLock", "classInitLock">>[k])]
                l == SelectSeq(order, LAMBDA x : x \in owned[Forker])[1]
            IN /\ owner' = [owner EXCEPT ![l] = None] /\ nest' = [nest EXCEPT ![l] = 0]
               /\ owned' = [owned EXCEPT ![Forker] = @ \ {l}]
               /\ UNCHANGED <<path, held, forking>>
    /\ UNCHANGED <<request, child, forks, fatal>>

Init ==
    /\ owner = [l \in AllLocks |-> None] /\ nest = [l \in AllLocks |-> 0]
    /\ owned = [t \in Threads |-> {}] /\ path = [t \in Threads |-> <<>>]
    /\ held = [t \in Threads |-> 0] /\ request = [t \in Threads |-> FALSE]
    /\ forking = "no" /\ forks = 0 /\ fatal = FALSE
    /\ child = [owner |-> owner, owned |-> {}]

Next ==
    \/ \E t \in Threads : start(t) \/ lockdebug_lock(t) \/ lock(t) \/ unlock(t)
    \/ _objc_atfork_prepare \/ fork \/ _objc_atfork_parent

----------------------------------------------------------------------------
(* Whatever operations threads nest, and whenever one of them forks, no    *)
(* threads wait for each other in a circle, the debug build's check of the *)
(* order never fires, and the child of fork() finds every lock free.       *)
WaitsFor(t) == IF request[t] THEN owner[path[t][held[t] + 1]] ELSE None
LocksNest ==
    /\ ~fatal
    /\ \A S \in SUBSET Threads \ {{}} : \E t \in S : WaitsFor(t) \notin S \/ WaitsFor(t) = t
    /\ \A l \in AllLocks : child.owner[l] = None
    /\ child.owned = {}

=============================================================================
