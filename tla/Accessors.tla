------------------------------ MODULE Accessors -----------------------------
(***************************************************************************)
(* The accessors that the compiler calls for atomic properties             *)
(* (objc-accessors.mm): one property of an object, which holds a reference *)
(* to its value, and structures that are copied under two striped locks.   *)
(* The threads keep the object itself alive.  Nonatomic properties used by *)
(* two threads are the program's error; to one thread they are the same.   *)
(***************************************************************************)
EXTENDS Naturals, Sequences, FiniteSets, FiniteSetsExt, Functions

CONSTANTS
    Threads, Values, nil,
    MaxOwned,       \* bound: references of one thread to one value
    Ivar,           \* the address of the structure
    Local,          \* [Threads -> the address of each thread's copy]
    Stripe,         \* [address -> its lock in StructLocks or CppObjectLocks, a number]
    Structs         \* what a thread may set the structure to

VARIABLES
    slot, propertyLock,
    count,          \* retain counts of the values; one that falls to 0 is freed
    owned,          \* [Threads -> [Values -> references]]
    call,           \* [Threads -> the accessor in progress]
    bad,            \* a value was retained or released after it was freed
    memory,         \* [address -> the two words of the structure there]
    structLocks,    \* [stripe -> its owner or nil]
    copy,           \* [Threads -> the copy in progress]
    read            \* [Threads -> what it copied last]

vars == <<slot, propertyLock, count, owned, call, bad, memory, structLocks, copy, read>>
propertyVars == <<slot, propertyLock, count, owned, call, bad>>
structVars == <<memory, structLocks, copy, read>>

Idle == [pc |-> "idle", value |-> nil]
Goto(t, pc, v) == call' = [call EXCEPT ![t] = [pc |-> pc, value |-> v]]
objc_retain(v) ==
    IF v = nil THEN UNCHANGED <<count, bad>>
    ELSE count' = [count EXCEPT ![v] = @ + 1] /\ bad' = (bad \/ count[v] = 0)
objc_release(v) ==
    IF v = nil THEN UNCHANGED <<count, bad>>
    ELSE count' = [count EXCEPT ![v] = IF @ = 0 THEN 0 ELSE @ - 1] /\ bad' = (bad \/ count[v] = 0)

-----------------------------------------------------------------------------
(* objc_getProperty, and the reference it returns autoreleased.            *)
LockToGet_NoLock(t) ==
    /\ call[t].pc = "idle" /\ Goto(t, "retain", slot)
    /\ UNCHANGED <<slot, propertyLock, count, owned, bad, structVars>>

LockToGet(t) ==
    /\ call[t].pc = "idle" /\ propertyLock = nil
    /\ (slot # nil => owned[t][slot] < MaxOwned)
    /\ propertyLock' = t /\ Goto(t, "retain", slot)
    /\ UNCHANGED <<slot, count, owned, bad, structVars>>

RetainInSlot(t) ==
    /\ call[t].pc = "retain"
    /\ objc_retain(call[t].value)
    /\ owned' = [owned EXCEPT ![t] =
                   [v \in Values |-> IF v = call[t].value THEN @[v] + 1 ELSE @[v]]]
    /\ propertyLock' = nil /\ Goto(t, "idle", nil)
    /\ UNCHANGED <<slot, structVars>>

(* reallySetProperty: the slot is compared without the lock, unless the    *)
(* property copies.  What -copy returns is taken to be the value itself,   *)
(* retained.                                                               *)
reallySetProperty(t, v, copies) ==
    /\ call[t].pc = "idle" /\ (v # nil => owned[t][v] > 0)
    /\ IF ~copies /\ slot = v THEN UNCHANGED <<call, count, bad>>
       ELSE objc_retain(v) /\ Goto(t, "set", v)
    /\ UNCHANGED <<slot, propertyLock, owned, structVars>>

Exchange_KeepsOld(t) ==
    /\ call[t].pc = "set" /\ propertyLock = nil
    /\ slot' = call[t].value /\ Goto(t, "release", call[t].value)
    /\ UNCHANGED <<propertyLock, count, owned, bad, structVars>>

Exchange(t) ==
    /\ call[t].pc = "set" /\ propertyLock = nil
    /\ slot' = call[t].value /\ Goto(t, "release", slot)
    /\ UNCHANGED <<propertyLock, count, owned, bad, structVars>>

ReleaseOld(t) ==
    /\ call[t].pc = "release"
    /\ objc_release(call[t].value) /\ Goto(t, "idle", nil)
    /\ UNCHANGED <<slot, propertyLock, owned, structVars>>

(* The program gives a reference up, or makes another one for a thread.    *)
Release(t, v) ==
    /\ call[t].pc = "idle" /\ owned[t][v] > 0
    /\ owned' = [owned EXCEPT ![t][v] = @ - 1] /\ objc_release(v)
    /\ UNCHANGED <<slot, propertyLock, call, structVars>>

-----------------------------------------------------------------------------
(* objc_copyStruct and objc_copyCppObjectAtomic: the locks of both         *)
(* addresses, the lower one first and one lock once, and word by word.     *)
locksOf_OnlyDestination(dest, src) == <<Stripe[dest]>>
locksOf_AsGiven(dest, src) ==
    IF Stripe[dest] = Stripe[src] THEN <<Stripe[src]>> ELSE <<Stripe[src], Stripe[dest]>>

locksOf(dest, src) ==
    IF Stripe[dest] = Stripe[src] THEN <<Stripe[src]>>
    ELSE IF Stripe[src] < Stripe[dest] THEN <<Stripe[src], Stripe[dest]>>
    ELSE <<Stripe[dest], Stripe[src]>>

NoCopy == [dest |-> nil, src |-> nil, locked |-> 0, words |-> 0]

StartCopy(t) ==
    /\ copy[t] = NoCopy
    /\ \/ /\ copy' = [copy EXCEPT ![t] = [NoCopy EXCEPT !.dest = Local[t], !.src = Ivar]]
          /\ UNCHANGED memory
       \/ \E s \in Structs :
             /\ memory' = [memory EXCEPT ![Local[t]] = s]
             /\ copy' = [copy EXCEPT ![t] = [NoCopy EXCEPT !.dest = Ivar, !.src = Local[t]]]
    /\ read' = [read EXCEPT ![t] = nil]
    /\ UNCHANGED <<structLocks, propertyVars>>

LockNext(t) ==
    LET my == copy[t]
        locks == locksOf(my.dest, my.src)
    IN  /\ my # NoCopy /\ my.locked < Len(locks)
        /\ structLocks[locks[my.locked + 1]] = nil
        /\ structLocks' = [structLocks EXCEPT ![locks[my.locked + 1]] = t]
        /\ copy' = [copy EXCEPT ![t].locked = @ + 1]
        /\ UNCHANGED <<memory, read, propertyVars>>

CopyWord(t) ==
    LET my == copy[t]
    IN  /\ my # NoCopy /\ my.locked = Len(locksOf(my.dest, my.src)) /\ my.words < 2
        /\ memory' = [memory EXCEPT ![my.dest][my.words + 1] = memory[my.src][my.words + 1]]
        /\ copy' = [copy EXCEPT ![t].words = @ + 1]
        /\ UNCHANGED <<structLocks, read, propertyVars>>

EndCopy(t) ==
    LET my == copy[t]
        locks == locksOf(my.dest, my.src)
    IN  /\ my.words = 2
        /\ structLocks' = [s \in DOMAIN structLocks |->
                             IF \E i \in DOMAIN locks : locks[i] = s THEN nil ELSE structLocks[s]]
        /\ copy' = [copy EXCEPT ![t] = NoCopy]
        /\ read' = [read EXCEPT ![t] = IF my.src = Ivar THEN memory[my.dest] ELSE nil]
        /\ UNCHANGED <<memory, propertyVars>>

-----------------------------------------------------------------------------
Init ==
    /\ slot = nil /\ propertyLock = nil
    /\ count = [v \in Values |-> Cardinality(Threads)]
    /\ owned = [t \in Threads |-> [v \in Values |-> 1]]
    /\ call = [t \in Threads |-> Idle] /\ bad = FALSE
    /\ \E s \in Structs : memory = [a \in DOMAIN Stripe |-> s]
    /\ structLocks = [s \in {Stripe[a] : a \in DOMAIN Stripe} |-> nil]
    /\ copy = [t \in Threads |-> NoCopy] /\ read = [t \in Threads |-> nil]

Property ==
    \E t \in Threads :
        \/ LockToGet(t) \/ RetainInSlot(t) \/ Exchange(t) \/ ReleaseOld(t)
        \/ \E v \in Values \cup {nil}, copies \in BOOLEAN : reallySetProperty(t, v, copies)
        \/ \E v \in Values : Release(t, v)

Struct == \E t \in Threads : StartCopy(t) \/ LockNext(t) \/ CopyWord(t) \/ EndCopy(t)

-----------------------------------------------------------------------------
(* A getter never returns a value that is gone: the slot's reference is    *)
(* given up only after the slot has another value, and a getter in between *)
(* has its own.  A structure is never read in halves of two values, and    *)
(* two threads copying in opposite directions do not wait for each other.  *)
AccessorsHold ==
    /\ ~bad
    /\ \A v \in Values :
           count[v] = (IF slot = v THEN 1 ELSE 0) + SumFunction([t \in Threads |-> owned[t][v]])
                      + Cardinality({t \in Threads : call[t].pc \in {"set", "release"}
                                                     /\ call[t].value = v})
    /\ \A t \in Threads : read[t] # nil => read[t] \in Structs
    /\ (\E t \in Threads : copy[t] # NoCopy) =>
           \E t \in Threads :
               LET locks == locksOf(copy[t].dest, copy[t].src)
               IN  /\ copy[t] # NoCopy
                   /\ copy[t].locked < Len(locks) => structLocks[locks[copy[t].locked + 1]] = nil

=============================================================================
