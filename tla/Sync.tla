-------------------------------- MODULE Sync --------------------------------
(***************************************************************************)
(* @synchronized, runtime/objc-sync.mm.  Every object being synchronized on*)
(* has a SyncData block with a recursive mutex.  Blocks are kept in lists  *)
(* striped by the object's address, are never freed, and are rebound to    *)
(* another object when no thread uses them.  A thread remembers the blocks *)
(* it uses, in a fast cache of one entry and a list cache.                 *)
(*                                                                         *)
(* The order of a list only decides which unused block is taken, so a list *)
(* is a set that is walked in any order.                                   *)
(***************************************************************************)
EXTENDS Integers, FiniteSets

CONSTANTS
    Threads,
    Objects,
    Blocks,      \* the SyncData there is memory for
    Stripes,     \* the stripes of sDataLists
    Stripe,      \* the stripe of an object's address
    SlotCount,   \* the slots of a new SyncCache
    MaxLocks,    \* bounds how often a thread enters an object at a time
    MaxInside,   \* bounds how many objects a thread synchronizes on at a time
    TryCallers,  \* the threads that may call objc_sync_try_enter
    Unbalanced,  \* the threads that may exit what they did not enter
    Mortal,      \* the threads that may terminate
    NoThread, NoObject, NoBlock

VARIABLES
    object,       \* SyncData.object of each block
    threadCount,  \* SyncData.threadCount
    owner,        \* SyncData.mutex: the owner,
    depth,        \*   and how often it locked it
    list,         \* the blocks of each stripe
    listLock,     \* the owner of each stripe's spinlock
    fastData,     \* per thread, SYNC_DATA_DIRECT_KEY
    fastCount,    \*   and SYNC_COUNT_DIRECT_KEY
    cache,        \* per thread, lockCount of each block of its SyncCache, or 0
    allocated,    \* per thread, the slots of its SyncCache; 0 if it has none
    pc,           \* where each thread is
    call,         \* what it called: "enter", "try" or "exit"
    obj,          \*   on which object
    seen,         \* id2data's walk: the blocks already looked at,
    firstUnused,  \*   and the first unused one among them
    result,       \* the block id2data found
    inside,       \* ghost: by the return codes, how often a thread is inside
    buggy         \* _objc_fatal("id2data ... is buggy")

blockVars == <<object, threadCount>>
mutexVars == <<owner, depth>>
listVars == <<list, listLock>>
cacheVars == <<fastData, fastCount, cache, allocated>>
callVars == <<call, obj>>
walkVars == <<seen, firstUnused>>
vars == <<blockVars, mutexVars, listVars, cacheVars, pc, callVars, walkVars,
          result, inside, buggy>>

PCs == {"idle", "wantList", "walk", "found", "mutex", "gone"}
Calls == {"enter", "try", "exit"}

Init ==
    /\ object = [b \in Blocks |-> NoObject]
    /\ threadCount = [b \in Blocks |-> 0]
    /\ owner = [b \in Blocks |-> NoThread]
    /\ depth = [b \in Blocks |-> 0]
    /\ list = [s \in Stripes |-> {}]
    /\ listLock = [s \in Stripes |-> NoThread]
    /\ fastData = [t \in Threads |-> NoBlock]
    /\ fastCount = [t \in Threads |-> 0]
    /\ cache = [t \in Threads |-> [b \in Blocks |-> 0]]
    /\ allocated = [t \in Threads |-> 0]
    /\ pc = [t \in Threads |-> "idle"]
    /\ call = [t \in Threads |-> "enter"]
    /\ obj = [t \in Threads |-> NoObject]
    /\ seen = [t \in Threads |-> {}]
    /\ firstUnused = [t \in Threads |-> NoBlock]
    /\ result = [t \in Threads |-> NoBlock]
    /\ inside = [t \in Threads |-> [o \in Objects |-> 0]]
    /\ buggy = FALSE

Goto(t, l) == pc' = [pc EXCEPT ![t] = l]

\* The call returns; its locals are gone.
Return(t) ==
    /\ Goto(t, "idle")
    /\ call' = [call EXCEPT ![t] = "enter"]
    /\ obj' = [obj EXCEPT ![t] = NoObject]
    /\ result' = [result EXCEPT ![t] = NoBlock]

-----------------------------------------------------------------------------
(* The per-thread caches.                                                  *)

Used(t) == {b \in Blocks : cache[t][b] > 0}

\* Mutant: the array is not grown when it is full.
fetch_cache_NoGrowth(t, create) ==
    IF allocated[t] = 0 /\ create THEN SlotCount ELSE allocated[t]

\* The slots of the SyncCache after fetch_cache, which leaves one open.
fetch_cache(t, create) ==
    LET slots == IF allocated[t] = 0 /\ create THEN SlotCount ELSE allocated[t]
    IN  IF slots = Cardinality(Used(t)) THEN 2 * slots ELSE slots

InFastCache(t, o, b) == fastData[t] = b /\ b # NoBlock /\ object[b] = o

InCache(t, o, b) == b \in Used(t) /\ object[b] = o

\* id2data counts the use of cached block b by one more or one less.
FastCacheHit(t, o, c, b) ==
    /\ InFastCache(t, o, b)
    /\ buggy' = (threadCount[b] <= 0 \/ fastCount[t] <= 0)
    /\ \/ /\ c # "exit"
          /\ fastCount' = [fastCount EXCEPT ![t] = @ + 1]
          /\ UNCHANGED <<fastData, threadCount>>
       \/ /\ c = "exit" /\ fastCount[t] # 1
          /\ fastCount' = [fastCount EXCEPT ![t] = @ - 1]
          /\ UNCHANGED <<fastData, threadCount>>
       \/ /\ c = "exit" /\ fastCount[t] = 1
          /\ fastCount' = [fastCount EXCEPT ![t] = 0]
          /\ fastData' = [fastData EXCEPT ![t] = NoBlock]
          /\ threadCount' = [threadCount EXCEPT ![b] = @ - 1]
    /\ UNCHANGED <<cache, allocated>>

CacheHit(t, o, c, b) ==
    /\ ~InFastCache(t, o, fastData[t])
    /\ InCache(t, o, b)
    /\ allocated' = [allocated EXCEPT ![t] = fetch_cache(t, FALSE)]
    /\ buggy' = (threadCount[b] <= 0)
    /\ cache' = [cache EXCEPT ![t][b] = IF c = "exit" THEN @ - 1 ELSE @ + 1]
    /\ threadCount' = IF c = "exit" /\ cache[t][b] = 1
                      THEN [threadCount EXCEPT ![b] = @ - 1] ELSE threadCount
    /\ UNCHANGED <<fastData, fastCount>>

-----------------------------------------------------------------------------
(* Calls.                                                                  *)

\* An exit of an object the thread is not inside of adds to threadCount for
\* good; the program stops making such calls here.
LeakBound == Cardinality(Threads)

\* The calls a program makes: it exits what it is inside of, unless it is
\* Unbalanced, and stays within the bounds.
MayCall(t, o, c) ==
    /\ pc[t] = "idle"
    /\ c = "try" => t \in TryCallers
    /\ c = "exit" => \/ inside[t][o] > 0
                     \/ t \in Unbalanced /\ \A b \in Blocks : threadCount[b] < LeakBound
    /\ c # "exit" =>
          /\ inside[t][o] < MaxLocks
          /\ \A b \in Blocks : InCache(t, o, b) => cache[t][b] < MaxLocks
          /\ InFastCache(t, o, fastData[t]) => fastCount[t] < MaxLocks
          /\ Cardinality({q \in Objects : inside[t][q] > 0} \cup {o}) <= MaxInside

Start(t, o, c) ==
    /\ call' = [call EXCEPT ![t] = c]
    /\ obj' = [obj EXCEPT ![t] = o]

\* objc_sync_enter, objc_sync_try_enter or objc_sync_exit on an object whose
\* block the thread already uses.
CallCached(t, o, c) ==
    /\ MayCall(t, o, c)
    /\ \E b \in Blocks :
          /\ FastCacheHit(t, o, c, b) \/ CacheHit(t, o, c, b)
          /\ result' = [result EXCEPT ![t] = b]
    /\ Start(t, o, c)
    /\ Goto(t, "mutex")
    /\ UNCHANGED <<object, mutexVars, listVars, walkVars, inside>>

\* The same on an object that is in neither cache.
CallUncached(t, o, c) ==
    /\ MayCall(t, o, c)
    /\ ~InFastCache(t, o, fastData[t])
    /\ \A b \in Blocks : ~InCache(t, o, b)
    /\ allocated' = [allocated EXCEPT ![t] = fetch_cache(t, FALSE)]
    /\ Start(t, o, c)
    /\ Goto(t, "wantList")
    /\ UNCHANGED <<blockVars, mutexVars, listVars, fastData, fastCount, cache,
                   walkVars, result, inside, buggy>>

MyStripe(t) == Stripe[obj[t]]

\* Mutant: the list is walked without its spinlock.
LockList_NoLock(t) ==
    /\ pc[t] = "wantList"
    /\ Goto(t, "walk")
    /\ UNCHANGED <<blockVars, mutexVars, listVars, cacheVars, callVars, walkVars,
                   result, inside, buggy>>

LockList(t) ==
    /\ pc[t] = "wantList"
    /\ listLock[MyStripe(t)] = NoThread
    /\ listLock' = [listLock EXCEPT ![MyStripe(t)] = t]
    /\ Goto(t, "walk")
    /\ UNCHANGED <<blockVars, mutexVars, list, cacheVars, callVars, walkVars,
                   result, inside, buggy>>

\* done: the walk is over and found r.
Done(t, r) ==
    /\ listLock' = [listLock EXCEPT ![MyStripe(t)] = NoThread]
    /\ result' = [result EXCEPT ![t] = r]
    /\ seen' = [seen EXCEPT ![t] = {}]
    /\ firstUnused' = [firstUnused EXCEPT ![t] = NoBlock]
    /\ Goto(t, "found")

\* Mutants: a block in use is taken for an unused one; a block that is found
\* is not counted as used; the lock is kept.
Walk_TakesUsed(t) ==
    /\ pc[t] = "walk"
    /\ \E p \in list[MyStripe(t)] \ seen[t] :
          \/ /\ object[p] = obj[t]
             /\ threadCount' = [threadCount EXCEPT ![p] = @ + 1]
             /\ Done(t, p)
          \/ /\ object[p] # obj[t]
             /\ seen' = [seen EXCEPT ![t] = @ \cup {p}]
             /\ firstUnused' = [firstUnused EXCEPT ![t] = p]
             /\ UNCHANGED <<threadCount, listLock, result, pc>>
    /\ UNCHANGED <<object, mutexVars, list, cacheVars, callVars, inside, buggy>>
Walk_NotCounted(t) ==
    /\ pc[t] = "walk"
    /\ \E p \in list[MyStripe(t)] \ seen[t] :
          \/ /\ object[p] = obj[t]
             /\ Done(t, p) /\ UNCHANGED threadCount
          \/ /\ object[p] # obj[t]
             /\ seen' = [seen EXCEPT ![t] = @ \cup {p}]
             /\ firstUnused' = [firstUnused EXCEPT ![t] = IF @ = NoBlock /\ threadCount[p] = 0 THEN p ELSE @]
             /\ UNCHANGED <<threadCount, listLock, result, pc>>
    /\ UNCHANGED <<object, mutexVars, list, cacheVars, callVars, inside, buggy>>
Walk_KeepsLock(t) ==
    /\ pc[t] = "walk"
    /\ \E p \in list[MyStripe(t)] \ seen[t] :
          \/ /\ object[p] = obj[t]
             /\ threadCount' = [threadCount EXCEPT ![p] = @ + 1]
             /\ result' = [result EXCEPT ![t] = p]
             /\ Goto(t, "found")
             /\ UNCHANGED <<walkVars, listLock>>
          \/ /\ object[p] # obj[t]
             /\ seen' = [seen EXCEPT ![t] = @ \cup {p}]
             /\ firstUnused' = [firstUnused EXCEPT ![t] = IF @ = NoBlock /\ threadCount[p] = 0 THEN p ELSE @]
             /\ UNCHANGED <<threadCount, listLock, result, pc>>
    /\ UNCHANGED <<object, mutexVars, list, cacheVars, callVars, inside, buggy>>

\* Look at one block of the list.
Walk(t) ==
    /\ pc[t] = "walk"
    /\ \E p \in list[MyStripe(t)] \ seen[t] :
          \/ /\ object[p] = obj[t]
             /\ threadCount' = [threadCount EXCEPT ![p] = @ + 1]
             /\ Done(t, p)
          \/ /\ object[p] # obj[t]
             /\ seen' = [seen EXCEPT ![t] = @ \cup {p}]
             /\ firstUnused' = [firstUnused EXCEPT ![t] =
                   IF @ = NoBlock /\ threadCount[p] = 0 THEN p ELSE @]
             /\ UNCHANGED <<threadCount, listLock, result, pc>>
    /\ UNCHANGED <<object, mutexVars, list, cacheVars, callVars, inside, buggy>>

EndOfList(t) == pc[t] = "walk" /\ list[MyStripe(t)] \subseteq seen[t]

\* An exit finds no block.
WalkFindsNothing(t) ==
    /\ EndOfList(t) /\ call[t] = "exit"
    /\ Done(t, NoBlock)
    /\ UNCHANGED <<blockVars, mutexVars, list, cacheVars, callVars, inside, buggy>>

\* Block b becomes this object's.
Bind(t, b) ==
    /\ object' = [object EXCEPT ![b] = obj[t]]
    /\ threadCount' = [threadCount EXCEPT ![b] = 1]

WalkReuses(t) ==
    /\ EndOfList(t) /\ call[t] # "exit" /\ firstUnused[t] # NoBlock
    /\ Bind(t, firstUnused[t])
    /\ Done(t, firstUnused[t])
    /\ UNCHANGED <<mutexVars, list, cacheVars, callVars, inside, buggy>>

WalkAllocates(t) ==
    /\ EndOfList(t) /\ call[t] # "exit" /\ firstUnused[t] = NoBlock
    /\ \E b \in Blocks \ UNION {list[s] : s \in Stripes} :
          /\ Bind(t, b)
          /\ list' = [list EXCEPT ![MyStripe(t)] = @ \cup {b}]
          /\ Done(t, b)
    /\ UNCHANGED <<mutexVars, cacheVars, callVars, inside, buggy>>

\* An exit by a thread that does not use the block: id2data returns nil.
FoundForExit(t) ==
    /\ pc[t] = "found" /\ call[t] = "exit"
    /\ Return(t)
    /\ UNCHANGED <<blockVars, mutexVars, listVars, cacheVars, walkVars, inside,
                   buggy>>

\* Remember the block in the fast cache, or in the list if it is occupied.
FoundForEnter(t) ==
    /\ pc[t] = "found" /\ call[t] # "exit"
    /\ buggy' = (object[result[t]] # obj[t])
    /\ \/ /\ fastData[t] = NoBlock
          /\ fastData' = [fastData EXCEPT ![t] = result[t]]
          /\ fastCount' = [fastCount EXCEPT ![t] = 1]
          /\ UNCHANGED <<cache, allocated>>
       \/ /\ fastData[t] # NoBlock
          /\ allocated' = IF allocated[t] = 0
                THEN [allocated EXCEPT ![t] = fetch_cache(t, TRUE)]
                ELSE allocated
          /\ cache' = [cache EXCEPT ![t][result[t]] = 1]
          /\ UNCHANGED <<fastData, fastCount>>
    /\ Goto(t, "mutex")
    /\ UNCHANGED <<blockVars, mutexVars, listVars, callVars, walkVars, result,
                   inside>>

-----------------------------------------------------------------------------
(* The block's recursive mutex.                                            *)

Available(t, b) == owner[b] \in {t, NoThread}

\* mutex.lock(), or mutex.tryLock() returning true
MutexLock(t) ==
    /\ pc[t] = "mutex" /\ call[t] # "exit"
    /\ Available(t, result[t])
    /\ owner' = [owner EXCEPT ![result[t]] = t]
    /\ depth' = [depth EXCEPT ![result[t]] = @ + 1]
    /\ inside' = [inside EXCEPT ![t][obj[t]] = @ + 1]
    /\ Return(t)
    /\ UNCHANGED <<blockVars, listVars, cacheVars, walkVars, buggy>>

\* mutex.tryLock() returning false
MutexBusy(t) ==
    /\ pc[t] = "mutex" /\ call[t] = "try"
    /\ ~Available(t, result[t])
    /\ Return(t)
    /\ UNCHANGED <<blockVars, mutexVars, listVars, cacheVars, walkVars, inside,
                   buggy>>

\* mutex.tryUnlock() returning true
MutexUnlock(t) ==
    /\ pc[t] = "mutex" /\ call[t] = "exit"
    /\ owner[result[t]] = t
    /\ depth' = [depth EXCEPT ![result[t]] = @ - 1]
    /\ owner' = IF depth[result[t]] = 1 THEN [owner EXCEPT ![result[t]] = NoThread]
                                        ELSE owner
    /\ inside' = [inside EXCEPT ![t][obj[t]] = @ - 1]
    /\ Return(t)
    /\ UNCHANGED <<blockVars, listVars, cacheVars, walkVars, buggy>>

\* mutex.tryUnlock() returning false: OBJC_SYNC_NOT_OWNING_THREAD_ERROR
MutexNotOwned(t) ==
    /\ pc[t] = "mutex" /\ call[t] = "exit"
    /\ owner[result[t]] # t
    /\ Return(t)
    /\ UNCHANGED <<blockVars, mutexVars, listVars, cacheVars, walkVars, inside,
                   buggy>>

\* The thread terminates: _destroySyncCache frees the list cache, and the
\* thread-specific values of the fast cache go with the thread.
ThreadExit(t) ==
    /\ pc[t] = "idle" /\ t \in Mortal
    /\ fastData' = [fastData EXCEPT ![t] = NoBlock]
    /\ fastCount' = [fastCount EXCEPT ![t] = 0]
    /\ cache' = [cache EXCEPT ![t] = [b \in Blocks |-> 0]]
    /\ allocated' = [allocated EXCEPT ![t] = 0]
    /\ Goto(t, "gone")
    /\ UNCHANGED <<blockVars, mutexVars, listVars, callVars, walkVars, result,
                   inside, buggy>>

-----------------------------------------------------------------------------

Runtime(t) ==
    \/ LockList(t) \/ Walk(t) \/ WalkFindsNothing(t) \/ WalkReuses(t)
    \/ WalkAllocates(t) \/ FoundForExit(t) \/ FoundForEnter(t)
    \/ MutexLock(t) \/ MutexBusy(t) \/ MutexUnlock(t) \/ MutexNotOwned(t)

Program(t) ==
    \/ \E o \in Objects, c \in Calls : CallCached(t, o, c) \/ CallUncached(t, o, c)
    \/ ThreadExit(t)

Next == ~buggy /\ \E t \in Threads : Runtime(t) \/ Program(t)

Spec == Init /\ [][Next]_vars

-----------------------------------------------------------------------------
(* Correctness.                                                            *)

\* The program's code in @synchronized(o): from the return of the first enter
\* to the call of the last exit.
InSection(t, o) ==
    \/ inside[t][o] > 1
    \/ inside[t][o] = 1 /\ ~(call[t] = "exit" /\ obj[t] = o)

\* At most one thread at a time runs the code in @synchronized(o), although
\* id2data(RELEASE) gives up the block before the mutex is unlocked, and the
\* block may then be rebound while another one is made for o.
MutualExclusion ==
    \A t, u \in Threads, o \in Objects :
        InSection(t, o) /\ InSection(u, o) => t = u

\* objc_sync_exit returns OBJC_SYNC_SUCCESS exactly if the thread is inside:
\* its cache still leads it to the mutex it locked, and to no other.
ExitIsTruthful ==
    \A t \in Threads : pc[t] \notin {"idle", "gone"} /\ call[t] = "exit" =>
        (inside[t][obj[t]] > 0 <=> pc[t] = "mutex" /\ owner[result[t]] = t)

\* threadCount, "number of THREADS using this block": the threads that have
\* it in a cache, and the ones about to put it there.
Users(b) == {t \in Threads : \/ fastData[t] = b
                             \/ cache[t][b] > 0
                             \/ pc[t] = "found" /\ call[t] # "exit" /\ result[t] = b}

ThreadCountExact == \A b \in Blocks : threadCount[b] = Cardinality(Users(b))

\* None of id2data's _objc_fatal checks can fire, and the thread's SyncCache never
\* holds more entries than it has slots, though room is made at the start of
\* id2data and used at its end.
CachesIntact ==
    /\ ~buggy
    /\ \A t \in Threads : Cardinality(Used(t)) <= allocated[t]

\* The list lock, the walk, and a mutex still held by a thread that is just
\* exiting another object, do not block the threads inside the runtime for
\* good: one of them can go on, or the program is inside some section.
NobodyStuck ==
    (~buggy /\ \E t \in Threads : pc[t] \notin {"idle", "gone"})
    => \/ \E t \in Threads : ENABLED Runtime(t)
       \/ \E t \in Threads, o \in Objects : pc[t] \in {"idle", "gone"} /\ inside[t][o] > 0

-----------------------------------------------------------------------------
(* The inductive invariant.                                                *)

SyncAssumption ==
    /\ IsFiniteSet(Threads)
    /\ NoThread \notin Threads /\ NoObject \notin Objects /\ NoBlock \notin Blocks
    /\ Stripe \in [Objects -> Stripes]
    /\ SlotCount \in Nat \ {0}

TypeOK ==
    /\ object \in [Blocks -> Objects \cup {NoObject}]
    /\ threadCount \in [Blocks -> Nat]
    /\ owner \in [Blocks -> Threads \cup {NoThread}]
    /\ depth \in [Blocks -> Nat]
    /\ list \in [Stripes -> SUBSET Blocks]
    /\ listLock \in [Stripes -> Threads \cup {NoThread}]
    /\ fastData \in [Threads -> Blocks \cup {NoBlock}]
    /\ fastCount \in [Threads -> Nat]
    /\ cache \in [Threads -> [Blocks -> Nat]]
    /\ allocated \in [Threads -> Nat]
    /\ pc \in [Threads -> PCs]
    /\ call \in [Threads -> Calls]
    /\ obj \in [Threads -> Objects \cup {NoObject}]
    /\ seen \in [Threads -> SUBSET Blocks]
    /\ firstUnused \in [Threads -> Blocks \cup {NoBlock}]
    /\ result \in [Threads -> Blocks \cup {NoBlock}]
    /\ inside \in [Threads -> [Objects -> Nat]]
    /\ buggy \in BOOLEAN

\* A block is bound exactly if it is in a list, in the one of its object, and an
\* object has one block at most.
ListsOK ==
    /\ \A b \in Blocks : object[b] # NoObject => b \in list[Stripe[object[b]]]
    /\ \A s \in Stripes : \A b \in list[s] :
          object[b] \in Objects /\ Stripe[object[b]] = s
    /\ \A b, c \in Blocks : object[b] = object[c] /\ object[b] # NoObject => b = c

\* A thread that terminates inside a section keeps its block for ever.
InUse(b) == Users(b) \cup {t \in Threads : pc[t] = "gone" /\ owner[b] = t}

\* A count is never too small, so that an unused block is one that no thread uses;
\* it is too large after calls that are not balanced.
CountsOK ==
    \A b \in Blocks :
        /\ Cardinality(InUse(b)) <= threadCount[b]
        /\ object[b] = NoObject => threadCount[b] = 0

Looking(t) == pc[t] \in {"wantList", "walk", "found"}

\* The caches of a thread are disjoint and have room for a block that it looks for,
\* which is in neither.
CachesOK(t) ==
    /\ fastData[t] # NoBlock => fastCount[t] > 0 /\ cache[t][fastData[t]] = 0
    /\ IsFiniteSet(Used(t)) /\ Cardinality(Used(t)) <= allocated[t]
    /\ Looking(t) =>
          /\ allocated[t] # 0 => Cardinality(Used(t)) < allocated[t]
          /\ \A b \in Blocks : fastData[t] = b \/ b \in Used(t) => object[b] # obj[t]
    /\ pc[t] = "gone" => fastData[t] = NoBlock /\ Used(t) = {}

\* The uses of a block that a thread's caches count, and the locks they stand for:
\* those the thread has, with the call in progress.
CachedCount(t, b) == IF fastData[t] = b THEN fastCount[t] ELSE cache[t][b]
Locks(t, b) == IF owner[b] = t THEN depth[b] ELSE 0
Pending(t, b) == IF pc[t] = "mutex" /\ result[t] = b
                 THEN IF call[t] = "exit" THEN -1 ELSE 1 ELSE 0
LocksCached == \A t \in Threads, b \in Blocks :
    pc[t] # "gone" => Locks(t, b) + Pending(t, b) <= CachedCount(t, b)

\* What a thread inside the runtime knows about the block it looks for or found.
CallOK(t) ==
    /\ pc[t] \in {"wantList", "walk", "found", "mutex"} => obj[t] \in Objects
    /\ pc[t] = "walk" =>
          /\ listLock[MyStripe(t)] = t
          /\ \A b \in seen[t] : object[b] # obj[t]
          /\ firstUnused[t] # NoBlock =>
                firstUnused[t] \in list[MyStripe(t)] /\ threadCount[firstUnused[t]] = 0
    /\ pc[t] # "walk" => seen[t] = {} /\ firstUnused[t] = NoBlock
    /\ Looking(t) /\ call[t] = "exit" => inside[t][obj[t]] = 0
    /\ pc[t] = "mutex" => result[t] \in Blocks
    /\ pc[t] \in {"found", "mutex"} /\ call[t] # "exit" =>
          result[t] \in Blocks /\ object[result[t]] = obj[t]
    /\ pc[t] = "mutex" /\ call[t] = "exit" =>
          IF owner[result[t]] = t
          THEN /\ inside[t][obj[t]] = depth[result[t]]
               /\ object[result[t]] # obj[t] => inside[t][object[result[t]]] = 0
               /\ \A b \in Blocks :
                     owner[b] = t /\ object[b] = obj[t] => b = result[t]
          ELSE inside[t][obj[t]] = 0

\* The last exit of o is in progress: o's block may have been rebound.
LastExit(t, o) ==
    pc[t] = "mutex" /\ call[t] = "exit" /\ obj[t] = o /\ inside[t][o] = 1

\* A thread is inside of the objects whose block's mutex it owns, and as deep.
OwnersOK ==
    /\ \A b \in Blocks : owner[b] = NoThread => depth[b] = 0
    /\ \A b \in Blocks, t \in Threads : owner[b] = t =>
          /\ depth[b] > 0 /\ object[b] # NoObject
          /\ \/ inside[t][object[b]] = depth[b]
             \/ LastExit(t, obj[t]) /\ result[t] = b
InsideOK ==
    \A t \in Threads, o \in Objects : inside[t][o] > 0 =>
        \/ LastExit(t, o)
        \/ \E b \in Blocks : object[b] = o /\ owner[b] = t

IInv ==
    /\ TypeOK /\ ~buggy
    /\ ListsOK /\ CountsOK /\ LocksCached
    /\ \A t \in Threads : CachesOK(t) /\ CallOK(t)
    /\ OwnersOK /\ InsideOK
=============================================================================
