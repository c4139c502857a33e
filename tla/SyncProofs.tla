----------------------------- MODULE SyncProofs -----------------------------
(***************************************************************************)
(* Mutual exclusion of @synchronized, the truth of objc_sync_exit and the  *)
(* integrity of the caches, for all constants: any number of threads,      *)
(* objects, blocks and stripes, calls that are not balanced, and threads   *)
(* that terminate.  The order is: counting users; steps that do not touch  *)
(* a mutex or the object of a block; binding a block; the mutex; the       *)
(* theorems.                                                               *)
(***************************************************************************)
EXTENDS Sync, FiniteSetTheorems, TLAPS

-----------------------------------------------------------------------------
(* Counting the users of a block.                                          *)

\* A set that lost its members, got one, or lost one.
LEMMA CardinalityFacts ==
    ASSUME NEW S, IsFiniteSet(S), NEW T, NEW x
    PROVE  /\ Cardinality(S) \in Nat
           /\ T \subseteq S => /\ IsFiniteSet(T) /\ Cardinality(T) \in Nat
                               /\ Cardinality(T) <= Cardinality(S)
           /\ T \subseteq S \cup {x} => /\ IsFiniteSet(T) /\ Cardinality(T) \in Nat
                                        /\ Cardinality(T) <= Cardinality(S) + 1
           /\ x \in S /\ T \subseteq S \ {x} =>
                 Cardinality(T) \in Nat /\ Cardinality(T) + 1 <= Cardinality(S)
<1>1. Cardinality(S) \in Nat BY FS_CardinalityType
<1>2. ASSUME T \subseteq S
      PROVE  IsFiniteSet(T) /\ Cardinality(T) \in Nat /\ Cardinality(T) <= Cardinality(S)
  BY <1>2, FS_Subset, FS_CardinalityType
<1>3. ASSUME T \subseteq S \cup {x}
      PROVE  /\ IsFiniteSet(T) /\ Cardinality(T) \in Nat
             /\ Cardinality(T) <= Cardinality(S) + 1
  <2>1. IsFiniteSet(S \cup {x}) /\ Cardinality(S \cup {x}) \in Nat
        /\ Cardinality(S \cup {x}) <= Cardinality(S) + 1
    <3>1. /\ IsFiniteSet(S \cup {x})
          /\ Cardinality(S \cup {x}) =
                IF x \in S THEN Cardinality(S) ELSE Cardinality(S) + 1
      BY FS_AddElement
    <3> QED BY <1>1, <3>1
  <2>2. IsFiniteSet(T) /\ Cardinality(T) <= Cardinality(S \cup {x})
    BY <1>3, <2>1, FS_Subset
  <2>3. Cardinality(T) \in Nat BY <2>2, FS_CardinalityType
  <2> QED BY <1>1, <2>1, <2>2, <2>3
<1>4. ASSUME x \in S, T \subseteq S \ {x}
      PROVE  Cardinality(T) \in Nat /\ Cardinality(T) + 1 <= Cardinality(S)
  <2>1. IsFiniteSet(S \ {x}) /\ Cardinality(S \ {x}) = Cardinality(S) - 1
    BY <1>4, FS_RemoveElement
  <2>2. IsFiniteSet(T) /\ Cardinality(T) <= Cardinality(S \ {x})
    BY <1>4, <2>1, FS_Subset
  <2>3. Cardinality(T) \in Nat BY <2>2, FS_CardinalityType
  <2> QED BY <1>1, <2>1, <2>2, <2>3
<1> QED BY <1>1, <1>2, <1>3, <1>4

\* The users of a block are some of the threads.
LEMMA InUseFinite ==
    ASSUME SyncAssumption, NEW b \in Blocks
    PROVE  /\ IsFiniteSet(InUse(b)) /\ Cardinality(InUse(b)) \in Nat
           /\ IsFiniteSet(InUse(b)') /\ Cardinality(InUse(b)') \in Nat
<1>1. InUse(b) \subseteq Threads /\ InUse(b)' \subseteq Threads BY DEF InUse, Users
<1> QED BY <1>1, FS_Subset, FS_CardinalityType DEF SyncAssumption

\* A block that somebody uses has a count, and one without a count no user.
LEMMA UsedIsCounted ==
    ASSUME SyncAssumption, IInv, NEW b \in Blocks
    PROVE  /\ InUse(b) # {} => threadCount[b] >= 1 /\ object[b] # NoObject
           /\ threadCount[b] = 0 => InUse(b) = {}
<1>1. threadCount[b] \in Nat BY DEF IInv, TypeOK
<1>2. Cardinality(InUse(b)) <= threadCount[b] /\ (object[b] = NoObject => threadCount[b] = 0)
  BY DEF IInv, CountsOK
<1>3. InUse(b) # {} => Cardinality(InUse(b)) # 0 BY InUseFinite, FS_EmptySet
<1>4. Cardinality(InUse(b)) \in Nat BY InUseFinite
<1> QED BY <1>1, <1>2, <1>3, <1>4

\* Counts stay right when they stay and nobody starts to use a block.
LEMMA CountsKept ==
    ASSUME SyncAssumption, IInv, UNCHANGED <<object, threadCount>>,
           \A b \in Blocks : InUse(b)' \subseteq InUse(b)
    PROVE  CountsOK'
<1> SUFFICES ASSUME NEW b \in Blocks
             PROVE  /\ Cardinality(InUse(b)') <= threadCount'[b]
                    /\ object'[b] = NoObject => threadCount'[b] = 0
  BY DEF CountsOK
<1>1. threadCount[b] \in Nat BY DEF IInv, TypeOK
<1>2. Cardinality(InUse(b)) <= threadCount[b] /\ (object[b] = NoObject => threadCount[b] = 0)
  BY DEF IInv, CountsOK
<1>3. Cardinality(InUse(b)') <= Cardinality(InUse(b)) BY InUseFinite, CardinalityFacts
<1> QED BY <1>1, <1>2, <1>3, InUseFinite

-----------------------------------------------------------------------------
(* Steps of one thread.                                                    *)

\* What belongs to a thread, and what the others keep in a step of t.
Locals(u) == <<fastData[u], fastCount[u], cache[u], allocated[u], pc[u], call[u], obj[u],
               seen[u], firstUnused[u], result[u], inside[u]>>
OthersKeep(t) == \A u \in Threads \ {t} : Locals(u)' = Locals(u)

\* A step of a thread changes nothing that belongs to another one.
LEMMA Own ==
    ASSUME TypeOK, NEW t \in Threads, Runtime(t) \/ Program(t)
    PROVE  OthersKeep(t)
<1> USE DEF TypeOK, OthersKeep, Locals, cacheVars, callVars, walkVars
<1>1. CASE \E o \in Objects, c \in Calls : CallCached(t, o, c)
  <2>1. PICK o \in Objects, c \in Calls, b \in Blocks :
          /\ FastCacheHit(t, o, c, b) \/ CacheHit(t, o, c, b)
          /\ result' = [result EXCEPT ![t] = b]
          /\ Start(t, o, c) /\ Goto(t, "mutex") /\ UNCHANGED <<walkVars, inside>>
    BY <1>1 DEF CallCached
  <2>2. /\ \/ UNCHANGED <<fastData, fastCount>>
           \/ /\ fastData' \in {fastData, [fastData EXCEPT ![t] = NoBlock]}
              /\ \E n : fastCount' = [fastCount EXCEPT ![t] = n]
        /\ \/ UNCHANGED <<cache, allocated>>
           \/ /\ \E n : cache' = [cache EXCEPT ![t][b] = n]
              /\ \E n : allocated' = [allocated EXCEPT ![t] = n]
    BY <2>1 DEF FastCacheHit, CacheHit
  <2> QED BY <2>1, <2>2 DEF Start, Goto
<1>2. CASE \E o \in Objects, c \in Calls : CallUncached(t, o, c)
  BY <1>2 DEF CallUncached, Start, Goto
<1>3. CASE ThreadExit(t) BY <1>3 DEF ThreadExit, Goto
<1>4. CASE LockList(t) BY <1>4 DEF LockList, Goto
<1>5. CASE Walk(t) BY <1>5 DEF Walk, Done, Goto
<1>6. CASE WalkFindsNothing(t) BY <1>6 DEF WalkFindsNothing, Done, Goto
<1>7. CASE WalkReuses(t) BY <1>7 DEF WalkReuses, Done, Goto
<1>8. CASE WalkAllocates(t) BY <1>8 DEF WalkAllocates, Done, Goto
<1>9. CASE FoundForExit(t) BY <1>9 DEF FoundForExit, Return, Goto
<1>10. CASE FoundForEnter(t) BY <1>10 DEF FoundForEnter, Goto
<1>11. CASE MutexLock(t) BY <1>11 DEF MutexLock, Return, Goto
<1>12. CASE MutexBusy(t) BY <1>12 DEF MutexBusy, Return, Goto
<1>13. CASE MutexUnlock(t) BY <1>13 DEF MutexUnlock, Return, Goto
<1>14. CASE MutexNotOwned(t) BY <1>14 DEF MutexNotOwned, Return, Goto
<1> QED BY <1>1, <1>2, <1>3, <1>4, <1>5, <1>6, <1>7, <1>8, <1>9, <1>10, <1>11, <1>12,
           <1>13, <1>14 DEF Runtime, Program

\* A lock of a list that t takes or leaves is not that of another walk.
LEMMA OtherWalks ==
    ASSUME SyncAssumption, IInv, NEW t \in Threads, NEW s \in Stripes, NEW v,
           listLock[s] \in {t, NoThread}, listLock' = [listLock EXCEPT ![s] = v],
           NEW u \in Threads \ {t}, pc[u] = "walk"
    PROVE  listLock'[MyStripe(u)] = u /\ MyStripe(u) # s /\ MyStripe(u) \in Stripes
<1>1. obj[u] \in Objects /\ listLock[MyStripe(u)] = u BY DEF IInv, CallOK
<1>2. MyStripe(u) \in Stripes BY <1>1 DEF MyStripe, SyncAssumption
<1>3. listLock \in [Stripes -> Threads \cup {NoThread}] BY DEF IInv, TypeOK
<1>4. MyStripe(u) # s BY <1>1 DEF SyncAssumption
<1> QED BY <1>1, <1>2, <1>3, <1>4

\* What t owns while it is not at a mutex is in its caches.
LEMMA OwnedIsCached ==
    ASSUME IInv, NEW t \in Threads, NEW b \in Blocks, owner[b] = t, NoThread \notin Threads,
           pc[t] \notin {"mutex", "gone"}
    PROVE  fastData[t] = b \/ b \in Used(t)
<1>1. depth[b] \in Nat /\ cache[t][b] \in Nat /\ fastCount[t] \in Nat BY DEF IInv, TypeOK
<1>2. depth[b] > 0 BY DEF IInv, OwnersOK
<1>3. Locks(t, b) + Pending(t, b) <= CachedCount(t, b) BY DEF IInv, LocksCached
<1>4. Locks(t, b) = depth[b] /\ Pending(t, b) = 0 BY DEF Locks, Pending
<1>5. CachedCount(t, b) > 0 BY <1>1, <1>2, <1>3, <1>4 DEF CachedCount
<1> QED BY <1>1, <1>5 DEF CachedCount, Used

\* Steps that touch neither a mutex nor the object of a block.
LEMMA LocalStep ==
    ASSUME SyncAssumption, IInv, NEW t \in Threads, OthersKeep(t),
           UNCHANGED <<object, owner, depth, list, inside>>,
           TypeOK', ~buggy', CountsOK', ~LastExit(t, obj[t]),
           \A u \in Threads \ {t} : pc[u] = "walk" =>
              /\ listLock'[MyStripe(u)] = u
              /\ firstUnused[u] # NoBlock => threadCount'[firstUnused[u]] = 0,
           CachesOK(t)', CallOK(t)',
           pc'[t] # "gone" => \A b \in Blocks :
              Locks(t, b)' + Pending(t, b)' <= CachedCount(t, b)'
    PROVE  IInv'
<1>h. ListsOK /\ LocksCached /\ OwnersOK /\ InsideOK BY DEF IInv
<1>1. ASSUME NEW u \in Threads \ {t} PROVE CachesOK(u)' /\ CallOK(u)'
  <2>1. Locals(u)' = Locals(u) BY DEF OthersKeep
  <2>2. CachesOK(u) /\ CallOK(u) BY DEF IInv
  <2>3. CachesOK(u)' BY <2>1, <2>2 DEF CachesOK, Locals, Looking, Used
  <2>4. CallOK(u)' BY <2>1, <2>2 DEF CallOK, Locals, Looking, MyStripe
  <2> QED BY <2>3, <2>4
<1>2. LocksCached'
  <2> SUFFICES ASSUME NEW u \in Threads, NEW b \in Blocks, pc'[u] # "gone"
               PROVE  Locks(u, b)' + Pending(u, b)' <= CachedCount(u, b)'
    BY DEF LocksCached
  <2>1. CASE u # t
    <3>1. Locals(u)' = Locals(u) BY <2>1 DEF OthersKeep
    <3>2. Locks(u, b) + Pending(u, b) <= CachedCount(u, b)
      BY <1>h, <3>1 DEF LocksCached, Locals
    <3> QED BY <3>1, <3>2 DEF Locks, Pending, CachedCount, Locals
  <2> QED BY <2>1
<1>3. ListsOK' BY <1>h DEF ListsOK
<1>4. \A u \in Threads, o \in Objects : LastExit(u, o) => u # t /\ LastExit(u, o)'
  <2> SUFFICES ASSUME NEW u \in Threads, NEW o \in Objects, LastExit(u, o)
               PROVE  u # t /\ LastExit(u, o)'
    OBVIOUS
  <2>1. u # t BY DEF LastExit
  <2>2. Locals(u)' = Locals(u) BY <2>1 DEF OthersKeep
  <2> QED BY <2>1, <2>2 DEF LastExit, Locals
<1>5. OwnersOK'
  <2> SUFFICES ASSUME NEW b \in Blocks, NEW u \in Threads, owner[b] = u
               PROVE  /\ depth[b] > 0 /\ object[b] # NoObject
                      /\ \/ inside[u][object[b]] = depth[b]
                         \/ LastExit(u, obj[u])' /\ result'[u] = b
    BY <1>h DEF OwnersOK
  <2>2. CASE inside[u][object[b]] = depth[b] BY <1>h, <2>2 DEF OwnersOK
  <2>3. CASE LastExit(u, obj[u]) /\ result[u] = b
    <3>1. u # t BY <2>3
    <3>2. Locals(u)' = Locals(u) BY <3>1 DEF OthersKeep
    <3>3. LastExit(u, obj[u])' /\ result'[u] = b BY <2>3, <3>2 DEF LastExit, Locals
    <3>4. depth[b] > 0 /\ object[b] # NoObject BY <1>h DEF OwnersOK
    <3> QED BY <3>3, <3>4
  <2> QED BY <1>h, <2>2, <2>3 DEF OwnersOK
<1>6. InsideOK' BY <1>h, <1>4 DEF InsideOK
<1> QED BY <1>1, <1>2, <1>3, <1>5, <1>6 DEF IInv

\* A walk keeps a block without a count, while another thread counts down.
LEMMA UnusedKept ==
    ASSUME SyncAssumption, IInv, NEW t \in Threads, OthersKeep(t),
           UNCHANGED threadCount, listLock' = listLock
    PROVE  \A u \in Threads \ {t} : pc[u] = "walk" =>
              /\ listLock'[MyStripe(u)] = u
              /\ firstUnused[u] # NoBlock => threadCount'[firstUnused[u]] = 0
BY DEF IInv, CallOK

\* A call on an object that is in neither cache.
LEMMA CallUncachedInv ==
    ASSUME SyncAssumption, IInv, ~buggy, NEW t \in Threads, NEW o \in Objects, NEW c \in Calls,
           CallUncached(t, o, c)
    PROVE  IInv'
<1>h. TypeOK /\ CachesOK(t) /\ CallOK(t) /\ LocksCached BY DEF IInv
<1>1. /\ pc[t] = "idle" /\ pc' = [pc EXCEPT ![t] = "wantList"]
      /\ call' = [call EXCEPT ![t] = c] /\ obj' = [obj EXCEPT ![t] = o]
      /\ allocated' = [allocated EXCEPT ![t] = fetch_cache(t, FALSE)]
      /\ ~InFastCache(t, o, fastData[t]) /\ \A b \in Blocks : ~InCache(t, o, b)
      /\ c = "exit" => inside[t][o] > 0 \/ inside[t][o] = 0
      /\ UNCHANGED <<blockVars, mutexVars, listVars, fastData, fastCount, cache,
                     walkVars, result, inside, buggy>>
  BY <1>h DEF CallUncached, MayCall, Start, Goto, TypeOK
<1>2. OthersKeep(t) BY <1>h, Own DEF Program
<1>3. /\ pc'[t] = "wantList" /\ call'[t] = c /\ obj'[t] = o
      /\ allocated'[t] = fetch_cache(t, FALSE)
      /\ \A u \in Threads : u # t => pc'[u] = pc[u]
  BY <1>h, <1>1 DEF TypeOK
<1>4. /\ Cardinality(Used(t)) \in Nat /\ allocated[t] \in Nat
      /\ IsFiniteSet(Used(t)) /\ Cardinality(Used(t)) <= allocated[t]
  BY <1>h, FS_CardinalityType DEF CachesOK, TypeOK
<1>5. /\ fetch_cache(t, FALSE) \in Nat /\ Cardinality(Used(t)) <= fetch_cache(t, FALSE)
      /\ fetch_cache(t, FALSE) # 0 => Cardinality(Used(t)) < fetch_cache(t, FALSE)
  BY <1>4 DEF fetch_cache
<1>6. TypeOK' BY <1>h, <1>1, <1>5 DEF TypeOK, PCs, blockVars, mutexVars, listVars, walkVars
<1>7. Used(t)' = Used(t) BY <1>1 DEF Used
<1>8. \A b \in Blocks : fastData[t] = b \/ b \in Used(t) => object[b] # o
  BY <1>1, SyncAssumption DEF InFastCache, InCache, SyncAssumption
<1>9. CachesOK(t)'
  BY <1>h, <1>1, <1>3, <1>4, <1>5, <1>7, <1>8 DEF CachesOK, Looking, blockVars
<1>10. inside[t][o] = 0
  <2> SUFFICES ASSUME inside[t][o] # 0 PROVE FALSE OBVIOUS
  <2>1. inside[t][o] > 0 BY <1>h DEF TypeOK
  <2>2. PICK b \in Blocks : object[b] = o /\ owner[b] = t
    BY <1>1, <2>1 DEF IInv, InsideOK, LastExit
  <2>3. fastData[t] = b \/ b \in Used(t)
    BY <1>1, <2>2, OwnedIsCached DEF SyncAssumption
  <2> QED BY <1>8, <2>2, <2>3
<1>11. CallOK(t)'
  BY <1>h, <1>1, <1>3, <1>10 DEF CallOK, Looking, walkVars
<1>12. CountsOK'
  <2>1. \A b \in Blocks : InUse(b)' \subseteq InUse(b)
    BY <1>1, <1>3 DEF InUse, Users, mutexVars, blockVars
  <2> QED BY <1>1, <2>1, CountsKept DEF blockVars
<1>13. \A b \in Blocks : Locks(t, b)' + Pending(t, b)' <= CachedCount(t, b)'
  BY <1>h, <1>1, <1>3 DEF LocksCached, Locks, Pending, CachedCount, mutexVars
<1>14. ~LastExit(t, obj[t]) BY <1>1 DEF LastExit
<1> QED BY <1>1, <1>2, <1>6, <1>9, <1>11, <1>12, <1>13, <1>14, UnusedKept, LocalStep
    DEF blockVars, mutexVars, listVars

\* The spinlock of the list is taken.
LEMMA LockListInv ==
    ASSUME SyncAssumption, IInv, NEW t \in Threads, LockList(t)
    PROVE  IInv'
<1>h. TypeOK /\ CachesOK(t) /\ CallOK(t) /\ LocksCached BY DEF IInv
<1>1. /\ pc[t] = "wantList" /\ pc' = [pc EXCEPT ![t] = "walk"]
      /\ listLock[MyStripe(t)] = NoThread
      /\ listLock' = [listLock EXCEPT ![MyStripe(t)] = t]
      /\ UNCHANGED <<blockVars, mutexVars, list, cacheVars, callVars, walkVars,
                     result, inside, buggy>>
  BY DEF LockList, Goto
<1> USE DEF blockVars, mutexVars, cacheVars, callVars, walkVars
<1>2. OthersKeep(t) BY <1>h, Own DEF Runtime
<1>3. pc'[t] = "walk" /\ \A u \in Threads : u # t => pc'[u] = pc[u] BY <1>h, <1>1 DEF TypeOK
<1>4. obj[t] \in Objects /\ MyStripe(t) \in Stripes
  BY <1>h, <1>1 DEF CallOK, MyStripe, SyncAssumption
<1>5. TypeOK' BY <1>h, <1>1, <1>4 DEF TypeOK, PCs
<1>6. CachesOK(t)' BY <1>h, <1>1, <1>3 DEF CachesOK, Looking, Used
<1>7. MyStripe(t)' = MyStripe(t) /\ listLock'[MyStripe(t)] = t
  BY <1>h, <1>1, <1>4 DEF MyStripe, TypeOK
<1>8. CallOK(t)' BY <1>h, <1>1, <1>3, <1>7 DEF CallOK, Looking
<1>9. CountsOK'
  <2>1. \A b \in Blocks : InUse(b)' \subseteq InUse(b) BY <1>1, <1>3 DEF InUse, Users
  <2> QED BY <1>1, <2>1, CountsKept
<1>10. \A b \in Blocks : Locks(t, b)' + Pending(t, b)' <= CachedCount(t, b)'
  BY <1>h, <1>1, <1>3 DEF LocksCached, Locks, Pending, CachedCount
<1>11. ~LastExit(t, obj[t]) BY <1>1 DEF LastExit
<1>12. \A u \in Threads \ {t} : pc[u] = "walk" =>
          /\ listLock'[MyStripe(u)] = u
          /\ firstUnused[u] # NoBlock => threadCount'[firstUnused[u]] = 0
  <2> SUFFICES ASSUME NEW u \in Threads \ {t}, pc[u] = "walk"
               PROVE  /\ listLock'[MyStripe(u)] = u
                      /\ firstUnused[u] # NoBlock => threadCount'[firstUnused[u]] = 0
    OBVIOUS
  <2>1. listLock'[MyStripe(u)] = u BY <1>1, <1>4, OtherWalks
  <2> QED BY <1>1, <2>1 DEF IInv, CallOK
<1>13. ~buggy' BY <1>1 DEF IInv
<1> QED BY <1>1, <1>2, <1>5, <1>6, <1>8, <1>9, <1>10, <1>11, <1>12, <1>13, LocalStep

\* The end of a walk that binds nothing: what the other walks keep.
LEMMA DoneKeeps ==
    ASSUME SyncAssumption, IInv, NEW t \in Threads, NEW r \in Blocks \cup {NoBlock},
           pc[t] = "walk", Done(t, r)
    PROVE  /\ MyStripe(t) \in Stripes /\ listLock[MyStripe(t)] = t /\ obj[t] \in Objects
           /\ pc' = [pc EXCEPT ![t] = "found"] /\ pc'[t] = "found"
           /\ result' = [result EXCEPT ![t] = r] /\ result'[t] = r
           /\ seen'[t] = {} /\ firstUnused'[t] = NoBlock
           /\ listLock' \in [Stripes -> Threads \cup {NoThread}]
           /\ seen' \in [Threads -> SUBSET Blocks]
           /\ firstUnused' \in [Threads -> Blocks \cup {NoBlock}]
           /\ result' \in [Threads -> Blocks \cup {NoBlock}]
           /\ pc' \in [Threads -> PCs]
           /\ \A u \in Threads \ {t} : pc[u] = "walk" =>
                 listLock'[MyStripe(u)] = u /\ MyStripe(u) # MyStripe(t)
<1>h. TypeOK /\ CallOK(t) BY DEF IInv
<1>1. MyStripe(t) \in Stripes /\ listLock[MyStripe(t)] = t /\ obj[t] \in Objects
  BY <1>h DEF CallOK, MyStripe, SyncAssumption
<1>2. /\ listLock' = [listLock EXCEPT ![MyStripe(t)] = NoThread]
      /\ result' = [result EXCEPT ![t] = r] /\ seen' = [seen EXCEPT ![t] = {}]
      /\ firstUnused' = [firstUnused EXCEPT ![t] = NoBlock]
      /\ pc' = [pc EXCEPT ![t] = "found"]
  BY DEF Done, Goto
<1>3. \A u \in Threads \ {t} : pc[u] = "walk" =>
         listLock'[MyStripe(u)] = u /\ MyStripe(u) # MyStripe(t)
  BY <1>1, <1>2, OtherWalks
<1> QED BY <1>h, <1>1, <1>2, <1>3 DEF TypeOK, PCs

\* One block of the list is looked at.
LEMMA WalkInv ==
    ASSUME SyncAssumption, IInv, NEW t \in Threads, Walk(t)
    PROVE  IInv'
<1>h. TypeOK /\ CachesOK(t) /\ CallOK(t) /\ LocksCached /\ ListsOK BY DEF IInv
<1>1. pc[t] = "walk" /\ UNCHANGED <<object, mutexVars, list, cacheVars, callVars, inside, buggy>>
  BY DEF Walk
<1> USE DEF mutexVars, cacheVars, callVars
<1>2. OthersKeep(t) BY <1>h, Own DEF Runtime
<1>3. obj[t] \in Objects /\ MyStripe(t) \in Stripes
  BY <1>h, <1>1 DEF CallOK, MyStripe, SyncAssumption
<1>4. PICK p \in list[MyStripe(t)] \ seen[t] :
          \/ /\ object[p] = obj[t]
             /\ threadCount' = [threadCount EXCEPT ![p] = @ + 1]
             /\ Done(t, p)
          \/ /\ object[p] # obj[t]
             /\ seen' = [seen EXCEPT ![t] = @ \cup {p}]
             /\ firstUnused' = [firstUnused EXCEPT ![t] =
                   IF @ = NoBlock /\ threadCount[p] = 0 THEN p ELSE @]
             /\ UNCHANGED <<threadCount, listLock, result, pc>>
  BY DEF Walk
<1>5. p \in Blocks /\ object[p] # NoObject
  BY <1>h, <1>3, <1>4 DEF TypeOK, ListsOK, SyncAssumption
<1>6. ~LastExit(t, obj[t]) /\ ~buggy' BY <1>1 DEF LastExit, IInv
<1>7. Used(t)' = Used(t) BY <1>1 DEF Used
<1>8. CASE /\ object[p] = obj[t]
           /\ threadCount' = [threadCount EXCEPT ![p] = @ + 1]
           /\ Done(t, p)
  <2>1. /\ pc' = [pc EXCEPT ![t] = "found"] /\ pc'[t] = "found"
        /\ result' = [result EXCEPT ![t] = p] /\ result'[t] = p
        /\ seen'[t] = {} /\ firstUnused'[t] = NoBlock
        /\ listLock' \in [Stripes -> Threads \cup {NoThread}]
        /\ seen' \in [Threads -> SUBSET Blocks]
        /\ firstUnused' \in [Threads -> Blocks \cup {NoBlock}]
        /\ result' \in [Threads -> Blocks \cup {NoBlock}]
        /\ pc' \in [Threads -> PCs]
        /\ \A u \in Threads \ {t} : pc[u] = "walk" =>
              listLock'[MyStripe(u)] = u /\ MyStripe(u) # MyStripe(t)
    BY <1>1, <1>5, <1>8, DoneKeeps
  <2>2. TypeOK' BY <1>h, <1>1, <1>5, <1>8, <2>1 DEF TypeOK
  <2>3. CachesOK(t)' BY <1>h, <1>1, <1>7, <2>1 DEF CachesOK, Looking
  <2>4. CallOK(t)' BY <1>h, <1>1, <1>3, <1>5, <1>8, <2>1 DEF CallOK, Looking
  <2>5. CountsOK'
    <3> SUFFICES ASSUME NEW b \in Blocks
                 PROVE  /\ Cardinality(InUse(b)') <= threadCount'[b]
                        /\ object'[b] = NoObject => threadCount'[b] = 0
      BY DEF CountsOK
    <3>1. /\ threadCount[b] \in Nat /\ Cardinality(InUse(b)) <= threadCount[b]
          /\ object[b] = NoObject => threadCount[b] = 0
          /\ threadCount'[b] = IF b = p THEN threadCount[b] + 1 ELSE threadCount[b]
      BY <1>h, <1>8 DEF IInv, TypeOK, CountsOK
    <3>2. /\ b = p => InUse(b)' \subseteq InUse(b) \cup {t}
          /\ b # p => InUse(b)' \subseteq InUse(b)
      BY <1>h, <1>1, <2>1 DEF InUse, Users, TypeOK
    <3>3. IF b = p THEN Cardinality(InUse(b)') <= Cardinality(InUse(b)) + 1
                   ELSE Cardinality(InUse(b)') <= Cardinality(InUse(b))
      BY <3>2, InUseFinite, CardinalityFacts
    <3> QED BY <1>1, <1>5, <3>1, <3>3, InUseFinite
  <2>6. \A b \in Blocks : Locks(t, b)' + Pending(t, b)' <= CachedCount(t, b)'
    BY <1>h, <1>1, <2>1 DEF LocksCached, Locks, Pending, CachedCount
  <2>7. \A u \in Threads \ {t} : pc[u] = "walk" =>
            /\ listLock'[MyStripe(u)] = u
            /\ firstUnused[u] # NoBlock => threadCount'[firstUnused[u]] = 0
    <3> SUFFICES ASSUME NEW u \in Threads \ {t}, pc[u] = "walk", firstUnused[u] # NoBlock
                 PROVE  threadCount'[firstUnused[u]] = 0
      BY <2>1
    <3>1. /\ CallOK(u) /\ MyStripe(u) # MyStripe(t)
          /\ obj[u] \in Objects /\ MyStripe(u) \in Stripes
      BY <2>1 DEF IInv, CallOK, MyStripe, SyncAssumption
    <3>2. firstUnused[u] \in list[MyStripe(u)] /\ threadCount[firstUnused[u]] = 0
      BY <3>1 DEF CallOK
    <3>3. firstUnused[u] # p /\ firstUnused[u] \in Blocks
      BY <1>h, <1>3, <1>4, <3>1, <3>2 DEF ListsOK, TypeOK
    <3> QED BY <1>h, <1>8, <3>2, <3>3 DEF TypeOK
  <2> QED BY <1>1, <1>2, <1>6, <2>2, <2>3, <2>4, <2>5, <2>6, <2>7, LocalStep
<1>9. CASE /\ object[p] # obj[t]
           /\ seen' = [seen EXCEPT ![t] = @ \cup {p}]
           /\ firstUnused' = [firstUnused EXCEPT ![t] =
                 IF @ = NoBlock /\ threadCount[p] = 0 THEN p ELSE @]
           /\ UNCHANGED <<threadCount, listLock, result, pc>>
  <2>1. TypeOK' BY <1>h, <1>1, <1>5, <1>9 DEF TypeOK
  <2>2. CachesOK(t)' BY <1>h, <1>1, <1>7, <1>9 DEF CachesOK, Looking
  <2>3. /\ seen'[t] = seen[t] \cup {p}
        /\ firstUnused'[t] = IF firstUnused[t] = NoBlock /\ threadCount[p] = 0 THEN p
                             ELSE firstUnused[t]
    BY <1>h, <1>9 DEF TypeOK
  <2>4. CallOK(t)'
    BY <1>h, <1>1, <1>3, <1>4, <1>9, <2>3 DEF CallOK, Looking, MyStripe
  <2>5. CountsOK'
    <3>1. \A b \in Blocks : InUse(b)' \subseteq InUse(b) BY <1>1, <1>9 DEF InUse, Users
    <3> QED BY <1>1, <1>9, <3>1, CountsKept
  <2>6. \A b \in Blocks : Locks(t, b)' + Pending(t, b)' <= CachedCount(t, b)'
    BY <1>h, <1>1, <1>9 DEF LocksCached, Locks, Pending, CachedCount
  <2> QED BY <1>1, <1>2, <1>6, <1>9, <2>1, <2>2, <2>4, <2>5, <2>6, UnusedKept, LocalStep
<1> QED BY <1>4, <1>8, <1>9

\* An exit that finds no block.
LEMMA WalkFindsNothingInv ==
    ASSUME SyncAssumption, IInv, NEW t \in Threads, WalkFindsNothing(t)
    PROVE  IInv'
<1>h. TypeOK /\ CachesOK(t) /\ CallOK(t) /\ LocksCached BY DEF IInv
<1>1. /\ pc[t] = "walk" /\ call[t] = "exit" /\ Done(t, NoBlock)
      /\ UNCHANGED <<blockVars, mutexVars, list, cacheVars, callVars, inside, buggy>>
  BY DEF WalkFindsNothing, EndOfList
<1> USE DEF blockVars, mutexVars, cacheVars, callVars
<1>2. OthersKeep(t) BY <1>h, Own DEF Runtime
<1>3. /\ pc' = [pc EXCEPT ![t] = "found"] /\ pc'[t] = "found" /\ obj[t] \in Objects
      /\ seen'[t] = {} /\ firstUnused'[t] = NoBlock
      /\ result' = [result EXCEPT ![t] = NoBlock]
      /\ listLock' \in [Stripes -> Threads \cup {NoThread}]
      /\ seen' \in [Threads -> SUBSET Blocks]
      /\ firstUnused' \in [Threads -> Blocks \cup {NoBlock}]
      /\ result' \in [Threads -> Blocks \cup {NoBlock}]
      /\ pc' \in [Threads -> PCs]
      /\ \A u \in Threads \ {t} : pc[u] = "walk" => listLock'[MyStripe(u)] = u
  BY <1>1, DoneKeeps
<1>4. TypeOK' BY <1>h, <1>1, <1>3 DEF TypeOK
<1>5. CachesOK(t)' BY <1>h, <1>1, <1>3 DEF CachesOK, Looking, Used
<1>6. CallOK(t)' BY <1>h, <1>1, <1>3 DEF CallOK, Looking
<1>7. CountsOK'
  <2>1. \A b \in Blocks : InUse(b)' \subseteq InUse(b)
    BY <1>h, <1>1, <1>3 DEF InUse, Users, TypeOK
  <2> QED BY <1>1, <2>1, CountsKept
<1>8. \A b \in Blocks : Locks(t, b)' + Pending(t, b)' <= CachedCount(t, b)'
  BY <1>h, <1>1, <1>3 DEF LocksCached, Locks, Pending, CachedCount
<1>9. \A u \in Threads \ {t} : pc[u] = "walk" =>
          /\ listLock'[MyStripe(u)] = u
          /\ firstUnused[u] # NoBlock => threadCount'[firstUnused[u]] = 0
  BY <1>1, <1>3 DEF IInv, CallOK
<1>10. ~LastExit(t, obj[t]) /\ ~buggy' BY <1>1 DEF LastExit, IInv
<1> QED BY <1>1, <1>2, <1>4, <1>5, <1>6, <1>7, <1>8, <1>9, <1>10, LocalStep

\* A call returns that changed nothing but its locals and was not inside.
LEMMA ReturnInv ==
    ASSUME SyncAssumption, IInv, NEW t \in Threads, OthersKeep(t), Return(t),
           pc[t] \in {"found", "mutex"}, ~LastExit(t, obj[t]),
           call[t] = "exit" \/ pc[t] = "mutex",
           pc[t] = "mutex" => owner[result[t]] # t,
           UNCHANGED <<blockVars, mutexVars, listVars, cacheVars, walkVars, inside, buggy>>
    PROVE  IInv'
<1>h. TypeOK /\ CachesOK(t) /\ CallOK(t) /\ LocksCached BY DEF IInv
<1> USE DEF blockVars, mutexVars, listVars, cacheVars, walkVars
<1>1. /\ pc' = [pc EXCEPT ![t] = "idle"] /\ call' = [call EXCEPT ![t] = "enter"]
      /\ obj' = [obj EXCEPT ![t] = NoObject] /\ result' = [result EXCEPT ![t] = NoBlock]
  BY DEF Return, Goto
<1>2. TypeOK' BY <1>h, <1>1 DEF TypeOK, PCs, Calls
<1>3. pc'[t] = "idle" BY <1>h, <1>1 DEF TypeOK
<1>4. CachesOK(t)' BY <1>h, <1>3 DEF CachesOK, Looking, Used
<1>5. CallOK(t)' BY <1>h, <1>3 DEF CallOK, Looking
<1>6. CountsOK'
  <2>1. \A b \in Blocks : InUse(b)' \subseteq InUse(b)
    BY <1>h, <1>1 DEF InUse, Users, TypeOK
  <2> QED BY <2>1, CountsKept
<1>7. \A b \in Blocks : Locks(t, b)' + Pending(t, b)' <= CachedCount(t, b)'
  <2> SUFFICES ASSUME NEW b \in Blocks
               PROVE  Locks(t, b)' + Pending(t, b)' <= CachedCount(t, b)'
    OBVIOUS
  <2>1. Pending(t, b)' = 0 /\ Locks(t, b)' = Locks(t, b) /\ CachedCount(t, b)' = CachedCount(t, b)
    BY <1>3 DEF Pending, Locks, CachedCount
  <2>2. Locks(t, b) \in Nat /\ CachedCount(t, b) \in Nat
    BY <1>h DEF TypeOK, Locks, CachedCount
  <2>3. Locks(t, b) + Pending(t, b) <= CachedCount(t, b) BY <1>h DEF LocksCached
  <2>4. Locks(t, b) = 0 \/ Pending(t, b) = 0 BY DEF Locks, Pending
  <2> QED BY <2>1, <2>2, <2>3, <2>4
<1>8. ~buggy' BY DEF IInv
<1> QED BY <1>2, <1>3, <1>4, <1>5, <1>6, <1>7, <1>8, UnusedKept, LocalStep

\* The calls that return so: an exit that found no cached block, a failed try, and
\* an exit whose mutex is not the thread's.
LEMMA ReturnsInv ==
    ASSUME SyncAssumption, IInv, NEW t \in Threads,
           FoundForExit(t) \/ MutexBusy(t) \/ MutexNotOwned(t)
    PROVE  IInv'
<1>1. OthersKeep(t) BY Own DEF IInv, Runtime
<1>2. CallOK(t) BY DEF IInv
<1>3. CASE FoundForExit(t) BY <1>1, <1>3, ReturnInv DEF FoundForExit, LastExit
<1>4. CASE MutexBusy(t)
  <2>1. /\ pc[t] = "mutex" /\ call[t] = "try" /\ owner[result[t]] # t /\ Return(t)
        /\ UNCHANGED <<blockVars, mutexVars, listVars, cacheVars, walkVars, inside, buggy>>
    BY <1>4 DEF MutexBusy, Available
  <2> QED BY <1>1, <2>1, ReturnInv DEF LastExit
<1>5. CASE MutexNotOwned(t)
  <2>1. /\ pc[t] = "mutex" /\ call[t] = "exit" /\ owner[result[t]] # t /\ Return(t)
        /\ UNCHANGED <<blockVars, mutexVars, listVars, cacheVars, walkVars, inside, buggy>>
    BY <1>5 DEF MutexNotOwned
  <2>2. inside[t][obj[t]] = 0 BY <1>2, <2>1 DEF CallOK
  <2> QED BY <1>1, <2>1, <2>2, ReturnInv DEF LastExit
<1> QED BY <1>3, <1>4, <1>5

\* The block that was found is remembered in one of the caches.
LEMMA FoundForEnterInv ==
    ASSUME SyncAssumption, IInv, NEW t \in Threads, FoundForEnter(t)
    PROVE  IInv'
<1>h. TypeOK /\ CachesOK(t) /\ CallOK(t) /\ LocksCached BY DEF IInv
<1>1. /\ pc[t] = "found" /\ call[t] # "exit" /\ buggy' = (object[result[t]] # obj[t])
      /\ pc' = [pc EXCEPT ![t] = "mutex"]
      /\ UNCHANGED <<blockVars, mutexVars, listVars, callVars, walkVars, result, inside>>
  BY DEF FoundForEnter, Goto
<1> USE DEF blockVars, mutexVars, listVars, callVars, walkVars
<1>2. OthersKeep(t) BY <1>h, Own DEF Runtime
<1>3. PICK r \in Blocks : r = result[t] /\ object[r] = obj[t] /\ obj[t] \in Objects
  BY <1>h, <1>1 DEF CallOK
<1>4. ~buggy' /\ ~LastExit(t, obj[t]) BY <1>1, <1>3 DEF LastExit
<1>5. pc'[t] = "mutex" BY <1>h, <1>1 DEF TypeOK
<1>6. fastData[t] # r /\ r \notin Used(t) /\ cache[t][r] = 0
  BY <1>h, <1>1, <1>3 DEF CachesOK, Looking, Used, TypeOK
<1>7. owner[r] # t
  BY <1>1, <1>3, <1>6, OwnedIsCached DEF SyncAssumption
<1>8. r # NoBlock BY DEF SyncAssumption
<1>9. Locks(t, r)' = 0 /\ Pending(t, r)' = 1
  BY <1>1, <1>3, <1>5, <1>7 DEF Locks, Pending
<1>10. \A b \in Blocks \ {r} : /\ Locks(t, b)' = Locks(t, b)
                               /\ Pending(t, b)' = 0 /\ Pending(t, b) = 0
  BY <1>1, <1>3, <1>5 DEF Locks, Pending
<1>11. \A b \in Blocks : Locks(t, b) + Pending(t, b) <= CachedCount(t, b)
  BY <1>h, <1>1 DEF LocksCached
<1>12. CallOK(t)' BY <1>h, <1>1, <1>3, <1>5 DEF CallOK, Looking
<1>13. CASE /\ fastData[t] = NoBlock
            /\ fastData' = [fastData EXCEPT ![t] = r]
            /\ fastCount' = [fastCount EXCEPT ![t] = 1]
            /\ UNCHANGED <<cache, allocated>>
  <2>1. fastData'[t] = r /\ fastCount'[t] = 1 BY <1>h, <1>13 DEF TypeOK
  <2>2. TypeOK' BY <1>h, <1>1, <1>3, <1>13 DEF TypeOK, PCs
  <2>3. Used(t)' = Used(t) BY <1>13 DEF Used
  <2>4. CachesOK(t)' BY <1>h, <1>5, <1>6, <1>13, <2>1, <2>3 DEF CachesOK, Looking
  <2>5. CountsOK'
    <3>1. \A b \in Blocks : InUse(b)' \subseteq InUse(b)
      BY <1>h, <1>1, <1>3, <1>8, <1>13 DEF InUse, Users, TypeOK
    <3> QED BY <1>1, <3>1, CountsKept
  <2>6. \A b \in Blocks : Locks(t, b)' + Pending(t, b)' <= CachedCount(t, b)'
    <3>1. CachedCount(t, r)' = 1 BY <2>1 DEF CachedCount
    <3>2. \A b \in Blocks \ {r} : CachedCount(t, b)' = CachedCount(t, b)
      BY <1>13, <2>1, SyncAssumption DEF CachedCount, SyncAssumption
    <3> QED BY <1>3, <1>9, <1>10, <1>11, <3>1, <3>2
  <2> QED BY <1>1, <1>2, <1>4, <1>5, <1>12, <2>2, <2>4, <2>5, <2>6, UnusedKept, LocalStep
<1>14. CASE /\ fastData[t] # NoBlock
            /\ allocated' = IF allocated[t] = 0
                  THEN [allocated EXCEPT ![t] = fetch_cache(t, TRUE)]
                  ELSE allocated
            /\ cache' = [cache EXCEPT ![t][r] = 1]
            /\ UNCHANGED <<fastData, fastCount>>
  <2>1. /\ IsFiniteSet(Used(t)) /\ Cardinality(Used(t)) \in Nat
        /\ Cardinality(Used(t)) <= allocated[t] /\ allocated[t] \in Nat
        /\ allocated[t] # 0 => Cardinality(Used(t)) < allocated[t]
    BY <1>h, <1>1, FS_CardinalityType DEF CachesOK, Looking, TypeOK
  <2>2. /\ allocated'[t] \in Nat /\ Cardinality(Used(t)) + 1 <= allocated'[t]
        /\ allocated' \in [Threads -> Nat]
    <3>1. CASE allocated[t] # 0 BY <1>h, <1>14, <2>1, <3>1 DEF TypeOK
    <3>2. CASE allocated[t] = 0
      <4>1. fetch_cache(t, TRUE) = SlotCount /\ SlotCount \in Nat \ {0}
        BY <2>1, <3>2 DEF fetch_cache, SyncAssumption
      <4>2. allocated' = [allocated EXCEPT ![t] = SlotCount] BY <1>14, <3>2, <4>1
      <4> QED BY <1>h, <2>1, <3>2, <4>1, <4>2 DEF TypeOK
    <3> QED BY <3>1, <3>2
  <2>3. /\ cache' \in [Threads -> [Blocks -> Nat]]
        /\ \A b \in Blocks : cache'[t][b] = IF b = r THEN 1 ELSE cache[t][b]
    BY <1>h, <1>3, <1>14 DEF TypeOK
  <2>4. TypeOK' BY <1>h, <1>1, <1>14, <2>2, <2>3 DEF TypeOK, PCs
  <2>5. Used(t)' = Used(t) \cup {r} BY <1>3, <2>3 DEF Used
  <2>6. /\ IsFiniteSet(Used(t) \cup {r})
        /\ Cardinality(Used(t) \cup {r}) <= Cardinality(Used(t)) + 1
        /\ Cardinality(Used(t) \cup {r}) \in Nat
    BY <2>1, CardinalityFacts
  <2>7. CachesOK(t)'
    <3>1. IsFiniteSet(Used(t)') /\ Cardinality(Used(t)') <= allocated'[t]
      BY <2>1, <2>2, <2>5, <2>6
    <3>2. cache'[t][fastData[t]] = 0 /\ fastCount[t] > 0
      BY <1>h, <1>6, <1>14, <2>3 DEF CachesOK, TypeOK
    <3> QED BY <1>5, <1>14, <3>1, <3>2 DEF CachesOK, Looking
  <2>8. CountsOK'
    <3>1. \A b \in Blocks : InUse(b)' \subseteq InUse(b)
      <4> SUFFICES ASSUME NEW b \in Blocks, NEW u \in InUse(b)' PROVE u \in InUse(b)
        OBVIOUS
      <4>1. u \in Threads BY DEF InUse, Users
      <4>2. CASE u # t
        <5>1. Locals(u)' = Locals(u) BY <1>2, <4>1, <4>2 DEF OthersKeep
        <5> QED BY <1>1, <4>1, <5>1 DEF Locals, InUse, Users
      <4>3. CASE u = t
        <5>1. fastData[t] = b \/ cache'[t][b] > 0 BY <1>1, <1>5, <1>14, <4>3 DEF InUse, Users
        <5> QED BY <1>1, <1>3, <2>3, <4>3, <5>1 DEF InUse, Users
      <4> QED BY <4>2, <4>3
    <3> QED BY <1>1, <3>1, CountsKept
  <2>9. \A b \in Blocks : Locks(t, b)' + Pending(t, b)' <= CachedCount(t, b)'
    <3>1. CachedCount(t, r)' = 1 BY <1>3, <1>6, <1>14, <2>3 DEF CachedCount
    <3>2. \A b \in Blocks \ {r} : CachedCount(t, b)' = CachedCount(t, b)
      BY <1>14, <2>3 DEF CachedCount
    <3> QED BY <1>3, <1>9, <1>10, <1>11, <3>1, <3>2
  <2> QED BY <1>1, <1>2, <1>4, <1>5, <1>12, <2>4, <2>7, <2>8, <2>9, UnusedKept, LocalStep
<1> QED BY <1>3, <1>13, <1>14 DEF FoundForEnter

\* A thread terminates: what it owns stays locked and counted.
LEMMA ThreadExitInv ==
    ASSUME SyncAssumption, IInv, NEW t \in Threads, ThreadExit(t)
    PROVE  IInv'
<1>h. TypeOK /\ CachesOK(t) /\ CallOK(t) /\ LocksCached BY DEF IInv
<1>1. /\ pc[t] = "idle" /\ pc' = [pc EXCEPT ![t] = "gone"]
      /\ fastData' = [fastData EXCEPT ![t] = NoBlock]
      /\ fastCount' = [fastCount EXCEPT ![t] = 0]
      /\ cache' = [cache EXCEPT ![t] = [b \in Blocks |-> 0]]
      /\ allocated' = [allocated EXCEPT ![t] = 0]
      /\ UNCHANGED <<blockVars, mutexVars, listVars, callVars, walkVars, result, inside, buggy>>
  BY DEF ThreadExit, Goto
<1> USE DEF blockVars, mutexVars, listVars, callVars, walkVars
<1>2. OthersKeep(t) BY <1>h, Own DEF Program
<1>3. TypeOK' BY <1>h, <1>1 DEF TypeOK, PCs
<1>4. /\ pc'[t] = "gone" /\ fastData'[t] = NoBlock /\ allocated'[t] = 0
      /\ \A b \in Blocks : cache'[t][b] = 0
  BY <1>h, <1>1 DEF TypeOK
<1>5. Used(t)' = {} BY <1>4 DEF Used
<1>6. CachesOK(t)' BY <1>4, <1>5, FS_EmptySet DEF CachesOK, Looking
<1>7. CallOK(t)' BY <1>h, <1>1, <1>4 DEF CallOK, Looking
<1>8. CountsOK'
  <2> SUFFICES ASSUME NEW b \in Blocks, NEW u \in InUse(b)' PROVE u \in InUse(b)
    BY <1>1, CountsKept
  <2>1. u \in Threads BY DEF InUse, Users
  <2>2. CASE u # t
    <3>1. Locals(u)' = Locals(u) BY <1>2, <2>1, <2>2 DEF OthersKeep
    <3> QED BY <1>1, <2>1, <3>1 DEF Locals, InUse, Users
  <2>3. CASE u = t
    <3>1. owner[b] = t
      BY <1>1, <1>4, <2>3, SyncAssumption DEF InUse, Users, SyncAssumption
    <3>2. fastData[t] = b \/ b \in Used(t) BY <1>1, <3>1, OwnedIsCached DEF SyncAssumption
    <3> QED BY <2>3, <3>2 DEF InUse, Users, Used
  <2> QED BY <2>2, <2>3
<1>9. ~buggy' /\ ~LastExit(t, obj[t]) BY <1>1 DEF IInv, LastExit
<1> QED BY <1>1, <1>2, <1>3, <1>4, <1>6, <1>7, <1>8, <1>9, UnusedKept, LocalStep

\* What a thread knows of a block in its caches when it starts a call.
LEMMA CachedFacts ==
    ASSUME SyncAssumption, IInv, NEW t \in Threads, NEW b \in Blocks, NEW o \in Objects,
           pc[t] = "idle", object[b] = o, fastData[t] = b \/ cache[t][b] > 0
    PROVE  /\ threadCount[b] > 0 /\ t \in InUse(b)
           /\ IF owner[b] = t
              THEN /\ inside[t][o] = depth[b]
                   /\ \A d \in Blocks : owner[d] = t /\ object[d] = o => d = b
              ELSE inside[t][o] = 0
<1>h. TypeOK /\ ListsOK /\ OwnersOK /\ InsideOK BY DEF IInv
<1>1. t \in InUse(b) BY DEF InUse, Users
<1>2. threadCount[b] > 0 BY <1>h, <1>1, UsedIsCounted DEF TypeOK
<1>3. \A q \in Objects : ~LastExit(t, q) BY DEF LastExit
<1>4. \A d \in Blocks : object[d] = o => d = b
  BY <1>h DEF ListsOK, SyncAssumption
<1>5. CASE owner[b] = t
  <2>1. inside[t][o] = depth[b] BY <1>h, <1>3, <1>5 DEF OwnersOK, LastExit, SyncAssumption
  <2> QED BY <1>1, <1>2, <1>4, <1>5, <2>1
<1>6. CASE owner[b] # t
  <2>1. ~(inside[t][o] > 0) BY <1>h, <1>3, <1>4, <1>6 DEF InsideOK
  <2>2. inside[t][o] = 0 BY <1>h, <2>1 DEF TypeOK
  <2> QED BY <1>1, <1>2, <1>6, <2>2
<1> QED BY <1>5, <1>6

\* What both hits do to the caches of the thread, which find b in one of them.
Counted(t, c, b) ==
    /\ fastData' \in [Threads -> Blocks \cup {NoBlock}]
    /\ fastCount' \in [Threads -> Nat]
    /\ cache' \in [Threads -> [Blocks -> Nat]]
    /\ allocated' \in [Threads -> Nat]
    /\ fastData'[t] # NoBlock => fastCount'[t] > 0 /\ cache'[t][fastData'[t]] = 0
    /\ IsFiniteSet(Used(t)') /\ Cardinality(Used(t)') <= allocated'[t]
    /\ CachedCount(t, b)' = IF c = "exit" THEN CachedCount(t, b) - 1
                            ELSE CachedCount(t, b) + 1
    /\ \A d \in Blocks \ {b} : CachedCount(t, d)' = CachedCount(t, d)
    /\ \A d \in Blocks : fastData'[t] = d \/ cache'[t][d] > 0 =>
                             fastData[t] = d \/ cache[t][d] > 0
    /\ IF c = "exit" /\ CachedCount(t, b) = 1
       THEN /\ threadCount' = [threadCount EXCEPT ![b] = @ - 1]
            /\ fastData'[t] # b /\ cache'[t][b] = 0
       ELSE threadCount' = threadCount
    /\ buggy' = FALSE

\* A hit in the fast cache.
LEMMA FastCacheHitFacts ==
    ASSUME SyncAssumption, IInv, NEW t \in Threads, NEW b \in Blocks, NEW o \in Objects,
           NEW c \in Calls, pc[t] = "idle", FastCacheHit(t, o, c, b)
    PROVE  Counted(t, c, b) /\ object[b] = o /\ fastData[t] = b
<1>h. TypeOK /\ CachesOK(t) BY DEF IInv
<1>1. fastData[t] = b /\ object[b] = o /\ b # NoBlock BY DEF FastCacheHit, InFastCache
<1>2. threadCount[b] > 0 BY <1>1, CachedFacts
<1>3. /\ fastCount[t] > 0 /\ fastCount[t] \in Nat /\ cache[t][b] = 0
      /\ threadCount[b] \in Nat
      /\ IsFiniteSet(Used(t)) /\ Cardinality(Used(t)) <= allocated[t]
  BY <1>h, <1>1 DEF CachesOK, TypeOK
<1>4. (buggy' = FALSE) /\ UNCHANGED <<cache, allocated>>
  <2>1. /\ buggy' = (threadCount[b] <= 0 \/ fastCount[t] <= 0)
        /\ UNCHANGED <<cache, allocated>>
    BY DEF FastCacheHit
  <2>2. ~(threadCount[b] <= 0 \/ fastCount[t] <= 0) BY <1>2, <1>3
  <2> QED BY <2>1, <2>2, Zenon
<1>5. Used(t)' = Used(t) BY <1>4 DEF Used
<1>6. CASE /\ c # "exit"
           /\ fastCount' = [fastCount EXCEPT ![t] = @ + 1]
           /\ UNCHANGED <<fastData, threadCount>>
  <2>1. fastCount' \in [Threads -> Nat] /\ fastCount'[t] = fastCount[t] + 1
    BY <1>h, <1>6 DEF TypeOK
  <2> QED BY <1>h, <1>1, <1>3, <1>4, <1>5, <1>6, <2>1 DEF Counted, CachedCount, TypeOK
<1>7. CASE /\ c = "exit" /\ fastCount[t] # 1
           /\ fastCount' = [fastCount EXCEPT ![t] = @ - 1]
           /\ UNCHANGED <<fastData, threadCount>>
  <2>1. fastCount' \in [Threads -> Nat] /\ fastCount'[t] = fastCount[t] - 1
    BY <1>h, <1>3, <1>7 DEF TypeOK
  <2> QED BY <1>h, <1>1, <1>3, <1>4, <1>5, <1>7, <2>1 DEF Counted, CachedCount, TypeOK
<1>8. CASE /\ c = "exit" /\ fastCount[t] = 1
           /\ fastCount' = [fastCount EXCEPT ![t] = 0]
           /\ fastData' = [fastData EXCEPT ![t] = NoBlock]
           /\ threadCount' = [threadCount EXCEPT ![b] = @ - 1]
  <2>1. /\ fastCount' \in [Threads -> Nat] /\ fastCount'[t] = 0 /\ fastData'[t] = NoBlock
        /\ fastData' \in [Threads -> Blocks \cup {NoBlock}]
    BY <1>h, <1>8 DEF TypeOK
  <2>2. \A d \in Blocks : d # NoBlock BY DEF SyncAssumption
  <2> QED BY <1>h, <1>1, <1>3, <1>4, <1>5, <1>8, <2>1, <2>2
          DEF Counted, CachedCount, TypeOK
<1> QED BY <1>1, <1>6, <1>7, <1>8 DEF FastCacheHit

\* A hit in the list cache.
LEMMA CacheHitFacts ==
    ASSUME SyncAssumption, IInv, NEW t \in Threads, NEW b \in Blocks, NEW o \in Objects,
           NEW c \in Calls, pc[t] = "idle", CacheHit(t, o, c, b)
    PROVE  Counted(t, c, b) /\ object[b] = o /\ cache[t][b] > 0
<1>h. TypeOK /\ CachesOK(t) BY DEF IInv
<1>1. /\ cache[t][b] > 0 /\ object[b] = o /\ fastData[t] # b
      /\ allocated' = [allocated EXCEPT ![t] = fetch_cache(t, FALSE)]
      /\ cache' = [cache EXCEPT ![t][b] = IF c = "exit" THEN @ - 1 ELSE @ + 1]
      /\ threadCount' = IF c = "exit" /\ cache[t][b] = 1
                        THEN [threadCount EXCEPT ![b] = @ - 1] ELSE threadCount
      /\ buggy' = (threadCount[b] <= 0) /\ UNCHANGED <<fastData, fastCount>>
  BY SyncAssumption DEF CacheHit, InFastCache, InCache, Used, SyncAssumption
<1>2. threadCount[b] > 0 /\ threadCount[b] \in Nat
  BY <1>h, <1>1, CachedFacts DEF TypeOK
<1>3. buggy' = FALSE
  <2>1. (threadCount[b] <= 0) = FALSE BY <1>2
  <2>2. buggy' = (threadCount[b] <= 0) BY <1>1, Zenon
  <2> QED BY <2>1, <2>2, Zenon
<1>4. cache[t][b] \in Nat BY <1>h DEF TypeOK
<1>5. /\ cache' \in [Threads -> [Blocks -> Nat]]
      /\ cache'[t][b] = IF c = "exit" THEN cache[t][b] - 1 ELSE cache[t][b] + 1
      /\ \A d \in Blocks \ {b} : cache'[t][d] = cache[t][d]
  <2> DEFINE n == IF c = "exit" THEN cache[t][b] - 1 ELSE cache[t][b] + 1
  <2>1. n \in Nat BY <1>1, <1>4
  <2>2. cache' = [cache EXCEPT ![t][b] = n] BY <1>1
  <2> HIDE DEF n
  <2>3. /\ cache' \in [Threads -> [Blocks -> Nat]] /\ cache'[t][b] = n
        /\ \A d \in Blocks \ {b} : cache'[t][d] = cache[t][d]
    BY <1>h, <2>1, <2>2 DEF TypeOK
  <2> QED BY <2>3 DEF n
<1>6. /\ IsFiniteSet(Used(t)) /\ Cardinality(Used(t)) \in Nat /\ allocated[t] \in Nat
      /\ Cardinality(Used(t)) <= allocated[t]
  BY <1>h, FS_CardinalityType DEF CachesOK, TypeOK
<1>7. /\ allocated' \in [Threads -> Nat] /\ Cardinality(Used(t)) <= allocated'[t]
      /\ allocated'[t] \in Nat
  <2>1. fetch_cache(t, FALSE) \in Nat /\ Cardinality(Used(t)) <= fetch_cache(t, FALSE)
    BY <1>6 DEF fetch_cache
  <2> QED BY <1>h, <1>1, <2>1 DEF TypeOK
<1>8. Used(t)' \subseteq Used(t) BY <1>1, <1>5 DEF Used
<1>9. IsFiniteSet(Used(t)') /\ Cardinality(Used(t)') <= allocated'[t]
  <2>1. /\ IsFiniteSet(Used(t)') /\ Cardinality(Used(t)') \in Nat
        /\ Cardinality(Used(t)') <= Cardinality(Used(t))
    BY <1>6, <1>8, CardinalityFacts
  <2> QED BY <1>6, <1>7, <2>1
<1>10. fastData'[t] # NoBlock => fastCount'[t] > 0 /\ cache'[t][fastData'[t]] = 0
  BY <1>h, <1>1, <1>5 DEF CachesOK, TypeOK
<1>11. /\ CachedCount(t, b)' = IF c = "exit" THEN CachedCount(t, b) - 1
                               ELSE CachedCount(t, b) + 1
       /\ \A d \in Blocks \ {b} : CachedCount(t, d)' = CachedCount(t, d)
       /\ CachedCount(t, b) = cache[t][b]
  BY <1>1, <1>5 DEF CachedCount
<1>12. \A d \in Blocks : fastData'[t] = d \/ cache'[t][d] > 0 =>
                             fastData[t] = d \/ cache[t][d] > 0
  BY <1>1, <1>5
<1>13. IF c = "exit" /\ CachedCount(t, b) = 1
       THEN /\ threadCount' = [threadCount EXCEPT ![b] = @ - 1]
            /\ fastData'[t] # b /\ cache'[t][b] = 0
       ELSE threadCount' = threadCount
  BY <1>1, <1>5, <1>11
<1> QED BY <1>h, <1>1, <1>3, <1>5, <1>7, <1>9, <1>10, <1>11, <1>12, <1>13
        DEF Counted, TypeOK

\* A call on an object whose block is in one of the caches.
LEMMA CallCachedInv ==
    ASSUME SyncAssumption, IInv, NEW t \in Threads, NEW o \in Objects, NEW c \in Calls,
           CallCached(t, o, c)
    PROVE  IInv'
<1>h. TypeOK /\ CachesOK(t) /\ CallOK(t) /\ LocksCached BY DEF IInv
<1>1. PICK b \in Blocks : /\ FastCacheHit(t, o, c, b) \/ CacheHit(t, o, c, b)
                          /\ result' = [result EXCEPT ![t] = b]
  BY DEF CallCached
<1>2. /\ pc[t] = "idle" /\ pc' = [pc EXCEPT ![t] = "mutex"]
      /\ call' = [call EXCEPT ![t] = c] /\ obj' = [obj EXCEPT ![t] = o]
      /\ UNCHANGED <<object, mutexVars, listVars, walkVars, inside>>
  BY DEF CallCached, MayCall, Start, Goto
<1> USE DEF mutexVars, listVars, walkVars
<1>3. Counted(t, c, b) /\ object[b] = o /\ (fastData[t] = b \/ cache[t][b] > 0)
  BY <1>1, <1>2, FastCacheHitFacts, CacheHitFacts
<1>4. /\ threadCount[b] > 0 /\ t \in InUse(b)
      /\ IF owner[b] = t
         THEN /\ inside[t][o] = depth[b]
              /\ \A d \in Blocks : owner[d] = t /\ object[d] = o => d = b
         ELSE inside[t][o] = 0
  BY <1>2, <1>3, CachedFacts
<1>5. OthersKeep(t) BY <1>h, Own DEF Program
<1>6. pc'[t] = "mutex" /\ call'[t] = c /\ obj'[t] = o /\ result'[t] = b
  BY <1>h, <1>1, <1>2 DEF TypeOK
<1>7. threadCount[b] \in Nat /\ threadCount[b] - 1 \in Nat BY <1>h, <1>4 DEF TypeOK
<1>8. threadCount' \in [Blocks -> Nat]
  <2>1. \/ threadCount' = threadCount
        \/ threadCount' = [threadCount EXCEPT ![b] = threadCount[b] - 1]
    BY <1>3 DEF Counted
  <2> QED BY <1>h, <1>7, <2>1 DEF TypeOK
<1>9. TypeOK' BY <1>h, <1>1, <1>2, <1>3, <1>8 DEF TypeOK, PCs, Counted
<1>10. CachesOK(t)' BY <1>3, <1>6 DEF CachesOK, Looking, Counted
<1>11. CallOK(t)' BY <1>h, <1>2, <1>3, <1>4, <1>6 DEF CallOK, Looking
<1>12. CountsOK'
  <2> SUFFICES ASSUME NEW d \in Blocks
               PROVE  /\ Cardinality(InUse(d)') <= threadCount'[d]
                      /\ object'[d] = NoObject => threadCount'[d] = 0
    BY DEF CountsOK
  <2>1. /\ threadCount[d] \in Nat /\ Cardinality(InUse(d)) <= threadCount[d]
        /\ object[d] = NoObject => threadCount[d] = 0
    BY <1>h DEF IInv, CountsOK, TypeOK
  <2>2. InUse(d)' \subseteq InUse(d)
    <3> SUFFICES ASSUME NEW u \in InUse(d)' PROVE u \in InUse(d) OBVIOUS
    <3>1. u \in Threads BY DEF InUse, Users
    <3>2. CASE u # t
      <4>1. Locals(u)' = Locals(u) BY <1>5, <3>1, <3>2 DEF OthersKeep
      <4> QED BY <1>2, <3>1, <4>1 DEF Locals, InUse, Users
    <3>3. CASE u = t
      BY <1>3, <1>6, <3>3 DEF InUse, Users, Counted
    <3> QED BY <3>2, <3>3
  <2>3. /\ Cardinality(InUse(d)') \in Nat /\ Cardinality(InUse(d)) \in Nat
        /\ Cardinality(InUse(d)') <= Cardinality(InUse(d))
    BY <2>2, InUseFinite, CardinalityFacts
  <2>4. CASE c = "exit" /\ CachedCount(t, b) = 1 /\ d = b
    <3>1. threadCount'[b] = threadCount[b] - 1 /\ fastData'[t] # b /\ cache'[t][b] = 0
      BY <1>h, <1>3, <2>4 DEF Counted, TypeOK
    <3>2. t \notin InUse(d)' BY <1>6, <2>4, <3>1 DEF InUse, Users
    <3>3. Cardinality(InUse(d)') + 1 <= Cardinality(InUse(d))
      BY <1>4, <2>2, <2>4, <3>2, InUseFinite, CardinalityFacts
    <3> QED BY <1>2, <1>3, <2>1, <2>3, <2>4, <3>1, <3>3, SyncAssumption DEF SyncAssumption
  <2>5. CASE ~(c = "exit" /\ CachedCount(t, b) = 1 /\ d = b)
    <3>1. threadCount'[d] = threadCount[d] BY <1>h, <1>3, <2>5 DEF Counted, TypeOK
    <3> QED BY <1>2, <2>1, <2>3, <3>1
  <2> QED BY <2>4, <2>5
<1>13. \A d \in Blocks : Locks(t, d)' + Pending(t, d)' <= CachedCount(t, d)'
  <2> SUFFICES ASSUME NEW d \in Blocks
               PROVE  Locks(t, d)' + Pending(t, d)' <= CachedCount(t, d)'
    OBVIOUS
  <2>1. /\ Locks(t, d) + Pending(t, d) <= CachedCount(t, d)
        /\ Pending(t, d) = 0 /\ Locks(t, d)' = Locks(t, d)
    BY <1>2 , <1>h DEF LocksCached, Pending, Locks
  <2>2. Pending(t, d)' = IF d = b THEN IF c = "exit" THEN -1 ELSE 1 ELSE 0
    BY <1>6 DEF Pending
  <2>3. CachedCount(t, d)' = IF d = b THEN IF c = "exit" THEN CachedCount(t, d) - 1
                                          ELSE CachedCount(t, d) + 1
                             ELSE CachedCount(t, d)
    BY <1>3 DEF Counted
  <2>4. CachedCount(t, d) \in Nat /\ Locks(t, d) \in Nat
    BY <1>h DEF TypeOK, CachedCount, Locks
  <2> QED BY <2>1, <2>2, <2>3, <2>4
<1>14. \A u \in Threads \ {t} : pc[u] = "walk" =>
          /\ listLock'[MyStripe(u)] = u
          /\ firstUnused[u] # NoBlock => threadCount'[firstUnused[u]] = 0
  <2> SUFFICES ASSUME NEW u \in Threads \ {t}, pc[u] = "walk"
               PROVE  /\ listLock'[MyStripe(u)] = u
                      /\ firstUnused[u] # NoBlock => threadCount'[firstUnused[u]] = 0
    OBVIOUS
  <2>1. CallOK(u) BY DEF IInv
  <2>2. /\ listLock'[MyStripe(u)] = u
        /\ firstUnused[u] # NoBlock =>
              firstUnused[u] # b /\ threadCount[firstUnused[u]] = 0 /\ firstUnused[u] \in Blocks
    BY <1>h, <1>2, <1>4, <2>1 DEF CallOK, TypeOK
  <2> QED BY <1>h, <1>3, <2>2 DEF Counted, TypeOK
<1>15. ~buggy' /\ ~LastExit(t, obj[t]) BY <1>2, <1>3 DEF Counted, LastExit
<1> QED BY <1>2, <1>5, <1>6, <1>9, <1>10, <1>11, <1>12, <1>13, <1>14, <1>15, LocalStep

-----------------------------------------------------------------------------
(* Binding a block.                                                        *)

\* Who still owns a block that nobody uses is about to unlock it.
LEMMA OwnerLeaves ==
    ASSUME SyncAssumption, IInv, NEW b \in Blocks, threadCount[b] = 0, owner[b] # NoThread
    PROVE  /\ owner[b] \in Threads /\ LastExit(owner[b], obj[owner[b]])
           /\ result[owner[b]] = b
<1>h. TypeOK /\ OwnersOK /\ LocksCached BY DEF IInv
<1> DEFINE u == owner[b]
<1>1. u \in Threads BY <1>h DEF TypeOK
<1>2. InUse(b) = {} BY UsedIsCounted
<1>3. pc[u] # "gone" /\ fastData[u] # b /\ ~(cache[u][b] > 0)
  BY <1>1, <1>2 DEF InUse, Users
<1>4. CachedCount(u, b) = 0 BY <1>h, <1>1, <1>3 DEF CachedCount, TypeOK
<1>5. depth[b] \in Nat /\ depth[b] > 0 /\ Locks(u, b) = depth[b]
  BY <1>h DEF OwnersOK, TypeOK, Locks
<1>6. Locks(u, b) + Pending(u, b) <= CachedCount(u, b) BY <1>h, <1>1, <1>3 DEF LocksCached
<1>7. pc[u] = "mutex" /\ result[u] = b /\ call[u] = "exit" /\ depth[b] = 1
  BY <1>4, <1>5, <1>6 DEF Pending
<1>8. CallOK(u) BY <1>1 DEF IInv
<1>9. inside[u][obj[u]] = 1 BY <1>7, <1>8 DEF CallOK
<1> QED BY <1>1, <1>7, <1>9 DEF LastExit

\* At the end of the walk, block b without users, in the list or new, becomes that of
\* the object.
LEMMA BindInv ==
    ASSUME SyncAssumption, IInv, NEW t \in Threads, NEW b \in Blocks,
           WalkReuses(t) \/ WalkAllocates(t),
           threadCount[b] = 0, b \in list[MyStripe(t)] \/ object[b] = NoObject,
           Bind(t, b), Done(t, b), list' = [list EXCEPT ![MyStripe(t)] = @ \cup {b}]
    PROVE  IInv'
<1>h. TypeOK /\ ListsOK /\ CachesOK(t) /\ CallOK(t) /\ LocksCached /\ OwnersOK /\ InsideOK
  BY DEF IInv
<1>1. /\ EndOfList(t) /\ pc[t] = "walk" /\ call[t] # "exit"
      /\ UNCHANGED <<mutexVars, cacheVars, callVars, inside, buggy>>
  BY DEF WalkReuses, WalkAllocates, EndOfList
<1> USE DEF mutexVars, cacheVars, callVars
<1>2. OthersKeep(t) BY <1>h, Own DEF Runtime
<1>3. /\ MyStripe(t) \in Stripes /\ obj[t] \in Objects
      /\ pc' = [pc EXCEPT ![t] = "found"] /\ pc'[t] = "found"
      /\ result' = [result EXCEPT ![t] = b] /\ result'[t] = b
      /\ seen'[t] = {} /\ firstUnused'[t] = NoBlock
      /\ listLock' \in [Stripes -> Threads \cup {NoThread}]
      /\ seen' \in [Threads -> SUBSET Blocks]
      /\ firstUnused' \in [Threads -> Blocks \cup {NoBlock}]
      /\ result' \in [Threads -> Blocks \cup {NoBlock}]
      /\ pc' \in [Threads -> PCs]
      /\ \A u \in Threads \ {t} : pc[u] = "walk" =>
            listLock'[MyStripe(u)] = u /\ MyStripe(u) # MyStripe(t)
  BY <1>1, DoneKeeps
<1>4. /\ object'[b] = obj[t] /\ threadCount'[b] = 1
      /\ \A d \in Blocks \ {b} : object'[d] = object[d] /\ threadCount'[d] = threadCount[d]
  BY <1>h DEF Bind, TypeOK
<1>5. /\ \A d \in list[MyStripe(t)] : d \in list'[MyStripe(t)]
      /\ b \in list'[MyStripe(t)]
      /\ \A s \in Stripes, d \in Blocks :
            d \in list'[s] <=> d \in list[s] \/ (d = b /\ s = MyStripe(t))
  BY <1>h, <1>3 DEF TypeOK
<1>6. obj[t] # NoObject /\ MyStripe(t) = Stripe[obj[t]] BY <1>3 DEF SyncAssumption, MyStripe
<1>7. \A d \in Blocks : object[d] # obj[t]
  BY <1>h, <1>1, <1>6 DEF ListsOK, EndOfList, CallOK
<1>8. InUse(b) = {} BY UsedIsCounted
<1>9. \A s \in Stripes : b \in list[s] => s = MyStripe(t)
  BY <1>h, <1>3 DEF ListsOK, SyncAssumption
<1>10. \A u \in Threads : \A q : LastExit(u, q) <=> LastExit(u, q)'
  <2> SUFFICES ASSUME NEW u \in Threads, NEW q PROVE LastExit(u, q) <=> LastExit(u, q)'
    OBVIOUS
  <2>1. CASE u = t BY <1>1, <1>3, <2>1 DEF LastExit
  <2>2. CASE u # t
    <3>1. Locals(u)' = Locals(u) BY <1>2, <2>2 DEF OthersKeep
    <3> QED BY <3>1 DEF Locals, LastExit
  <2> QED BY <2>1, <2>2
<1>11. TypeOK'
  <2>1. object' \in [Blocks -> Objects \cup {NoObject}] /\ threadCount' \in [Blocks -> Nat]
    BY <1>h, <1>3 DEF Bind, TypeOK
  <2>2. list' \in [Stripes -> SUBSET Blocks] BY <1>h, <1>3 DEF TypeOK
  <2> QED BY <1>h, <1>1, <1>3, <2>1, <2>2 DEF TypeOK
<1>12. ListsOK'
  <2>1. ASSUME NEW d \in Blocks, object'[d] # NoObject
        PROVE  d \in list'[Stripe[object'[d]]]
    <3>1. CASE d = b BY <1>4, <1>5, <1>6, <3>1
    <3>2. CASE d # b
      <4>1. object'[d] = object[d] /\ object[d] \in Objects /\ d \in list[Stripe[object[d]]]
        BY <1>h, <1>4, <2>1, <3>2 DEF ListsOK, TypeOK
      <4>2. Stripe[object[d]] \in Stripes BY <4>1 DEF SyncAssumption
      <4> QED BY <1>5, <4>1, <4>2
    <3> QED BY <3>1, <3>2
  <2>2. ASSUME NEW s \in Stripes, NEW d \in list'[s]
        PROVE  object'[d] \in Objects /\ Stripe[object'[d]] = s
    <3>1. d \in Blocks BY <1>11 DEF TypeOK
    <3>2. CASE d = b BY <1>3, <1>4, <1>5, <1>6, <1>9, <3>1, <3>2
    <3>3. CASE d # b
      <4>1. d \in list[s] BY <1>5, <3>1, <3>3
      <4> QED BY <1>h, <1>4, <3>1, <3>3, <4>1 DEF ListsOK
    <3> QED BY <3>2, <3>3
  <2>3. ASSUME NEW c \in Blocks, NEW d \in Blocks,
               object'[c] = object'[d], object'[c] # NoObject
        PROVE  c = d
    BY <1>h, <1>4, <1>7, <2>3 DEF ListsOK
  <2> QED BY <2>1, <2>2, <2>3 DEF ListsOK
<1>13. CountsOK'
  <2> SUFFICES ASSUME NEW d \in Blocks
               PROVE  /\ Cardinality(InUse(d)') <= threadCount'[d]
                      /\ object'[d] = NoObject => threadCount'[d] = 0
    BY DEF CountsOK
  <2>1. /\ threadCount[d] \in Nat /\ Cardinality(InUse(d)) <= threadCount[d]
        /\ object[d] = NoObject => threadCount[d] = 0
    BY <1>h DEF IInv, CountsOK, TypeOK
  <2>2. /\ InUse(d)' \subseteq InUse(d) \cup {t}
        /\ d # b => InUse(d)' \subseteq InUse(d)
    BY <1>h, <1>1, <1>3 DEF InUse, Users, TypeOK
  <2>3. /\ Cardinality(InUse(d)') \in Nat /\ Cardinality(InUse(d)) \in Nat
        /\ Cardinality(InUse(d)') <= Cardinality(InUse(d)) + 1
        /\ d # b => Cardinality(InUse(d)') <= Cardinality(InUse(d))
    BY <2>2, InUseFinite, CardinalityFacts
  <2> QED BY <1>4, <1>6, <2>1, <2>3
<1>14. LocksCached'
  <2> SUFFICES ASSUME NEW u \in Threads, NEW d \in Blocks, pc'[u] # "gone"
               PROVE  Locks(u, d)' + Pending(u, d)' <= CachedCount(u, d)'
    BY DEF LocksCached
  <2>1. pc[u] # "gone" /\ Pending(u, d)' = Pending(u, d)
    <3>1. CASE u = t BY <1>1, <1>3, <3>1 DEF Pending
    <3>2. CASE u # t
      <4>1. Locals(u)' = Locals(u) BY <1>2, <3>2 DEF OthersKeep
      <4> QED BY <4>1 DEF Locals, Pending
    <3> QED BY <3>1, <3>2
  <2> QED BY <1>h, <1>1, <2>1 DEF LocksCached, Locks, CachedCount
<1>15. \A u \in Threads : CachesOK(u)'
  <2> SUFFICES ASSUME NEW u \in Threads PROVE CachesOK(u)' OBVIOUS
  <2>1. CachesOK(u) BY DEF IInv
  <2>2. /\ Looking(u)' <=> Looking(u)
        /\ pc'[u] = "gone" <=> pc[u] = "gone"
    <3>1. CASE u = t BY <1>1, <1>3, <3>1 DEF Looking
    <3>2. CASE u # t
      <4>1. Locals(u)' = Locals(u) BY <1>2, <3>2 DEF OthersKeep
      <4> QED BY <4>1 DEF Locals, Looking
    <3> QED BY <3>1, <3>2
  <2>3. Used(u)' = Used(u) /\ fastData[u] # b /\ b \notin Used(u)
    BY <1>1, <1>8 DEF Used, InUse, Users
  <2>4. \A d \in Blocks : (fastData[u] = d \/ d \in Used(u)) => object'[d] = object[d]
    BY <1>4, <2>3
  <2> QED BY <1>1, <2>1, <2>2, <2>3, <2>4 DEF CachesOK
<1>16. CallOK(t)' BY <1>1, <1>3, <1>4 DEF CallOK, Looking
<1>17. ASSUME NEW u \in Threads \ {t} PROVE CallOK(u)'
  <2>1. Locals(u)' = Locals(u) BY <1>2 DEF OthersKeep
  <2>2. CallOK(u) BY DEF IInv
  <2>3. CASE pc[u] = "walk"
    <3>1. /\ listLock'[MyStripe(u)] = u /\ MyStripe(u) # MyStripe(t)
          /\ MyStripe(u)' = MyStripe(u)
      BY <1>1, <1>3, <2>3 DEF MyStripe
    <3>2. obj[u] # obj[t] /\ obj[u] \in Objects /\ MyStripe(u) \in Stripes
      BY <2>2, <2>3, <3>1 DEF MyStripe, CallOK, SyncAssumption
    <3>3. \A d \in seen[u] : object'[d] # obj[u]
      BY <1>h, <1>4, <2>2, <2>3, <3>2 DEF CallOK, TypeOK
    <3>4. firstUnused[u] # NoBlock =>
              firstUnused[u] \in list'[MyStripe(u)] /\ threadCount'[firstUnused[u]] = 0
      <4> SUFFICES ASSUME firstUnused[u] # NoBlock
                   PROVE  firstUnused[u] \in list'[MyStripe(u)] /\ threadCount'[firstUnused[u]] = 0
        OBVIOUS
      <4>1. /\ firstUnused[u] \in list[MyStripe(u)] /\ threadCount[firstUnused[u]] = 0
            /\ firstUnused[u] \in Blocks
        BY <1>h, <2>2, <2>3 DEF CallOK, TypeOK
      <4>2. firstUnused[u] # b BY <1>9, <3>1, <3>2, <4>1
      <4> QED BY <1>4, <1>5, <3>2, <4>1, <4>2
    <3> QED BY <2>1, <2>2, <2>3, <3>1, <3>3, <3>4 DEF CallOK, Locals, Looking
  <2>4. CASE pc[u] \in {"found", "mutex"} /\ call[u] # "exit"
    <3>1. result[u] \in Blocks BY <2>2, <2>4 DEF CallOK
    <3>2. result[u] # b
      <4> SUFFICES ASSUME result[u] = b PROVE FALSE OBVIOUS
      <4>1. pc[u] = "mutex" BY <1>8, <2>4 DEF InUse, Users
      <4>2. Locks(u, b) + Pending(u, b) <= CachedCount(u, b) /\ Pending(u, b) = 1
        BY <1>h, <2>4, <4>1 DEF LocksCached, Pending
      <4>3. Locks(u, b) \in Nat /\ CachedCount(u, b) \in Nat
        BY <1>h DEF TypeOK, Locks, CachedCount
      <4>4. CachedCount(u, b) > 0 BY <4>2, <4>3
      <4>5. u \in Users(b) BY <4>4 DEF CachedCount, Users
      <4> QED BY <1>8, <4>5 DEF InUse
    <3> QED BY <1>4, <2>1, <2>2, <2>4, <3>1, <3>2 DEF CallOK, Locals, Looking
  <2>5. CASE pc[u] = "mutex" /\ call[u] = "exit"
    <3>1. result[u] \in Blocks BY <2>2, <2>5 DEF CallOK
    <3>2. CASE owner[result[u]] # u
      BY <1>1, <2>1, <2>2, <2>5, <3>1, <3>2 DEF CallOK, Locals, Looking
    <3>3. CASE owner[result[u]] = u
      <4>1. object'[result[u]] # obj[u] => inside[u][object'[result[u]]] = 0
        <5>1. CASE result[u] # b BY <1>4, <2>2, <2>5, <3>1, <3>3, <5>1 DEF CallOK
        <5>2. CASE result[u] = b
          <6> SUFFICES ASSUME obj[u] # obj[t], inside[u][obj[t]] # 0 PROVE FALSE
            BY <1>4, <5>2
          <6>1. inside[u][obj[t]] > 0 BY <1>h, <1>3 DEF TypeOK
          <6>2. ~LastExit(u, obj[t]) BY DEF LastExit
          <6> QED BY <1>h, <1>3, <1>7, <6>1, <6>2 DEF InsideOK
        <5> QED BY <5>1, <5>2
      <4>2. \A d \in Blocks : owner[d] = u /\ object'[d] = obj[u] => d = result[u]
        <5> SUFFICES ASSUME NEW d \in Blocks, owner[d] = u, object'[d] = obj[u]
                     PROVE  d = result[u]
          OBVIOUS
        <5>1. CASE d = b BY <5>1, OwnerLeaves DEF SyncAssumption
        <5>2. CASE d # b BY <1>4, <2>2, <2>5, <3>3, <5>2 DEF CallOK
        <5> QED BY <5>1, <5>2
      <4> QED BY <1>1, <2>1, <2>2, <2>5, <3>1, <3>3, <4>1, <4>2 DEF CallOK, Locals, Looking
    <3> QED BY <3>2, <3>3
  <2>6. CASE pc[u] \notin {"walk", "found", "mutex"} \/ (pc[u] = "found" /\ call[u] = "exit")
    BY <2>1, <2>2, <2>6 DEF CallOK, Locals, Looking
  <2> QED BY <2>3, <2>4, <2>5, <2>6
<1>18. OwnersOK'
  <2> SUFFICES ASSUME NEW d \in Blocks, NEW u \in Threads, owner[d] = u
               PROVE  /\ depth[d] > 0 /\ object'[d] # NoObject
                      /\ \/ inside[u][object'[d]] = depth[d]
                         \/ LastExit(u, obj[u])' /\ result'[u] = d
    BY <1>h, <1>1 DEF OwnersOK
  <2>1. depth[d] > 0 /\ object[d] # NoObject
        /\ (inside[u][object[d]] = depth[d] \/ (LastExit(u, obj[u]) /\ result[u] = d))
    BY <1>h DEF OwnersOK
  <2>2. LastExit(u, obj[u]) => LastExit(u, obj[u])' /\ result'[u] = result[u]
    <3>1. LastExit(u, obj[u]) => u # t BY <1>1 DEF LastExit
    <3> QED BY <1>1, <1>2, <1>10, <3>1 DEF OthersKeep, Locals
  <2>3. CASE d # b BY <1>4, <2>1, <2>2, <2>3
  <2>4. CASE d = b
    <3>1. LastExit(u, obj[u]) /\ result[u] = b BY <2>4, OwnerLeaves DEF SyncAssumption
    <3> QED BY <1>4, <1>6, <2>1, <2>2, <2>4, <3>1
  <2> QED BY <2>3, <2>4
<1>19. InsideOK'
  <2> SUFFICES ASSUME NEW u \in Threads, NEW o \in Objects, inside[u][o] > 0, ~LastExit(u, o)
               PROVE  \E d \in Blocks : object'[d] = o /\ owner[d] = u
    BY <1>1, <1>10 DEF InsideOK
  <2>1. PICK d \in Blocks : object[d] = o /\ owner[d] = u BY <1>h DEF InsideOK
  <2>2. d # b
    <3> SUFFICES ASSUME d = b PROVE FALSE OBVIOUS
    <3>1. LastExit(u, obj[u]) /\ result[u] = b
      BY <2>1, OwnerLeaves DEF SyncAssumption
    <3>2. obj[u] # o BY <3>1
    <3>3. inside[u][o] = 0
      <4>1. CallOK(u) BY DEF IInv
      <4> QED BY <2>1, <3>1, <3>2, <4>1 DEF CallOK, LastExit
    <3> QED BY <3>3
  <2> QED BY <1>4, <2>1, <2>2
<1>20. ~buggy' BY <1>1 DEF IInv
<1> QED BY <1>11, <1>12, <1>13, <1>14, <1>15, <1>16, <1>17, <1>18, <1>19, <1>20 DEF IInv

\* An unused block of the list is rebound.
LEMMA WalkReusesInv ==
    ASSUME SyncAssumption, IInv, NEW t \in Threads, WalkReuses(t)
    PROVE  IInv'
<1>h. TypeOK /\ CallOK(t) BY DEF IInv
<1> DEFINE b == firstUnused[t]
<1>1. /\ pc[t] = "walk" /\ b # NoBlock /\ Bind(t, b) /\ Done(t, b) /\ list' = list
  BY DEF WalkReuses, EndOfList
<1>2. b \in Blocks /\ b \in list[MyStripe(t)] /\ threadCount[b] = 0
  BY <1>h, <1>1 DEF CallOK, TypeOK
<1>3. MyStripe(t) \in Stripes BY <1>h, <1>1 DEF CallOK, MyStripe, SyncAssumption
<1>4. list' = [list EXCEPT ![MyStripe(t)] = @ \cup {b}]
  <2>1. list[MyStripe(t)] = list[MyStripe(t)] \cup {b} BY <1>2
  <2> QED BY <1>h, <1>1, <1>3, <2>1 DEF TypeOK
<1> HIDE DEF b
<1> QED BY <1>1, <1>2, <1>4, BindInv

\* A new block is put in the list.
LEMMA WalkAllocatesInv ==
    ASSUME SyncAssumption, IInv, NEW t \in Threads, WalkAllocates(t)
    PROVE  IInv'
<1>h. TypeOK /\ CallOK(t) /\ ListsOK /\ CountsOK BY DEF IInv
<1>1. PICK b \in Blocks \ UNION {list[s] : s \in Stripes} :
          /\ Bind(t, b) /\ list' = [list EXCEPT ![MyStripe(t)] = @ \cup {b}] /\ Done(t, b)
  BY DEF WalkAllocates
<1>2. object[b] = NoObject
  <2> SUFFICES ASSUME object[b] # NoObject PROVE FALSE OBVIOUS
  <2>1. Stripe[object[b]] \in Stripes BY <1>h DEF TypeOK, SyncAssumption
  <2>2. b \in list[Stripe[object[b]]] BY <1>h DEF ListsOK
  <2> QED BY <1>1, <2>1, <2>2
<1>3. threadCount[b] = 0 BY <1>h, <1>2 DEF CountsOK
<1> QED BY <1>1, <1>2, <1>3, BindInv

-----------------------------------------------------------------------------
(* The mutex.                                                              *)

\* The mutex is locked: the thread is inside once more.
LEMMA MutexLockInv ==
    ASSUME SyncAssumption, IInv, NEW t \in Threads, MutexLock(t)
    PROVE  IInv'
<1>h. TypeOK /\ ListsOK /\ CachesOK(t) /\ CallOK(t) /\ LocksCached /\ OwnersOK /\ InsideOK
  BY DEF IInv
<1>1. /\ pc[t] = "mutex" /\ call[t] # "exit" /\ Available(t, result[t])
      /\ owner' = [owner EXCEPT ![result[t]] = t]
      /\ depth' = [depth EXCEPT ![result[t]] = @ + 1]
      /\ inside' = [inside EXCEPT ![t][obj[t]] = @ + 1]
      /\ pc' = [pc EXCEPT ![t] = "idle"] /\ call' = [call EXCEPT ![t] = "enter"]
      /\ obj' = [obj EXCEPT ![t] = NoObject] /\ result' = [result EXCEPT ![t] = NoBlock]
      /\ UNCHANGED <<blockVars, listVars, cacheVars, walkVars, buggy>>
  BY DEF MutexLock, Return, Goto
<1> USE DEF blockVars, listVars, cacheVars, walkVars
<1>2. OthersKeep(t) BY <1>h, Own DEF Runtime
<1>3. PICK r \in Blocks, o \in Objects : r = result[t] /\ o = obj[t] /\ object[r] = o
  BY <1>h, <1>1 DEF CallOK
<1>4. /\ owner'[r] = t /\ depth'[r] = depth[r] + 1
      /\ \A d \in Blocks \ {r} : owner'[d] = owner[d] /\ depth'[d] = depth[d]
      /\ owner[r] \in {t, NoThread}
  BY <1>h, <1>1, <1>3 DEF TypeOK, Available
<1>5. /\ inside' \in [Threads -> [Objects -> Nat]]
      /\ inside'[t][o] = inside[t][o] + 1
      /\ \A u \in Threads, q \in Objects : u # t \/ q # o => inside'[u][q] = inside[u][q]
  <2> DEFINE n == inside[t][o] + 1
  <2>1. n \in Nat BY <1>h DEF TypeOK
  <2>2. inside' = [inside EXCEPT ![t][o] = n] BY <1>1, <1>3
  <2> HIDE DEF n
  <2>3. /\ inside' \in [Threads -> [Objects -> Nat]] /\ inside'[t][o] = n
        /\ \A u \in Threads, q \in Objects : u # t \/ q # o => inside'[u][q] = inside[u][q]
    BY <1>h, <2>1, <2>2 DEF TypeOK
  <2> QED BY <2>3 DEF n
<1>6. pc'[t] = "idle" /\ \A u \in Threads : u # t => pc'[u] = pc[u] BY <1>h, <1>1 DEF TypeOK
<1>7. \A q : ~LastExit(t, q) /\ ~LastExit(t, q)' BY <1>1, <1>6 DEF LastExit
<1>8. /\ o # NoObject
      /\ \A d \in Blocks : object[d] = o => d = r
  BY <1>h, <1>3 DEF ListsOK, SyncAssumption
<1>9. inside[t][o] = depth[r]
  <2>1. CASE owner[r] = t
    BY <1>h, <1>3, <1>7, <2>1 DEF OwnersOK, SyncAssumption
  <2>2. CASE owner[r] = NoThread
    <3>1. depth[r] = 0 BY <1>h, <2>2 DEF OwnersOK
    <3>2. owner[r] # t BY <2>2 DEF SyncAssumption
    <3>3. ~(inside[t][o] > 0) BY <1>h, <1>7, <1>8, <3>2 DEF InsideOK
    <3> QED BY <1>h, <3>1, <3>3 DEF TypeOK
  <2> QED BY <1>4, <2>1, <2>2
<1>10. depth[r] \in Nat /\ \A d \in Blocks : depth[d] \in Nat BY <1>h DEF TypeOK
<1>11. TypeOK'
  <2>1. depth' \in [Blocks -> Nat] BY <1>h, <1>1, <1>3 DEF TypeOK
  <2> QED BY <1>h, <1>1, <1>3, <1>5, <2>1 DEF TypeOK, PCs, Calls
<1>12. ListsOK' BY <1>h, <1>1 DEF ListsOK
<1>13. CountsOK'
  <2> SUFFICES ASSUME NEW d \in Blocks, NEW u \in InUse(d)' PROVE u \in InUse(d)
    BY <1>1, CountsKept
  <2>1. u \in Threads BY DEF InUse, Users
  <2>2. CASE u # t
    <3>1. Locals(u)' = Locals(u) \/ Locals(u)' = Locals(u) BY <1>2, <2>1, <2>2 DEF OthersKeep
    <3>2. owner'[d] = u => owner[d] = u BY <1>4, <2>2
    <3> QED BY <1>1, <2>1, <3>1, <3>2 DEF Locals, InUse, Users
  <2>3. CASE u = t BY <1>1, <1>6, <2>3 DEF InUse, Users
  <2> QED BY <2>2, <2>3
<1>14. LocksCached'
  <2> SUFFICES ASSUME NEW u \in Threads, NEW d \in Blocks, pc'[u] # "gone"
               PROVE  Locks(u, d)' + Pending(u, d)' <= CachedCount(u, d)'
    BY DEF LocksCached
  <2>1. CachedCount(u, d)' = CachedCount(u, d) BY <1>1 DEF CachedCount
  <2>2. pc[u] # "gone" BY <1>1, <1>6
  <2>3. Locks(u, d) + Pending(u, d) <= CachedCount(u, d) BY <1>h, <2>2 DEF LocksCached
  <2>4. CASE u # t
    <3>1. Locals(u)' = Locals(u) BY <1>2, <2>4 DEF OthersKeep
    <3>2. Pending(u, d)' = Pending(u, d) BY <3>1 DEF Locals, Pending
    <3>3. Locks(u, d)' = Locks(u, d) BY <1>4, <2>4, SyncAssumption DEF Locks, SyncAssumption
    <3> QED BY <2>1, <2>3, <3>2, <3>3
  <2>5. CASE u = t
    <3>1. Pending(u, d)' = 0 BY <1>6, <2>5 DEF Pending
    <3>2. CASE d = r
      <4>1. Pending(u, d) = 1 BY <1>1, <1>3, <2>5, <3>2 DEF Pending
      <4>2. Locks(u, d)' = depth[r] + 1 BY <1>4, <2>5, <3>2 DEF Locks
      <4>3. Locks(u, d) = depth[r]
        <5>1. owner[r] # t => depth[r] = 0 BY <1>h, <1>4 DEF OwnersOK
        <5> QED BY <2>5, <3>2, <5>1 DEF Locks
      <4> QED BY <1>10, <2>1, <2>3, <3>1, <4>1, <4>2, <4>3
    <3>3. CASE d # r
      <4>1. Pending(u, d) = 0 BY <1>3, <2>5, <3>3 DEF Pending
      <4>2. Locks(u, d)' = Locks(u, d) BY <1>4, <3>3 DEF Locks
      <4> QED BY <2>1, <2>3, <3>1, <4>1, <4>2
    <3> QED BY <3>2, <3>3
  <2> QED BY <2>4, <2>5
<1>15. CachesOK(t)' BY <1>h, <1>1, <1>6 DEF CachesOK, Looking, Used
<1>16. CallOK(t)' BY <1>h, <1>1, <1>6 DEF CallOK, Looking
<1>17. ASSUME NEW u \in Threads \ {t} PROVE CachesOK(u)' /\ CallOK(u)'
  <2>1. Locals(u)' = Locals(u) BY <1>2 DEF OthersKeep
  <2>2. CachesOK(u) /\ CallOK(u) BY DEF IInv
  <2>3. CachesOK(u)' BY <1>1, <2>1, <2>2 DEF CachesOK, Locals, Looking, Used
  <2>4. \A d \in Blocks : /\ owner'[d] = u <=> owner[d] = u
                          /\ owner[d] = u => depth'[d] = depth[d]
    BY <1>4, SyncAssumption DEF SyncAssumption
  <2>5. CallOK(u)' BY <1>1, <2>1, <2>2, <2>4 DEF CallOK, Locals, Looking, MyStripe
  <2> QED BY <2>3, <2>5
<1>18. \A u \in Threads, q \in Objects : LastExit(u, q) => LastExit(u, q)' /\ u # t
  <2> SUFFICES ASSUME NEW u \in Threads, NEW q \in Objects, LastExit(u, q)
               PROVE  LastExit(u, q)' /\ u # t
    OBVIOUS
  <2>1. u # t BY <1>7
  <2>2. Locals(u)' = Locals(u) BY <1>2, <2>1 DEF OthersKeep
  <2> QED BY <2>1, <2>2 DEF LastExit, Locals
<1>19. OwnersOK'
  <2>1. ASSUME NEW d \in Blocks, owner'[d] = NoThread PROVE depth'[d] = 0
    BY <1>h, <1>4, <2>1 DEF OwnersOK, SyncAssumption
  <2>2. ASSUME NEW d \in Blocks, NEW u \in Threads, owner'[d] = u
        PROVE  /\ depth'[d] > 0 /\ object[d] # NoObject
               /\ \/ inside'[u][object[d]] = depth'[d]
                  \/ LastExit(u, obj[u])' /\ result'[u] = d
    <3>1. CASE d = r
      BY <1>3, <1>4, <1>5, <1>8, <1>9, <1>10, <2>2, <3>1
    <3>2. CASE d # r
      <4>1. owner[d] = u /\ depth'[d] = depth[d] BY <1>4, <2>2, <3>2
      <4>2. /\ depth[d] > 0 /\ object[d] # NoObject /\ object[d] \in Objects
            /\ inside[u][object[d]] = depth[d] \/ (LastExit(u, obj[u]) /\ result[u] = d)
        BY <1>h, <4>1 DEF OwnersOK, TypeOK
      <4>3. CASE inside[u][object[d]] = depth[d]
        <5>1. inside'[u][object[d]] = depth[d] BY <1>5, <1>8, <3>2, <4>2, <4>3
        <5> QED BY <4>1, <4>2, <5>1
      <4>4. CASE LastExit(u, obj[u]) /\ result[u] = d
        <5>1. u # t BY <1>7, <4>4
        <5>2. Locals(u)' = Locals(u) BY <1>2, <5>1 DEF OthersKeep
        <5>3. LastExit(u, obj[u])' /\ result'[u] = d BY <4>4, <5>2 DEF LastExit, Locals
        <5> QED BY <4>1, <4>2, <5>3
      <4> QED BY <4>2, <4>3, <4>4
    <3> QED BY <3>1, <3>2
  <2> QED BY <1>1, <2>1, <2>2 DEF OwnersOK
<1>20. InsideOK'
  <2> SUFFICES ASSUME NEW u \in Threads, NEW q \in Objects, inside'[u][q] > 0, ~LastExit(u, q)'
               PROVE  \E d \in Blocks : object[d] = q /\ owner'[d] = u
    BY <1>1 DEF InsideOK
  <2>1. CASE u = t /\ q = o BY <1>3, <1>4, <2>1
  <2>2. CASE ~(u = t /\ q = o)
    <3>1. inside[u][q] > 0 BY <1>5, <2>2
    <3>2. PICK d \in Blocks : object[d] = q /\ owner[d] = u
      BY <1>h, <1>18, <3>1 DEF InsideOK
    <3>3. owner'[d] = u BY <1>4, <3>2, SyncAssumption, <1>3, <2>2 DEF SyncAssumption
    <3> QED BY <3>2, <3>3
  <2> QED BY <2>1, <2>2
<1>21. ~buggy' BY <1>1 DEF IInv
<1> QED BY <1>11, <1>12, <1>13, <1>14, <1>15, <1>16, <1>17, <1>19, <1>20, <1>21 DEF IInv

\* The mutex is unlocked, once.
LEMMA MutexUnlockInv ==
    ASSUME SyncAssumption, IInv, NEW t \in Threads, MutexUnlock(t)
    PROVE  IInv'
<1>h. TypeOK /\ ListsOK /\ CachesOK(t) /\ CallOK(t) /\ LocksCached /\ OwnersOK /\ InsideOK
  BY DEF IInv
<1>1. /\ pc[t] = "mutex" /\ call[t] = "exit" /\ owner[result[t]] = t
      /\ depth' = [depth EXCEPT ![result[t]] = @ - 1]
      /\ owner' = IF depth[result[t]] = 1 THEN [owner EXCEPT ![result[t]] = NoThread]
                                          ELSE owner
      /\ inside' = [inside EXCEPT ![t][obj[t]] = @ - 1]
      /\ pc' = [pc EXCEPT ![t] = "idle"] /\ call' = [call EXCEPT ![t] = "enter"]
      /\ obj' = [obj EXCEPT ![t] = NoObject] /\ result' = [result EXCEPT ![t] = NoBlock]
      /\ UNCHANGED <<blockVars, listVars, cacheVars, walkVars, buggy>>
  BY DEF MutexUnlock, Return, Goto
<1> USE DEF blockVars, listVars, cacheVars, walkVars
<1>2. OthersKeep(t) BY <1>h, Own DEF Runtime
<1>3. PICK r \in Blocks, o \in Objects : r = result[t] /\ o = obj[t]
  BY <1>h, <1>1 DEF CallOK
<1>4. /\ owner[r] = t /\ inside[t][o] = depth[r] /\ depth[r] \in Nat /\ depth[r] > 0
      /\ object[r] # o => inside[t][object[r]] = 0
      /\ \A d \in Blocks : owner[d] = t /\ object[d] = o => d = r
  BY <1>h, <1>1, <1>3 DEF CallOK, OwnersOK, TypeOK, SyncAssumption
<1>5. /\ depth'[r] = depth[r] - 1
      /\ owner'[r] = IF depth[r] = 1 THEN NoThread ELSE t
      /\ \A d \in Blocks \ {r} : owner'[d] = owner[d] /\ depth'[d] = depth[d]
  BY <1>h, <1>1, <1>3, <1>4 DEF TypeOK
<1>6. /\ inside' \in [Threads -> [Objects -> Nat]]
      /\ inside'[t][o] = depth[r] - 1
      /\ \A u \in Threads, q \in Objects : u # t \/ q # o => inside'[u][q] = inside[u][q]
  <2> DEFINE n == inside[t][o] - 1
  <2>1. n \in Nat BY <1>4
  <2>2. inside' = [inside EXCEPT ![t][o] = n] BY <1>1, <1>3
  <2> HIDE DEF n
  <2>3. /\ inside' \in [Threads -> [Objects -> Nat]] /\ inside'[t][o] = n
        /\ \A u \in Threads, q \in Objects : u # t \/ q # o => inside'[u][q] = inside[u][q]
    BY <1>h, <2>1, <2>2 DEF TypeOK
  <2> QED BY <1>4, <2>3 DEF n
<1>7. pc'[t] = "idle" /\ \A u \in Threads : u # t => pc'[u] = pc[u] BY <1>h, <1>1 DEF TypeOK
<1>8. /\ object[r] # NoObject /\ object[r] \in Objects
      /\ depth[r] # 1 => object[r] = o
  <2>1. object[r] # NoObject BY <1>h, <1>4 DEF OwnersOK, SyncAssumption
  <2>2. inside[t][object[r]] = depth[r] \/ LastExit(t, o)
    BY <1>h, <1>3, <1>4 DEF OwnersOK, SyncAssumption
  <2> QED BY <1>h, <1>4, <2>1, <2>2 DEF LastExit, TypeOK
<1>11. TypeOK'
  <2>1. depth' \in [Blocks -> Nat] /\ owner' \in [Blocks -> Threads \cup {NoThread}]
    BY <1>h, <1>1, <1>3, <1>4 DEF TypeOK
  <2> QED BY <1>h, <1>1, <1>3, <1>6, <2>1 DEF TypeOK, PCs, Calls
<1>12. ListsOK' BY <1>h, <1>1 DEF ListsOK
<1>13. CountsOK'
  <2> SUFFICES ASSUME NEW d \in Blocks, NEW u \in InUse(d)' PROVE u \in InUse(d)
    BY <1>1, CountsKept
  <2>1. u \in Threads BY DEF InUse, Users
  <2>2. CASE u # t
    <3>1. Locals(u)' = Locals(u) BY <1>2, <2>1, <2>2 DEF OthersKeep
    <3>2. owner'[d] = u => owner[d] = u BY <1>5, <2>1, <2>2 DEF SyncAssumption
    <3> QED BY <1>1, <2>1, <3>1, <3>2 DEF Locals, InUse, Users
  <2>3. CASE u = t BY <1>1, <1>7, <2>3 DEF InUse, Users
  <2> QED BY <2>2, <2>3
<1>14. LocksCached'
  <2> SUFFICES ASSUME NEW u \in Threads, NEW d \in Blocks, pc'[u] # "gone"
               PROVE  Locks(u, d)' + Pending(u, d)' <= CachedCount(u, d)'
    BY DEF LocksCached
  <2>1. CachedCount(u, d)' = CachedCount(u, d) BY <1>1 DEF CachedCount
  <2>2. pc[u] # "gone" BY <1>1, <1>7
  <2>3. Locks(u, d) + Pending(u, d) <= CachedCount(u, d) BY <1>h, <2>2 DEF LocksCached
  <2>4. CASE u # t
    <3>1. Locals(u)' = Locals(u) BY <1>2, <2>4 DEF OthersKeep
    <3>2. Pending(u, d)' = Pending(u, d) BY <3>1 DEF Locals, Pending
    <3>3. Locks(u, d)' = Locks(u, d) BY <1>4, <1>5, <2>4 DEF Locks, SyncAssumption
    <3> QED BY <2>1, <2>3, <3>2, <3>3
  <2>5. CASE u = t
    <3>1. Pending(u, d)' = 0 BY <1>7, <2>5 DEF Pending
    <3>2. CASE d = r
      <4>1. Pending(u, d) = -1 BY <1>1, <1>3, <2>5, <3>2 DEF Pending
      <4>2. Locks(u, d)' = depth[r] - 1
        BY <1>4, <1>5, <2>5, <3>2 DEF Locks, SyncAssumption
      <4>3. Locks(u, d) = depth[r] BY <1>4, <2>5, <3>2 DEF Locks
      <4> QED BY <1>4, <2>1, <2>3, <3>1, <4>1, <4>2, <4>3
    <3>3. CASE d # r
      <4>1. Pending(u, d) = 0 BY <1>3, <2>5, <3>3 DEF Pending
      <4>2. Locks(u, d)' = Locks(u, d) BY <1>5, <3>3 DEF Locks
      <4> QED BY <2>1, <2>3, <3>1, <4>1, <4>2
    <3> QED BY <3>2, <3>3
  <2> QED BY <2>4, <2>5
<1>15. CachesOK(t)' BY <1>h, <1>1, <1>7 DEF CachesOK, Looking, Used
<1>16. CallOK(t)' BY <1>h, <1>1, <1>7 DEF CallOK, Looking
<1>17. ASSUME NEW u \in Threads \ {t} PROVE CachesOK(u)' /\ CallOK(u)'
  <2>1. Locals(u)' = Locals(u) BY <1>2 DEF OthersKeep
  <2>2. CachesOK(u) /\ CallOK(u) BY DEF IInv
  <2>3. CachesOK(u)' BY <1>1, <2>1, <2>2 DEF CachesOK, Locals, Looking, Used
  <2>4. \A d \in Blocks : /\ owner'[d] = u <=> owner[d] = u
                          /\ owner[d] = u => depth'[d] = depth[d]
    BY <1>4, <1>5, SyncAssumption DEF SyncAssumption
  <2>5. CallOK(u)' BY <1>1, <2>1, <2>2, <2>4 DEF CallOK, Locals, Looking, MyStripe
  <2> QED BY <2>3, <2>5
<1>18. \A u \in Threads, q \in Objects :
          u # t /\ LastExit(u, q) => LastExit(u, q)'
  <2> SUFFICES ASSUME NEW u \in Threads \ {t}, NEW q \in Objects, LastExit(u, q)
               PROVE  LastExit(u, q)'
    OBVIOUS
  <2>2. Locals(u)' = Locals(u) BY <1>2 DEF OthersKeep
  <2> QED BY <2>2 DEF LastExit, Locals
<1>19. OwnersOK'
  <2>1. ASSUME NEW d \in Blocks, owner'[d] = NoThread PROVE depth'[d] = 0
    <3>1. CASE d = r BY <1>5, <2>1, <3>1 DEF SyncAssumption
    <3>2. CASE d # r BY <1>h, <1>5, <2>1, <3>2 DEF OwnersOK
    <3> QED BY <3>1, <3>2
  <2>2. ASSUME NEW d \in Blocks, NEW u \in Threads, owner'[d] = u
        PROVE  /\ depth'[d] > 0 /\ object[d] # NoObject
               /\ \/ inside'[u][object[d]] = depth'[d]
                  \/ LastExit(u, obj[u])' /\ result'[u] = d
    <3>1. CASE d = r
      <4>1. depth[r] # 1 /\ u = t BY <1>5, <2>2, <3>1 DEF SyncAssumption
      <4>2. inside'[t][object[r]] = depth'[r] /\ depth'[r] > 0
        BY <1>4, <1>5, <1>6, <1>8, <4>1
      <4> QED BY <1>8, <3>1, <4>1, <4>2
    <3>2. CASE d # r
      <4>1. owner[d] = u /\ depth'[d] = depth[d] BY <1>5, <2>2, <3>2
      <4>2. /\ depth[d] > 0 /\ object[d] # NoObject /\ object[d] \in Objects
            /\ inside[u][object[d]] = depth[d] \/ (LastExit(u, obj[u]) /\ result[u] = d)
        BY <1>h, <4>1 DEF OwnersOK, TypeOK
      <4>3. CASE u = t
        <5>1. object[d] # o BY <1>4, <3>2, <4>1, <4>3
        <5>2. inside[t][object[d]] = depth[d] BY <1>3, <3>2, <4>2, <4>3
        <5>3. inside'[t][object[d]] = depth[d] BY <1>6, <4>2, <5>1, <5>2
        <5> QED BY <4>1, <4>2, <4>3, <5>3
      <4>4. CASE u # t
        <5>1. Locals(u)' = Locals(u) BY <1>2, <4>4 DEF OthersKeep
        <5>2. CASE inside[u][object[d]] = depth[d]
          <6>1. inside'[u][object[d]] = depth[d] BY <1>6, <4>2, <4>4, <5>2
          <6> QED BY <4>1, <4>2, <6>1
        <5>3. CASE LastExit(u, obj[u]) /\ result[u] = d
          <6>1. LastExit(u, obj[u])' /\ result'[u] = d BY <5>1, <5>3 DEF LastExit, Locals
          <6> QED BY <4>1, <4>2, <6>1
        <5> QED BY <4>2, <5>2, <5>3
      <4> QED BY <4>3, <4>4
    <3> QED BY <3>1, <3>2
  <2> QED BY <1>1, <2>1, <2>2 DEF OwnersOK
<1>20. InsideOK'
  <2> SUFFICES ASSUME NEW u \in Threads, NEW q \in Objects, inside'[u][q] > 0, ~LastExit(u, q)'
               PROVE  \E d \in Blocks : object[d] = q /\ owner'[d] = u
    BY <1>1 DEF InsideOK
  <2>1. CASE u = t /\ q = o
    <3>1. depth[r] # 1 BY <1>6, <2>1
    <3> QED BY <1>5, <1>8, <2>1, <3>1
  <2>2. CASE u = t /\ q # o
    <3>1. inside[t][q] > 0 BY <1>6, <2>2
    <3>2. ~LastExit(t, q) BY <1>3, <2>2 DEF LastExit
    <3>3. PICK d \in Blocks : object[d] = q /\ owner[d] = t
      BY <1>h, <3>1, <3>2 DEF InsideOK
    <3>4. d # r BY <1>4, <2>2, <3>1, <3>3
    <3> QED BY <1>5, <2>2, <3>3, <3>4
  <2>3. CASE u # t
    <3>1. inside[u][q] > 0 BY <1>6, <2>3
    <3>2. PICK d \in Blocks : object[d] = q /\ owner[d] = u
      BY <1>h, <1>18, <2>3, <3>1 DEF InsideOK
    <3>3. owner'[d] = u BY <1>4, <1>5, <2>3, <3>2
    <3> QED BY <3>2, <3>3
  <2> QED BY <2>1, <2>2, <2>3
<1>21. ~buggy' BY <1>1 DEF IInv
<1> QED BY <1>11, <1>12, <1>13, <1>14, <1>15, <1>16, <1>17, <1>19, <1>20, <1>21 DEF IInv

-----------------------------------------------------------------------------
(* The invariant and what follows from it.                                 *)

\* The invariant holds at the start.
LEMMA InitInv == ASSUME SyncAssumption, Init PROVE IInv
<1>1. TypeOK BY DEF Init, TypeOK, PCs, Calls
<1>2. ListsOK BY DEF Init, ListsOK
<1>3. CountsOK
  <2>1. \A b \in Blocks : InUse(b) = {} BY SyncAssumption DEF Init, InUse, Users, SyncAssumption
  <2>2. Cardinality({}) = 0 BY FS_EmptySet
  <2>3. \A b \in Blocks : threadCount[b] = 0 BY DEF Init
  <2> QED BY <2>1, <2>2, <2>3 DEF CountsOK
<1>4. LocksCached
  BY SyncAssumption DEF Init, LocksCached, Locks, Pending, CachedCount, SyncAssumption
<1>5. ASSUME NEW t \in Threads PROVE CachesOK(t) /\ CallOK(t)
  <2>1. Used(t) = {} BY DEF Init, Used
  <2>2. IsFiniteSet({}) /\ Cardinality({}) = 0 BY FS_EmptySet
  <2>3. CachesOK(t) BY <2>1, <2>2 DEF Init, CachesOK, Looking
  <2>4. CallOK(t) BY DEF Init, CallOK, Looking
  <2> QED BY <2>3, <2>4
<1>6. OwnersOK /\ InsideOK /\ ~buggy
  BY SyncAssumption DEF Init, OwnersOK, InsideOK, SyncAssumption
<1> QED BY <1>1, <1>2, <1>3, <1>4, <1>5, <1>6 DEF IInv

\* Every step preserves it.
LEMMA NextInv == ASSUME SyncAssumption, IInv, [Next]_vars PROVE IInv'
<1>1. CASE Next
  <2>1. PICK t \in Threads : Runtime(t) \/ Program(t) BY <1>1 DEF Next
  <2>2. ~buggy BY DEF IInv
  <2>3. CASE Program(t)
    BY <2>2, <2>3, CallCachedInv, CallUncachedInv, ThreadExitInv DEF Program
  <2>4. CASE Runtime(t)
    BY <2>4, LockListInv, WalkInv, WalkFindsNothingInv, WalkReusesInv, WalkAllocatesInv,
       FoundForEnterInv, ReturnsInv, MutexLockInv, MutexUnlockInv DEF Runtime
  <2> QED BY <2>1, <2>3, <2>4
<1>2. CASE UNCHANGED vars
  <2> USE <1>2 DEF vars, blockVars, mutexVars, listVars, cacheVars, callVars, walkVars
  <2>1. TypeOK' BY DEF IInv, TypeOK
  <2>2. ListsOK' BY DEF IInv, ListsOK
  <2>3. CountsOK'
    <3>1. ASSUME NEW b \in Blocks PROVE InUse(b)' = InUse(b) BY DEF InUse, Users
    <3> QED BY <3>1 DEF IInv, CountsOK
  <2>4. LocksCached'
    BY DEF IInv, LocksCached, Locks, Pending, CachedCount
  <2>5. ASSUME NEW t \in Threads PROVE CachesOK(t)' /\ CallOK(t)'
    <3>1. CachesOK(t) /\ CallOK(t) BY DEF IInv
    <3>2. CachesOK(t)' BY <3>1 DEF CachesOK, Looking, Used
    <3>3. CallOK(t)' BY <3>1 DEF CallOK, Looking, MyStripe
    <3> QED BY <3>2, <3>3
  <2>6. OwnersOK' /\ InsideOK' BY DEF IInv, OwnersOK, InsideOK, LastExit
  <2> QED BY <2>1, <2>2, <2>3, <2>4, <2>5, <2>6 DEF IInv
<1> QED BY <1>1, <1>2

\* The inductive invariant of id2data and of its callers.
LEMMA Invariance == SyncAssumption => (Spec => []IInv)
<1>1. SyncAssumption /\ Init => IInv BY InitInv
<1>2. SyncAssumption /\ IInv /\ [Next]_vars => IInv' BY NextInv
<1>3. SyncAssumption => SyncAssumption' BY DEF SyncAssumption
<1> QED BY <1>1, <1>2, <1>3, PTL DEF Spec

\* A thread in @synchronized(o) owns the mutex of o's block.
LEMMA SectionOwns ==
    ASSUME SyncAssumption, IInv, NEW t \in Threads, NEW o \in Objects, InSection(t, o)
    PROVE  \E b \in Blocks : object[b] = o /\ owner[b] = t
<1>1. inside[t][o] \in Nat BY DEF IInv, TypeOK
<1>2. inside[t][o] > 0 /\ ~LastExit(t, o) BY <1>1 DEF InSection, LastExit
<1> QED BY <1>2 DEF IInv, InsideOK

\* At most one thread at a time runs the code in @synchronized(o), although
\* id2data(RELEASE) gives up a block before its mutex is unlocked and another
\* thread may rebind it: o has one block, in the list of its stripe, and a thread
\* in the section owns that block's mutex.
THEOREM SectionsExclude == SyncAssumption => (Spec => []MutualExclusion)
<1>1. SyncAssumption /\ IInv => MutualExclusion
  <2> SUFFICES ASSUME SyncAssumption, IInv, NEW t \in Threads, NEW u \in Threads,
                      NEW o \in Objects, InSection(t, o), InSection(u, o)
               PROVE  t = u
    BY DEF MutualExclusion
  <2>1. PICK b \in Blocks : object[b] = o /\ owner[b] = t BY SectionOwns
  <2>2. PICK c \in Blocks : object[c] = o /\ owner[c] = u BY SectionOwns
  <2>3. b = c BY <2>1, <2>2 DEF IInv, ListsOK, SyncAssumption
  <2> QED BY <2>1, <2>2, <2>3
<1>2. SyncAssumption => SyncAssumption' BY DEF SyncAssumption
<1> QED BY <1>1, <1>2, Invariance, PTL

\* objc_sync_exit unlocks, and answers OBJC_SYNC_SUCCESS, exactly if the return
\* codes say that the thread is inside: its caches lead it to the mutex it locked.
THEOREM ExitsAreTruthful == SyncAssumption => (Spec => []ExitIsTruthful)
<1>1. SyncAssumption /\ IInv => ExitIsTruthful
  <2> SUFFICES ASSUME SyncAssumption, IInv, NEW t \in Threads,
                      pc[t] \notin {"idle", "gone"}, call[t] = "exit"
               PROVE  inside[t][obj[t]] > 0 <=> pc[t] = "mutex" /\ owner[result[t]] = t
    BY DEF ExitIsTruthful
  <2>1. TypeOK /\ CallOK(t) /\ OwnersOK BY DEF IInv
  <2>2. CASE pc[t] # "mutex"
    <3>1. Looking(t) BY <2>1, <2>2 DEF TypeOK, PCs, Looking
    <3> QED BY <2>1, <2>2, <3>1 DEF CallOK
  <2>3. CASE pc[t] = "mutex"
    <3>1. result[t] \in Blocks BY <2>1, <2>3 DEF CallOK
    <3>2. CASE owner[result[t]] = t
      <4>1. inside[t][obj[t]] = depth[result[t]] BY <2>1, <2>3, <3>2 DEF CallOK
      <4>2. depth[result[t]] > 0 BY <2>1, <3>1, <3>2 DEF OwnersOK
      <4> QED BY <2>3, <3>2, <4>1, <4>2
    <3>3. CASE owner[result[t]] # t
      <4>1. inside[t][obj[t]] = 0 BY <2>1, <2>3, <3>3 DEF CallOK
      <4> QED BY <3>3, <4>1
    <3> QED BY <3>2, <3>3
  <2> QED BY <2>2, <2>3
<1>2. SyncAssumption => SyncAssumption' BY DEF SyncAssumption
<1> QED BY <1>1, <1>2, Invariance, PTL

\* No _objc_fatal check of id2data fires, and the entries of a SyncCache fit into
\* the array that fetch_cache made.
THEOREM CachesStayIntact == SyncAssumption => (Spec => []CachesIntact)
<1>1. IInv => CachesIntact BY DEF IInv, CachesIntact, CachesOK
<1> QED BY <1>1, Invariance, PTL
=============================================================================
