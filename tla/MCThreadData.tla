---------------------------- MODULE MCThreadData ----------------------------
(***************************************************************************)
(* What a thread keeps for itself, one in each behaviour: its autorelease  *)
(* pages (part = "pool"), and its caches of @synchronized blocks with the  *)
(* lists of blocks that all threads share, for three programs:             *)
(*   reuse   three threads, one object each at a time, out of three in one *)
(*           stripe: blocks are rebound while threads that gave them up    *)
(*           still hold their mutex;                                       *)
(*   nested  two threads nest through three objects of two stripes, so     *)
(*           that the list cache fills and grows;                          *)
(*   wild    two threads also try to enter; one of them exits what it is   *)
(*           not inside of, the other one may terminate inside a section.  *)
(***************************************************************************)
EXTENDS AutoreleasePool, TLC

CONSTANTS r1, r2, r3, n1, n2, w1, w2,      \* threads
          o1, o2, o3, p1, p2, p3, q1, q2,  \* objects
          b1, b2, b3,                      \* blocks
          NoThread, NoObject, NoBlock

VARIABLES part,
    object, threadCount, owner, depth, list, listLock, fastData, fastCount,
    cache, allocated, pc, call, obj, seen, firstUnused, result, inside, buggy

syncVars == <<object, threadCount, owner, depth, list, listLock, fastData,
              fastCount, cache, allocated, pc, call, obj, seen, firstUnused, result,
              inside, buggy>>

Reuse ==
    INSTANCE Sync WITH Threads <- {r1, r2, r3}, Objects <- {o1, o2, o3},
        Blocks <- {b1, b2, b3}, Stripes <- {"s1"},
        Stripe <- [o \in {o1, o2, o3} |-> "s1"], SlotCount <- 1,
        MaxLocks <- 2, MaxInside <- 1, TryCallers <- {}, Unbalanced <- {}, Mortal <- {}

Nested ==
    INSTANCE Sync WITH Threads <- {n1, n2}, Objects <- {p1, p2, p3},
        Blocks <- {b1, b2, b3}, Stripes <- {"s1", "s2"},
        Stripe <- (p1 :> "s2") @@ (p2 :> "s1") @@ (p3 :> "s1"), SlotCount <- 1,
        MaxLocks <- 1, MaxInside <- 3, TryCallers <- {}, Unbalanced <- {}, Mortal <- {}

Wild ==
    INSTANCE Sync WITH Threads <- {w1, w2}, Objects <- {q1, q2},
        Blocks <- {b1, b2, b3}, Stripes <- {"s1"},
        Stripe <- [o \in {q1, q2} |-> "s1"], SlotCount <- 1,
        MaxLocks <- 2, MaxInside <- 1, TryCallers <- {w1, w2},
        Unbalanced <- {w1}, Mortal <- {w2}

\* What SyncProofs assumes of the constants.
ASSUME SyncConstants ==
    Reuse!SyncAssumption /\ Nested!SyncAssumption /\ Wild!SyncAssumption

\* The threads of the other programs are alike as well, but a larger group costs more
\* than it saves.
Symmetry == Permutations({b1, b2, b3}) \cup Permutations({q1, q2})

\* The default environment with and without coalescing, and each debugging
\* environment.  A -dealloc may leave pools behind, except under page-per-pool
\* debugging.  Coalescing needs four slots to look back over a boundary;
\* without it, three are enough and fill three pages.
AllSettings ==
    {[capacity |-> 3, debugPool |-> FALSE, debugMissing |-> FALSE,
      coalesce |-> "none", leaves |-> TRUE],
     [capacity |-> 4, debugPool |-> FALSE, debugMissing |-> FALSE,
      coalesce |-> "recent", leaves |-> TRUE],
     [capacity |-> 3, debugPool |-> FALSE, debugMissing |-> TRUE,
      coalesce |-> "last", leaves |-> TRUE],
     [capacity |-> 4, debugPool |-> TRUE, debugMissing |-> FALSE,
      coalesce |-> "recent", leaves |-> FALSE]}

\* One object is autoreleased often enough to fill pages, the others less.
Often == CHOOSE o \in Objects : TRUE
DueOften == [o \in Objects |-> IF o = Often THEN 4 ELSE 1]

\* With four slots to a page there is a second page all the same.
RecentDue == 3

-----------------------------------------------------------------------------
MCInit ==
    /\ Init
    /\ \/ part \in {"pool", "reuse"} /\ Reuse!Init
       \/ part = "nested" /\ Nested!Init
       \/ part = "wild" /\ Wild!Init
    /\ part # "pool" => setting.coalesce = "none"

MCNext ==
    \/ /\ part = "pool" /\ Next /\ UNCHANGED <<part, syncVars>>
       /\ setting.coalesce = "recent" => due'[Often] <= RecentDue
    \/ part = "reuse" /\ Reuse!Next /\ UNCHANGED <<part, vars>>
    \/ part = "nested" /\ Nested!Next /\ UNCHANGED <<part, vars>>
    \/ part = "wild" /\ Wild!Next /\ UNCHANGED <<part, vars>>

MCSpec == MCInit /\ [][MCNext]_<<part, vars, syncVars>>

-----------------------------------------------------------------------------
\* At most one thread at a time runs the code in @synchronized(o), although
\* id2data(RELEASE) gives up the block before the mutex is unlocked, and the
\* block may then be rebound while another one is made for o; nor do calls that
\* are not balanced let a thread in.  The inductive invariant from which SyncProofs
\* proves this is checked with it.
MutualExclusion ==
    /\ part = "reuse" => Reuse!MutualExclusion
    /\ part = "nested" => Nested!MutualExclusion
    /\ part = "wild" => Wild!MutualExclusion
    /\ part = "reuse" => Reuse!IInv
    /\ part = "nested" => Nested!IInv
    /\ part = "wild" => Wild!IInv

\* threadCount, "number of THREADS using this block": the threads that have it in
\* a cache, and the ones about to put it there, as long as calls are balanced.
ThreadCountExact ==
    /\ part = "reuse" => Reuse!ThreadCountExact
    /\ part = "nested" => Nested!ThreadCountExact

\* The list lock, the walk, and a mutex still held by a thread that is just
\* exiting another object, do not block the threads inside the runtime for
\* good: one of them can go on, or the program is inside some section.
NobodyStuck == part = "reuse" => Reuse!NobodyStuck

\* objc_sync_exit returns OBJC_SYNC_SUCCESS exactly if the thread is inside: its
\* cache still leads it to the mutex it locked, and to no other, whatever other
\* threads exit that they did not enter; none of id2data's _objc_fatal checks
\* fires, and the SyncCache never holds more than it has slots, though room is
\* made at the start of id2data and used at its end.
CachesTruthful ==
    /\ part = "nested" => Nested!ExitIsTruthful /\ Nested!CachesIntact
    /\ part = "wild" => Wild!ExitIsTruthful /\ Wild!CachesIntact
=============================================================================
