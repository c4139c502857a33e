--------------------------- MODULE ObjectRefCount ---------------------------
(***************************************************************************)
(* The reference count of one Objective-C object, as objc4-818.2 keeps it: *)
(* an inline count in the high bits of the isa word, updated by            *)
(* compare-and-swap, and the rest in the object's entry of a side table,   *)
(* updated under the side table's lock.  Threads call retain, release,     *)
(* objc_loadWeakRetained, objc_storeWeak, objc_destroyWeak,                *)
(* objc_setAssociatedObject and object_setClass on the object at once; the *)
(* thread whose release drops the last reference runs -dealloc.            *)
(*                                                                         *)
(* Sources: runtime/objc-object.h (isa and rootRetain .. rootDealloc),     *)
(* runtime/NSObject.mm (the side table), runtime/objc-os.h (exclusive load *)
(* and store), runtime/objc-runtime-new.mm (object_dispose).               *)
(*                                                                         *)
(* The strong references the program owns are the ghost tokens Refs:       *)
(* owner[r] is the thread that owns reference r.  A thread calls retain or *)
(* release only on an object it owns a reference to, which is the contract *)
(* of the memory management rules; everything else follows from the code.  *)
(***************************************************************************)
EXTENDS Integers, FiniteSets

CONSTANTS
    Threads,    \* the threads of the process
    Refs,       \* reference tokens; bounds the number of strong references
    Setters,    \* the threads that may call object_setClass on the object
    RC_HALF,    \* half the range of isa.extra_rc (2^7 on x86_64)
    NoThread,   \* the side table lock is free, or nobody owns a token
    NoRef       \* a call that neither adds nor removes a reference

ASSUME ConstantsAssumption ==
    /\ NoThread \notin Threads
    /\ NoRef \notin Refs
    /\ IsFiniteSet(Refs) /\ Refs # {}
    /\ Setters \subseteq Threads
    /\ RC_HALF \in Nat /\ RC_HALF >= 2

VARIABLES
    isa,        \* the object's isa word
    refcnts,    \* the object's entry in SideTable::refcnts
    lock,       \* owner of SideTable::slock
    weak,       \* the object has an entry in SideTable::weak_table
    assoc,      \* the object has an entry in the AssociationsHashMap
    owner,      \* ghost: the owner of each strong reference
    pc,         \* where each thread is in the runtime
    tryRetain,  \* locals of each thread's call: rootRetain(tryRetain, ...)
    full,       \* variant == RRVariant::Full
    locked,     \* sideTableLocked
    oldisa,     \* the isa word the loop last loaded
    newisa,     \* changeIsa's newisa, which survives its iterations
    ref,        \* ghost: the reference the call adds or removes
    deallocs,   \* how many times -dealloc was sent
    freed,      \* free(this) has been called
    crashed     \* os_unfair_lock_unlock aborted: the caller is not the owner

locals == <<tryRetain, full, locked, oldisa, newisa, ref>>
vars == <<isa, refcnts, lock, weak, assoc, owner, pc, locals,
          deallocs, freed, crashed>>

-----------------------------------------------------------------------------
(* The isa word.  A raw isa is a class pointer: every other bit is zero.   *)

RC_MAX == 2 * RC_HALF - 1

InlineCounts == 0 .. RC_MAX

IsaWord == [nonpointer        : BOOLEAN,
        extra_rc          : InlineCounts,
        has_sidetable_rc  : BOOLEAN,
        weakly_referenced : BOOLEAN,
        has_assoc         : BOOLEAN]

RawIsa == [nonpointer |-> FALSE, extra_rc |-> 0, has_sidetable_rc |-> FALSE,
           weakly_referenced |-> FALSE, has_assoc |-> FALSE]

SetCount(i, n, side) ==
    [nonpointer |-> i.nonpointer, extra_rc |-> n, has_sidetable_rc |-> side,
     weakly_referenced |-> i.weakly_referenced, has_assoc |-> i.has_assoc]

InitIsa == [nonpointer |-> TRUE, extra_rc |-> 1, has_sidetable_rc |-> FALSE,
            weakly_referenced |-> FALSE, has_assoc |-> FALSE]

IsDeallocating(i) == i.extra_rc = 0 /\ ~i.has_sidetable_rc

(* The side table entry.  rc is the count above the two flag bits; pinned  *)
(* is the sign bit, and rc means nothing (and is kept 0) once it is set.   *)

Entry == [present : BOOLEAN, rc : Int, deallocating : BOOLEAN,
          weakly_referenced : BOOLEAN, pinned : BOOLEAN]

NoEntry == [present |-> FALSE, rc |-> 0, deallocating |-> FALSE,
            weakly_referenced |-> FALSE, pinned |-> FALSE]

NewEntry == [present |-> TRUE, rc |-> 0, deallocating |-> FALSE,
             weakly_referenced |-> FALSE, pinned |-> FALSE]

Find(e) == IF e.present THEN e ELSE NewEntry

sidetable_retain(e) ==
    LET f == Find(e)
    IN  IF f.pinned THEN f ELSE [f EXCEPT !.rc = @ + 1]

sidetable_tryRetain(e) ==
    IF e.present /\ e.deallocating THEN e ELSE sidetable_retain(e)

\* Mutant: the test ignores SIDE_TABLE_DEALLOCATING.
LastRelease_EveryTime(e) == ~e.present \/ (e.rc = 0 /\ ~e.pinned)

\* refcnt < SIDE_TABLE_DEALLOCATING, or no entry at all.
LastRelease(e) ==
    ~e.present \/ (e.rc = 0 /\ ~e.deallocating /\ ~e.pinned)

sidetable_release(e) ==
    IF LastRelease(e) THEN [Find(e) EXCEPT !.deallocating = TRUE]
    ELSE IF e.pinned  THEN e
    ELSE IF e.rc = 0  THEN [e EXCEPT !.pinned = TRUE]   \* the count wraps
    ELSE [e EXCEPT !.rc = @ - 1]

\* Mutant: one count is lost on the way.
addExtraRC_LosesOne(e, delta_rc) == [Find(e) EXCEPT !.rc = @ + delta_rc - 1]

sidetable_addExtraRC_nolock(e, delta_rc) == [Find(e) EXCEPT !.rc = @ + delta_rc]

\* borrow.borrowed is delta_rc, or 0 if there is nothing to borrow.
CanBorrow(e) == e.present /\ e.rc # 0

sidetable_subExtraRC_nolock(e, delta_rc) ==
    IF CanBorrow(e) THEN [e EXCEPT !.rc = @ - delta_rc] ELSE e

\* Mutants: a raw isa's count does not include the implicit reference; the
\* weak flag is part of what moves.
moveExtraRC_CountsOneTwice(e, i) ==
    [present |-> TRUE, rc |-> e.rc + i.extra_rc,
     deallocating |-> IsDeallocating(i),
     weakly_referenced |-> i.weakly_referenced, pinned |-> FALSE]
moveExtraRC_ForgetsWeak(e, i) ==
    [present |-> TRUE, rc |-> e.rc + i.extra_rc - 1,
     deallocating |-> IsDeallocating(i),
     weakly_referenced |-> FALSE, pinned |-> FALSE]

\* (extra_rc - 1) is unsigned: for extra_rc = 0 the addition carries, or
\* sets the sign bit, and the entry ends up pinned.
sidetable_moveExtraRC_nolock(e, i) ==
    [present           |-> TRUE,
     rc                |-> IF i.extra_rc = 0 THEN 0 ELSE e.rc + i.extra_rc - 1,
     deallocating      |-> IsDeallocating(i),
     weakly_referenced |-> i.weakly_referenced,
     pinned            |-> i.extra_rc = 0]

-----------------------------------------------------------------------------
(* Threads.                                                                *)

PCs == {"idle", "retain", "transcribe", "weakLoaded",
        "release", "borrow", "borrowAgain", "putBack", "stored", "storedDying",
        "deallocate", "dealloc", "clearDealloc",
        "setWeak", "setAssoc", "change", "changeRaw", "move"}

TypeOK ==
    /\ isa \in IsaWord
    /\ refcnts \in Entry
    /\ lock \in Threads \cup {NoThread}
    /\ weak \in BOOLEAN
    /\ assoc \in BOOLEAN
    /\ owner \in [Refs -> Threads \cup {NoThread}]
    /\ pc \in [Threads -> PCs]
    /\ tryRetain \in [Threads -> BOOLEAN]
    /\ full \in [Threads -> BOOLEAN]
    /\ locked \in [Threads -> BOOLEAN]
    /\ oldisa \in [Threads -> IsaWord]
    /\ newisa \in [Threads -> IsaWord]
    /\ ref \in [Threads -> Refs \cup {NoRef}]
    /\ deallocs \in Nat
    /\ freed \in BOOLEAN
    /\ crashed \in BOOLEAN

\* The references in existence, and the ones thread t may give up.
Live == {r \in Refs : owner[r] # NoThread}
Owns(t, r) == owner[r] = t
Holds(t) == \E r \in Refs : Owns(t, r)
Unused(r) == owner[r] = NoThread /\ \A u \in Threads : ref[u] # r

Init ==
    /\ isa \in {InitIsa, RawIsa}
    /\ refcnts = NoEntry
    /\ lock = NoThread
    /\ weak = FALSE
    /\ assoc = FALSE
    /\ \E r \in Refs, t \in Threads :
          owner = [q \in Refs |-> IF q = r THEN t ELSE NoThread]
    /\ pc = [t \in Threads |-> "idle"]
    /\ tryRetain = [t \in Threads |-> FALSE]
    /\ full = [t \in Threads |-> FALSE]
    /\ locked = [t \in Threads |-> FALSE]
    /\ oldisa = [t \in Threads |-> RawIsa]
    /\ newisa = [t \in Threads |-> RawIsa]
    /\ ref = [t \in Threads |-> NoRef]
    /\ deallocs = 0
    /\ freed = FALSE
    /\ crashed = FALSE

\* Steps shared by the calls below.
Side == <<refcnts, weak, assoc>>
Fate == <<deallocs, freed>>

Goto(t, l) == pc' = [pc EXCEPT ![t] = l]

Load(t) == oldisa' = [oldisa EXCEPT ![t] = isa]

\* A call starts with sideTableLocked false; a thread that is not in a call
\* has its locals at their defaults.
Begin(t, try, variant, r) ==
    /\ tryRetain' = [tryRetain EXCEPT ![t] = try]
    /\ full' = [full EXCEPT ![t] = variant]
    /\ locked' = [locked EXCEPT ![t] = FALSE]
    /\ Load(t)
    /\ ref' = [ref EXCEPT ![t] = r]
    /\ UNCHANGED newisa

End(t) ==
    /\ tryRetain' = [tryRetain EXCEPT ![t] = FALSE]
    /\ full' = [full EXCEPT ![t] = FALSE]
    /\ locked' = [locked EXCEPT ![t] = FALSE]
    /\ oldisa' = [oldisa EXCEPT ![t] = RawIsa]
    /\ newisa' = [newisa EXCEPT ![t] = RawIsa]
    /\ ref' = [ref EXCEPT ![t] = NoRef]

Return(t) == Goto(t, "idle") /\ End(t)

Lock(t) == lock = NoThread /\ lock' = t

Unlock(t) ==
    IF lock = t THEN lock' = NoThread /\ UNCHANGED crashed
                ELSE crashed' = TRUE /\ UNCHANGED lock

UnlockIf(t, b) == IF b THEN Unlock(t) ELSE UNCHANGED <<lock, crashed>>

\* StoreExclusive fails and reloads *oldvalue.  A spurious failure of the
\* weak compare-and-swap leaves oldvalue as it was: a stuttering step here.
Reload(t) ==
    /\ isa # oldisa[t]
    /\ Load(t)
    /\ UNCHANGED <<isa, lock, Side, owner, pc, tryRetain, full, locked, newisa,
                   ref, Fate, crashed>>

\* The program hands a strong reference from one thread to another.
Handoff(t, u) ==
    /\ pc[t] = "idle"
    /\ \E r \in Refs : Owns(t, r) /\ owner' = [owner EXCEPT ![r] = u]
    /\ UNCHANGED <<isa, lock, Side, pc, locals, Fate, crashed>>

-----------------------------------------------------------------------------
(* objc_retain -> rootRetain(false, Fast), and the tryRetain that          *)
(* objc_loadWeakRetained makes with the side table locked.                 *)

\* -dealloc retains self at most this often without releasing it.
SelfRetainBound == 1

\* The program retains an object it owns, or -dealloc retains self.
Retain(t) ==
    /\ \/ /\ pc[t] = "idle" /\ Holds(t)
          /\ \E r \in Refs : Unused(r) /\ Begin(t, FALSE, FALSE, r)
       \/ /\ pc[t] = "dealloc" /\ refcnts.rc < SelfRetainBound
          /\ Begin(t, FALSE, FALSE, NoRef)
    /\ Goto(t, "retain")
    /\ UNCHANGED <<isa, lock, Side, owner, Fate, crashed>>

\* A weak variable still points at the object: lock its side table and try.
LoadWeak(t) ==
    /\ pc[t] = "idle" /\ weak
    /\ Lock(t)
    /\ \E r \in Refs : Unused(r) /\ Begin(t, TRUE, FALSE, r)
    /\ Goto(t, "retain")
    /\ UNCHANGED <<isa, Side, owner, Fate, crashed>>

\* The call adds or removes its reference.
SetOwner(t, o) == owner' = IF ref[t] = NoRef THEN owner
                           ELSE [owner EXCEPT ![ref[t]] = o]
Gain(t) == SetOwner(t, t)
Drop(t) == SetOwner(t, NoThread)

\* Back to objc_loadWeakRetained, to -dealloc or to the program.
RRReturn(t) ==
    /\ Goto(t, IF tryRetain[t] THEN "weakLoaded"
               ELSE IF ref[t] = NoRef THEN "dealloc" ELSE "idle")
    /\ End(t)

\* sidetable_tryRetain()
TryRetainRaw(t) ==
    /\ pc[t] = "retain" /\ ~oldisa[t].nonpointer /\ tryRetain[t]
    /\ refcnts' = sidetable_tryRetain(refcnts)
    /\ IF refcnts.deallocating THEN UNCHANGED owner ELSE Gain(t)
    /\ RRReturn(t)
    /\ UNCHANGED <<isa, lock, weak, assoc, Fate, crashed>>

\* sidetable_retain(sideTableLocked)
RetainRaw(t) ==
    /\ pc[t] = "retain" /\ ~oldisa[t].nonpointer /\ ~tryRetain[t]
    /\ locked[t] \/ lock = NoThread
    /\ refcnts' = sidetable_retain(refcnts)
    /\ Gain(t)
    /\ UnlockIf(t, locked[t])
    /\ RRReturn(t)
    /\ UNCHANGED <<isa, weak, assoc, Fate>>

RetainSeesDeallocating(t) ==
    /\ pc[t] = "retain" /\ oldisa[t].nonpointer /\ IsDeallocating(oldisa[t])
    /\ UnlockIf(t, locked[t])
    /\ RRReturn(t)
    /\ UNCHANGED <<isa, Side, owner, Fate>>

RetainLoop(t) == /\ pc[t] = "retain" /\ oldisa[t].nonpointer
                 /\ ~IsDeallocating(oldisa[t])

RetainInline(t) ==
    /\ RetainLoop(t) /\ oldisa[t].extra_rc < RC_MAX
    /\ isa = oldisa[t]
    /\ isa' = [isa EXCEPT !.extra_rc = @ + 1]
    /\ Gain(t)
    /\ UnlockIf(t, ~tryRetain[t] /\ locked[t])
    /\ RRReturn(t)
    /\ UNCHANGED <<Side, Fate>>

\* rootRetain_overflow: start over as RRVariant::Full.
RetainOverflow(t) ==
    /\ RetainLoop(t) /\ oldisa[t].extra_rc = RC_MAX /\ ~full[t]
    /\ Begin(t, tryRetain[t], TRUE, ref[t])
    /\ UNCHANGED <<isa, lock, Side, owner, pc, Fate, crashed>>

\* Mutant: a tryRetain takes the lock that objc_loadWeakRetained holds.
RetainLock_TakesLock(t) ==
    /\ RetainLoop(t) /\ oldisa[t].extra_rc = RC_MAX /\ full[t] /\ ~locked[t]
    /\ Lock(t)
    /\ locked' = [locked EXCEPT ![t] = TRUE]
    /\ UNCHANGED <<isa, Side, owner, pc, tryRetain, full, oldisa, newisa, ref,
                   Fate, crashed>>

\* A tryRetain sets sideTableLocked too, without taking the lock itself.
RetainLock(t) ==
    /\ RetainLoop(t) /\ oldisa[t].extra_rc = RC_MAX /\ full[t] /\ ~locked[t]
    /\ IF tryRetain[t] THEN UNCHANGED lock ELSE Lock(t)
    /\ locked' = [locked EXCEPT ![t] = TRUE]
    /\ UNCHANGED <<isa, Side, owner, pc, tryRetain, full, oldisa, newisa, ref,
                   Fate, crashed>>

\* Mutant: the reference this call adds is forgotten.
RetainSplit_LosesOne(t) ==
    /\ RetainLoop(t) /\ oldisa[t].extra_rc = RC_MAX /\ full[t] /\ locked[t]
    /\ isa = oldisa[t]
    /\ isa' = SetCount(isa, RC_HALF - 1, TRUE)
    /\ Gain(t)
    /\ Goto(t, "transcribe")
    /\ UNCHANGED <<lock, Side, locals, Fate, crashed>>

\* Half of the counts stay inline, the other half is for the side table.
RetainSplit(t) ==
    /\ RetainLoop(t) /\ oldisa[t].extra_rc = RC_MAX /\ full[t] /\ locked[t]
    /\ isa = oldisa[t]
    /\ isa' = SetCount(isa, RC_HALF, TRUE)
    /\ Gain(t)
    /\ Goto(t, "transcribe")
    /\ UNCHANGED <<lock, Side, locals, Fate, crashed>>

RetainTranscribe(t) ==
    /\ pc[t] = "transcribe"
    /\ refcnts' = sidetable_addExtraRC_nolock(refcnts, RC_HALF)
    /\ UnlockIf(t, ~tryRetain[t])
    /\ RRReturn(t)
    /\ UNCHANGED <<isa, weak, assoc, owner, Fate>>

RetainRetry(t) ==
    /\ RetainLoop(t) /\ (oldisa[t].extra_rc < RC_MAX \/ (full[t] /\ locked[t]))
    /\ Reload(t)

\* Mutant: an early return without table->unlock().
WeakLoaded_KeepsLock(t) ==
    /\ pc[t] = "weakLoaded"
    /\ Return(t)
    /\ UNCHANGED <<isa, lock, Side, owner, Fate, crashed>>

\* objc_loadWeakRetained: table->unlock()
WeakLoaded(t) ==
    /\ pc[t] = "weakLoaded"
    /\ Unlock(t)
    /\ Return(t)
    /\ UNCHANGED <<isa, Side, owner, Fate>>

RetainStep(t) ==
    \/ Retain(t) \/ LoadWeak(t)
    \/ TryRetainRaw(t) \/ RetainRaw(t) \/ RetainSeesDeallocating(t)
    \/ RetainInline(t) \/ RetainOverflow(t) \/ RetainLock(t)
    \/ RetainSplit(t) \/ RetainTranscribe(t) \/ RetainRetry(t)
    \/ WeakLoaded(t)

-----------------------------------------------------------------------------
(* objc_release -> rootRelease(true, Fast).                                *)

\* The program gives up a reference it owns, or -dealloc releases self.
Release(t) ==
    /\ \/ /\ pc[t] = "idle"
          /\ \E r \in Refs : Owns(t, r) /\ Begin(t, FALSE, FALSE, r)
       \/ pc[t] = "dealloc" /\ Begin(t, FALSE, FALSE, NoRef)
    /\ Goto(t, "release")
    /\ UNCHANGED <<isa, lock, Side, owner, Fate, crashed>>

\* objc_msgSend(this, @selector(dealloc))
SendDealloc(t) == deallocs' = deallocs + 1 /\ Goto(t, "dealloc") /\ End(t)

\* sidetable_release(sideTableLocked, performDealloc)
ReleaseRaw(t) ==
    /\ pc[t] = "release" /\ ~oldisa[t].nonpointer
    /\ locked[t] \/ lock = NoThread
    /\ refcnts' = sidetable_release(refcnts)
    /\ Drop(t)
    /\ UnlockIf(t, locked[t])
    /\ IF LastRelease(refcnts) THEN SendDealloc(t)
                               ELSE RRReturn(t) /\ UNCHANGED deallocs
    /\ UNCHANGED <<isa, weak, assoc, freed>>

ReleaseSeesDeallocating(t) ==
    /\ pc[t] = "release" /\ oldisa[t].nonpointer /\ IsDeallocating(oldisa[t])
    /\ UnlockIf(t, locked[t])
    /\ RRReturn(t)
    /\ UNCHANGED <<isa, Side, owner, Fate>>

ReleaseLoop(t) == /\ pc[t] = "release" /\ oldisa[t].nonpointer
                  /\ ~IsDeallocating(oldisa[t])

ReleaseInline(t) ==
    /\ ReleaseLoop(t) /\ oldisa[t].extra_rc > 0
    /\ isa = oldisa[t]
    /\ isa' = [isa EXCEPT !.extra_rc = @ - 1]
    /\ Drop(t)
    /\ IF IsDeallocating(isa')
       THEN Goto(t, "deallocate") /\ UNCHANGED <<locals, lock, crashed>>
       ELSE RRReturn(t) /\ UnlockIf(t, locked[t])
    /\ UNCHANGED <<Side, Fate>>

\* rootRelease_underflow: start over as RRVariant::Full.
ReleaseUnderflow(t) ==
    /\ ReleaseLoop(t) /\ oldisa[t].extra_rc = 0 /\ ~full[t]
    /\ Begin(t, FALSE, TRUE, ref[t])
    /\ UNCHANGED <<isa, lock, Side, owner, pc, Fate, crashed>>

\* Lock the side table, reload the isa and start the loop over.
ReleaseLock(t) ==
    /\ ReleaseLoop(t) /\ oldisa[t].extra_rc = 0 /\ full[t] /\ ~locked[t]
    /\ Lock(t)
    /\ locked' = [locked EXCEPT ![t] = TRUE]
    /\ Load(t)
    /\ UNCHANGED <<isa, Side, owner, pc, tryRetain, full, newisa, ref,
                   Fate, crashed>>

\* Take RC_HALF counts out of the side table.  Finding none there falls
\* through to the dealloc path.
ReleaseBorrow(t) ==
    /\ ReleaseLoop(t) /\ oldisa[t].extra_rc = 0 /\ full[t] /\ locked[t]
    /\ refcnts' = sidetable_subExtraRC_nolock(refcnts, RC_HALF)
    /\ IF CanBorrow(refcnts)
       THEN Goto(t, "borrow") /\ UNCHANGED owner
       ELSE Goto(t, "deallocate") /\ Drop(t)
    /\ UNCHANGED <<isa, lock, weak, assoc, locals, Fate, crashed>>

emptySideTable == refcnts.rc = 0

\* StoreReleaseExclusive of the isa with the borrowed counts succeeds; only
\* the second attempt looks whether that made the object deallocating.
StoreBorrowed(t, extra, second) ==
    /\ isa = oldisa[t]
    /\ isa' = SetCount(isa, extra, ~emptySideTable)
    /\ Drop(t)
    /\ Goto(t, IF second /\ IsDeallocating(isa') THEN "storedDying" ELSE "stored")
    /\ UNCHANGED <<lock, Side, locals, Fate, crashed>>

BorrowStore(t) ==
    /\ pc[t] = "borrow"
    /\ StoreBorrowed(t, RC_HALF - 1, FALSE)

\* The first store failed, perhaps spuriously.
BorrowFailed(t) ==
    /\ pc[t] = "borrow"
    /\ Load(t)
    /\ Goto(t, IF isa.nonpointer THEN "borrowAgain" ELSE "putBack")
    /\ UNCHANGED <<isa, lock, Side, owner, tryRetain, full, locked, newisa, ref,
                   Fate, crashed>>

\* Mutant: addc's carry is ignored.
BorrowStoreAgain_IgnoresCarry(t) ==
    /\ pc[t] = "borrowAgain"
    /\ StoreBorrowed(t, oldisa[t].extra_rc + RC_HALF - 1, TRUE)

\* Add the borrowed counts to the inline count as it is now.
BorrowStoreAgain(t) ==
    /\ pc[t] = "borrowAgain"
    /\ oldisa[t].extra_rc + RC_HALF - 1 <= RC_MAX
    /\ StoreBorrowed(t, oldisa[t].extra_rc + RC_HALF - 1, TRUE)

\* The inline count would overflow, or the second store failed.
BorrowFailedAgain(t) ==
    /\ pc[t] = "borrowAgain"
    /\ Goto(t, "putBack")
    /\ UNCHANGED <<isa, lock, Side, owner, locals, Fate, crashed>>

\* Mutant: the borrowed counts are not put back before the retry.
BorrowPutBack_Forgets(t) ==
    /\ pc[t] = "putBack"
    /\ Load(t)
    /\ Goto(t, "release")
    /\ UNCHANGED <<isa, lock, Side, owner, tryRetain, full, locked, newisa, ref,
                   Fate, crashed>>

BorrowPutBack(t) ==
    /\ pc[t] = "putBack"
    /\ refcnts' = sidetable_addExtraRC_nolock(refcnts, RC_HALF)
    /\ Load(t)
    /\ Goto(t, "release")
    /\ UNCHANGED <<isa, lock, weak, assoc, owner, tryRetain, full, locked,
                   newisa, ref, Fate, crashed>>

\* sidetable_clearExtraRC_nolock if nothing is left in the side table.
BorrowStored(t) ==
    /\ pc[t] \in {"stored", "storedDying"}
    /\ refcnts' = IF emptySideTable THEN NoEntry ELSE refcnts
    /\ Unlock(t)
    /\ IF pc[t] = "storedDying" THEN SendDealloc(t)
                                ELSE Return(t) /\ UNCHANGED deallocs
    /\ UNCHANGED <<isa, weak, assoc, owner, freed>>

ReleaseRetry(t) == ReleaseLoop(t) /\ oldisa[t].extra_rc > 0 /\ Reload(t)

\* deallocate:
ReleaseDeallocate(t) ==
    /\ pc[t] = "deallocate"
    /\ UnlockIf(t, locked[t])
    /\ SendDealloc(t)
    /\ UNCHANGED <<isa, Side, owner, freed>>

ReleaseStep(t) ==
    \/ Release(t) \/ ReleaseRaw(t) \/ ReleaseSeesDeallocating(t)
    \/ ReleaseInline(t) \/ ReleaseUnderflow(t) \/ ReleaseLock(t)
    \/ ReleaseBorrow(t) \/ BorrowStore(t) \/ BorrowFailed(t)
    \/ BorrowStoreAgain(t) \/ BorrowFailedAgain(t) \/ BorrowPutBack(t)
    \/ BorrowStored(t) \/ ReleaseRetry(t) \/ ReleaseDeallocate(t)

-----------------------------------------------------------------------------
(* -dealloc, down to free().                                               *)

\* Mutant: the fast path forgets about weak variables.
FastFree_IgnoresWeak(t) ==
    /\ pc[t] = "dealloc"
    /\ isa.nonpointer /\ ~isa.has_assoc /\ ~isa.has_sidetable_rc
    /\ freed' = TRUE
    /\ Return(t)
    /\ UNCHANGED <<isa, lock, Side, owner, deallocs, crashed>>

\* rootDealloc with nothing to clean up.
FastFree(t) ==
    /\ pc[t] = "dealloc"
    /\ isa.nonpointer /\ ~isa.weakly_referenced /\ ~isa.has_assoc
    /\ ~isa.has_sidetable_rc
    /\ freed' = TRUE
    /\ Return(t)
    /\ UNCHANGED <<isa, lock, Side, owner, deallocs, crashed>>

\* object_dispose -> objc_destructInstance.  Also taken when the class has
\* C++ destructors, so no guard on the isa.
Destruct(t) ==
    /\ pc[t] = "dealloc"
    /\ assoc' = (assoc /\ isa.nonpointer /\ ~isa.has_assoc)
    /\ Goto(t, "clearDealloc")
    /\ UNCHANGED <<isa, lock, refcnts, weak, owner, locals, Fate, crashed>>

\* sidetable_clearDeallocating
ClearRaw(t) ==
    /\ pc[t] = "clearDealloc" /\ ~isa.nonpointer
    /\ lock = NoThread
    /\ weak' = (weak /\ ~refcnts.weakly_referenced)
    /\ refcnts' = NoEntry
    /\ freed' = TRUE
    /\ Return(t)
    /\ UNCHANGED <<isa, lock, assoc, owner, deallocs, crashed>>

\* clearDeallocating, and clearDeallocating_slow if a flag calls for it
ClearNonpointer(t) ==
    /\ pc[t] = "clearDealloc" /\ isa.nonpointer
    /\ isa.weakly_referenced \/ isa.has_sidetable_rc => lock = NoThread
    /\ weak' = (weak /\ ~isa.weakly_referenced)
    /\ refcnts' = IF isa.has_sidetable_rc THEN NoEntry ELSE refcnts
    /\ freed' = TRUE
    /\ Return(t)
    /\ UNCHANGED <<isa, lock, assoc, owner, deallocs, crashed>>

DeallocStep(t) ==
    FastFree(t) \/ Destruct(t) \/ ClearRaw(t) \/ ClearNonpointer(t)

-----------------------------------------------------------------------------
(* Weak references and associated objects set their flag in the isa.       *)

\* objc_storeWeak(&v, object): weak_register_no_lock, then the flag.
StoreWeak(t) ==
    /\ pc[t] = "idle" /\ Holds(t)
    /\ Lock(t)
    /\ weak' = TRUE
    /\ Load(t)
    /\ Goto(t, "setWeak")
    /\ UNCHANGED <<isa, refcnts, assoc, owner, tryRetain, full, locked, newisa,
                   ref, Fate, crashed>>

setWeaklyReferenced_nolock(t) ==
    /\ pc[t] = "setWeak"
    /\ \/ /\ ~oldisa[t].nonpointer
          /\ refcnts' = [Find(refcnts) EXCEPT !.weakly_referenced = TRUE]
          /\ UNCHANGED isa
       \/ /\ oldisa[t].nonpointer /\ oldisa[t].weakly_referenced
          /\ UNCHANGED <<isa, refcnts>>
       \/ /\ oldisa[t].nonpointer /\ ~oldisa[t].weakly_referenced
          /\ isa = oldisa[t]
          /\ isa' = [isa EXCEPT !.weakly_referenced = TRUE]
          /\ UNCHANGED refcnts
    /\ Unlock(t)
    /\ Return(t)
    /\ UNCHANGED <<weak, assoc, owner, Fate>>

StoreWeakRetry(t) ==
    /\ pc[t] = "setWeak"
    /\ oldisa[t].nonpointer /\ ~oldisa[t].weakly_referenced
    /\ Reload(t)

\* objc_destroyWeak of the last weak variable: the flag stays set.
DestroyWeak(t) ==
    /\ pc[t] = "idle" /\ weak /\ lock = NoThread
    /\ weak' = FALSE
    /\ UNCHANGED <<isa, refcnts, lock, assoc, owner, pc, locals, Fate, crashed>>

\* objc_setAssociatedObject(object, key, value, policy)
SetAssociation(t) ==
    /\ pc[t] = "idle" /\ Holds(t)
    /\ assoc' = TRUE
    /\ IF assoc THEN UNCHANGED <<pc, oldisa>> ELSE Goto(t, "setAssoc") /\ Load(t)
    /\ UNCHANGED <<isa, refcnts, lock, weak, owner, tryRetain, full, locked,
                   newisa, ref, Fate, crashed>>

\* objc_setAssociatedObject(object, key, nil, policy) of the only key
ClearAssociation(t) ==
    /\ pc[t] = "idle" /\ Holds(t) /\ assoc
    /\ assoc' = FALSE
    /\ UNCHANGED <<isa, refcnts, lock, weak, owner, pc, locals, Fate, crashed>>

setHasAssociatedObjects(t) ==
    /\ pc[t] = "setAssoc"
    /\ \/ /\ ~oldisa[t].nonpointer \/ oldisa[t].has_assoc
          /\ UNCHANGED isa
       \/ /\ oldisa[t].nonpointer /\ ~oldisa[t].has_assoc
          /\ isa = oldisa[t]
          /\ isa' = [isa EXCEPT !.has_assoc = TRUE]
    /\ Return(t)
    /\ UNCHANGED <<lock, Side, owner, Fate, crashed>>

SetAssociationRetry(t) ==
    /\ pc[t] = "setAssoc"
    /\ oldisa[t].nonpointer /\ ~oldisa[t].has_assoc
    /\ Reload(t)

FlagStep(t) ==
    \/ StoreWeak(t) \/ setWeaklyReferenced_nolock(t) \/ StoreWeakRetry(t)
    \/ DestroyWeak(t) \/ SetAssociation(t) \/ ClearAssociation(t)
    \/ setHasAssociatedObjects(t) \/ SetAssociationRetry(t)

-----------------------------------------------------------------------------
(* object_setClass -> changeIsa(newCls): "changeRaw" if instances of newCls *)
(* cannot have nonpointer isas.                                            *)

SetClass(t, l) ==
    /\ pc[t] = "idle" /\ Holds(t) /\ t \in Setters
    /\ Load(t)
    /\ Goto(t, l)
    /\ UNCHANGED <<isa, lock, Side, owner, tryRetain, full, locked, newisa, ref,
                   Fate, crashed>>

Changing(t) == pc[t] \in {"change", "changeRaw"}
ToRaw(t) == pc[t] = "changeRaw" /\ oldisa[t].nonpointer

\* nonpointer -> raw pointer takes the side table lock first.
ChangeLock(t) ==
    /\ ToRaw(t) /\ ~locked[t]
    /\ Lock(t)
    /\ locked' = [locked EXCEPT ![t] = TRUE]
    /\ UNCHANGED <<isa, Side, owner, pc, tryRetain, full, oldisa, newisa, ref,
                   Fate, crashed>>

\* newisa of this iteration: nonpointer -> nonpointer copies oldisa; the
\* other cases only call newisa.setClass, which keeps the bits newisa
\* still has from the iteration before.
ChangedIsa(t) ==
    IF pc[t] = "change" /\ oldisa[t].nonpointer THEN oldisa[t] ELSE newisa[t]

ChangeStore(t) ==
    /\ Changing(t) /\ (ToRaw(t) => locked[t])
    /\ isa = oldisa[t]
    /\ isa' = ChangedIsa(t)
    /\ IF ToRaw(t)
       THEN Goto(t, "move") /\ UNCHANGED <<locals, lock, crashed>>
       ELSE Return(t) /\ UnlockIf(t, locked[t])
    /\ UNCHANGED <<Side, owner, Fate>>

ChangeRetry(t) ==
    /\ Changing(t) /\ (ToRaw(t) => locked[t])
    /\ isa # oldisa[t]
    /\ Load(t)
    /\ newisa' = [newisa EXCEPT ![t] = ChangedIsa(t)]
    /\ UNCHANGED <<isa, lock, Side, owner, pc, tryRetain, full, locked, ref,
                   Fate, crashed>>

ChangeMove(t) ==
    /\ pc[t] = "move"
    /\ refcnts' = sidetable_moveExtraRC_nolock(refcnts, oldisa[t])
    /\ Unlock(t)
    /\ Return(t)
    /\ UNCHANGED <<isa, weak, assoc, owner, Fate>>

ChangeStep(t) ==
    \/ \E l \in {"change", "changeRaw"} : SetClass(t, l)
    \/ ChangeLock(t) \/ ChangeStore(t) \/ ChangeRetry(t) \/ ChangeMove(t)

-----------------------------------------------------------------------------

Step(t) == \/ RetainStep(t) \/ ReleaseStep(t) \/ DeallocStep(t)
           \/ FlagStep(t) \/ ChangeStep(t)

Next ==
    /\ ~crashed
    /\ \E t \in Threads : Step(t) \/ \E u \in Threads \ {t} : Handoff(t, u)

Spec == Init /\ [][Next]_vars

-----------------------------------------------------------------------------
(* Correctness.                                                            *)

\* Counts that are in neither place: taken out of the isa or the side table
\* by the owner of the lock and not yet stored in the other one.
InFlight(t) ==
    IF pc[t] = "transcribe" THEN RC_HALF
    ELSE IF pc[t] \in {"borrow", "borrowAgain", "putBack"} THEN RC_HALF
    ELSE IF pc[t] = "move" THEN oldisa[t].extra_rc
    ELSE 0

Moving == lock # NoThread /\ pc[lock] = "move"
SideCount == refcnts.rc + (IF lock = NoThread THEN 0 ELSE InFlight(lock))

\* The count the two words stand for; with the lock free it is what
\* rootRetainCount computes from them.
RetainCount ==
    IF isa.nonpointer THEN isa.extra_rc + SideCount
    ELSE IF Moving THEN SideCount
    ELSE IF refcnts.deallocating THEN 0
    ELSE SideCount + 1

Pinned == ~isa.nonpointer /\ refcnts.pinned

\* The two words and the in-flight counts always add up to the references
\* the program owns, whatever overflow, borrow or class change is under way:
\* rootRetain, rootRelease and changeIsa lose no reference and count none
\* twice.  A pinned entry has given up counting.
CountMatchesReferences ==
    freed \/ Pinned \/ RetainCount = Cardinality(Live)

\* -dealloc is sent at most once, and only after the last reference is gone;
\* racing releases, a racing objc_loadWeakRetained and retains and releases
\* made by -dealloc itself do not change that.
DeallocOnce == deallocs <= 1 /\ (deallocs = 1 => Live = {})

\* Where a thread no longer touches the object: after its borrowed release
\* was stored it only erases the side table entry, by address.
NotTouching == {"idle", "stored", "weakLoaded"}

\* No call is still reading or writing the isa word when the object is freed
\* (rootDealloc, object_dispose against every other entry point).
NoUseAfterFree == freed => \A t \in Threads : pc[t] \in NotTouching

\* assert(!sidetable_present()) of rootDealloc and clearDeallocating, and the
\* association table: nothing keyed by the object's address outlives it, or
\* a later object at that address would inherit counts or weak variables.
NothingLeftBehind ==
    freed => /\ ~weak /\ ~assoc
             /\ lock = NoThread => ~refcnts.present

\* rootRelease, "Side table is empty after all": a thread that underflows
\* with the lock held always finds RC_HALF counts to borrow, so that branch
\* and its failing ASSERT(newisa.isDeallocating()) are dead code.
BorrowFindsCounts ==
    \A t \in Threads :
        (ReleaseLoop(t) /\ oldisa[t].extra_rc = 0 /\ locked[t])
        => refcnts.present /\ refcnts.rc >= RC_HALF

\* The side table lock never leaves the threads inside the runtime waiting
\* for each other or a thread waiting for itself: a tryRetain that overflows
\* must not take the lock objc_loadWeakRetained already holds.  (It takes five
\* references to get there when the isa counts up to three.)
NoDeadlock ==
    (~crashed /\ \E t \in Threads : pc[t] # "idle")
    => \E t \in Threads : pc[t] # "idle" /\ ENABLED Step(t)

\* With no object_setClass, the two words implement the plain counter:
\* moving counts between them is invisible, and a dying object stays so.
Abstract == INSTANCE AbstractRefCount WITH
    refs <- Live,
    count <- IF freed THEN 0 ELSE RetainCount,
    phase <- IF freed THEN "freed"
             ELSE IF RetainCount = 0 THEN "dying" ELSE "live"

ImplementsCounter == Abstract!ASpec

\* NSObject.mm:1647, "_objc_loadWeak(), which already acquired the lock on
\* our behalf": the lock is still held when objc_loadWeakRetained unlocks it.
\* objc-lockdebug.mm makes "unlocking unowned mutex" fatal.
NoUnownedUnlock == ~crashed

\* NSObject.mm:1512, "Move the entire retain count to the side table": an
\* object whose class changes to one with raw isas goes on being counted.
MoveKeepsCount == Pinned => Live = {}

-----------------------------------------------------------------------------
(* Fairness: the scheduler keeps running a thread that is inside the       *)
(* runtime, -dealloc implementations come to their end, and the program    *)
(* does not load weak variables forever: the side table lock is not fair,  *)
(* so an endless series of loads might keep the deallocating thread out.   *)

Fairness ==
    /\ \A t \in Threads : /\ WF_vars(pc[t] # "idle" /\ ~crashed /\ Step(t))
                          /\ SF_vars(~crashed /\ (FastFree(t) \/ Destruct(t)))
    /\ <>[][\A t \in Threads : ~LoadWeak(t)]_vars

FairSpec == Spec /\ Fairness

\* An object nobody owns any more is eventually freed: the release that
\* dropped the last reference cannot be overtaken or blocked for good.
LastReleaseFrees == (Live = {}) ~> (freed \/ crashed)
=============================================================================
