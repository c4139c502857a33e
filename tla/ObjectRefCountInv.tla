------------------------- MODULE ObjectRefCountInv -------------------------
(***************************************************************************)
(* The inductive invariant of ObjectRefCount, in named parts.  It holds    *)
(* when at most one thread calls object_setClass on the object (OneSetter);*)
(* two concurrent callers break it, and CountMatchesReferences with it.    *)
(***************************************************************************)
EXTENDS ObjectRefCount, TLC

OneSetter == \A s, t \in Setters : s = t

\* Threads outside a runtime call have no locals; only a call that tries to
\* retain has tryRetain set.
FramesOK ==
    \A t \in Threads :
        /\ pc[t] \in {"idle", "weakLoaded", "dealloc", "clearDealloc"}
              => ~tryRetain[t] /\ ~locked[t] /\ ref[t] = NoRef /\ newisa[t] = RawIsa
        /\ tryRetain[t] => pc[t] \in {"retain", "transcribe"} /\ ref[t] # NoRef
        /\ pc[t] \in {"setWeak", "setAssoc", "change"} => ~locked[t]
        /\ pc[t] \in {"setWeak", "setAssoc", "change", "changeRaw", "move"}
              => ref[t] = NoRef
        /\ pc[t] \in {"change", "changeRaw", "move"} => t \in Setters

\* Who has the side table lock.
LockedPCs == {"transcribe", "borrow", "borrowAgain", "putBack", "stored",
              "setWeak", "move"}

HasLock(t) == pc[t] \in LockedPCs \/ locked[t] \/ tryRetain[t]

LockOK == \A t \in Threads : HasLock(t) => lock = t

\* The token of each call, and the calls that rely on owning a reference.
TokensOK ==
    \A t \in Threads :
        /\ pc[t] = "retain" /\ ref[t] # NoRef
              => owner[ref[t]] = NoThread /\ (tryRetain[t] \/ Holds(t))
        /\ pc[t] = "release" => ref[t] = NoRef \/ owner[ref[t]] = t
        /\ pc[t] \in {"borrow", "borrowAgain", "putBack", "transcribe"}
              => ref[t] # NoRef /\ owner[ref[t]] = t
        /\ pc[t] \in {"stored", "deallocate"}
              => ref[t] # NoRef /\ owner[ref[t]] = NoThread
        /\ pc[t] \in {"setWeak", "setAssoc", "change", "changeRaw", "move"}
              => Holds(t)
        /\ \A u \in Threads : ref[t] = ref[u] /\ ref[t] # NoRef => t = u

\* The thread that is deallocating the object.
Dying(t) == \/ pc[t] \in {"deallocate", "dealloc", "clearDealloc"}
            \/ pc[t] \in {"retain", "release"} /\ ref[t] = NoRef

DeathOK ==
    /\ \A t \in Threads : Dying(t) =>
          /\ ~freed /\ Live = {}
          /\ deallocs = (IF pc[t] = "deallocate" THEN 0 ELSE 1)
          /\ \A u \in Threads : Dying(u) => u = t
          /\ ~isa.nonpointer => refcnts.deallocating
    /\ freed => deallocs = 1 /\ Live = {}
    /\ deallocs <= 1
    /\ deallocs = 1 => freed \/ \E t \in Threads : Dying(t)
    /\ Live = {} => freed \/ Pinned \/ \E t \in Threads : Dying(t)

\* What a loop knows about the isa it loaded.
LoopPCs == {"retain", "release", "borrow", "borrowAgain", "putBack",
            "setWeak", "setAssoc", "change", "changeRaw"}

\* oldisa was loaded, or loaded again, with the lock held.
Fresh(t) == \/ pc[t] \in LoopPCs \ {"retain"} /\ HasLock(t)
            \/ pc[t] = "retain" /\ tryRetain[t]

OldIsaOf(t) ==
        /\ pc[t] \in LoopPCs /\ ~oldisa[t].nonpointer => ~isa.nonpointer
        /\ Fresh(t) /\ oldisa[t].nonpointer => isa.nonpointer
        /\ pc[t] \in {"retain", "release"} /\ oldisa[t].nonpointer /\ ~tryRetain[t]
              => (IsDeallocating(oldisa[t]) <=> ref[t] = NoRef)
        /\ pc[t] = "release" /\ locked[t] /\ oldisa[t].nonpointer
              => oldisa[t].has_sidetable_rc = isa.has_sidetable_rc
        /\ pc[t] = "setWeak" /\ oldisa[t].nonpointer /\ oldisa[t].weakly_referenced
              => isa.weakly_referenced
        /\ pc[t] = "setAssoc" /\ oldisa[t].nonpointer /\ oldisa[t].has_assoc
              => isa.has_assoc \/ ~isa.nonpointer
        /\ pc[t] \in {"change", "changeRaw"}
              => oldisa[t].nonpointer = isa.nonpointer
        /\ pc[t] = "changeRaw" => newisa[t] = RawIsa
        /\ pc[t] = "change" /\ ~oldisa[t].nonpointer => newisa[t] = RawIsa
        /\ pc[t] = "move" => ~isa.nonpointer /\ oldisa[t].nonpointer

OldIsaOK == \A t \in Threads : OldIsaOf(t)

\* Borrowing: exactly RC_HALF counts are on their way.
BorrowOf(t) ==
        /\ pc[t] \in {"borrow", "borrowAgain", "putBack"} =>
              /\ isa.nonpointer /\ isa.has_sidetable_rc
              /\ refcnts.present
              /\ oldisa[t].nonpointer
        /\ pc[t] = "borrow" => oldisa[t].extra_rc = 0
        /\ pc[t] = "transcribe" => isa.nonpointer /\ isa.has_sidetable_rc
        /\ pc[t] = "stored" => isa.nonpointer /\ refcnts.present
        /\ pc[t] # "storedDying"

BorrowOK == \A t \in Threads : BorrowOf(t)

\* Counts move to and from the side table in halves of the inline range, so
\* what is there is nothing or at least RC_HALF.
InHalves(n) == \E k \in 0 .. n : n = k * RC_HALF

\* Next to a nonpointer isa the entry holds counts and nothing else, and the
\* isa says whether there are any.
SplitOK ==
    isa.nonpointer =>
          /\ ~refcnts.deallocating /\ ~refcnts.weakly_referenced /\ ~refcnts.pinned
          /\ InHalves(refcnts.rc)
          /\ isa.has_sidetable_rc <=> SideCount > 0
          /\ refcnts.present /\ refcnts.rc = 0 =>
                /\ lock # NoThread
                /\ pc[lock] \in {"borrow", "borrowAgain", "putBack", "stored"}

SideOK ==
    /\ ~refcnts.present => refcnts = NoEntry
    /\ ~isa.nonpointer => isa = RawIsa
    /\ SplitOK
    /\ \A t \in Threads : pc[t] = "move" =>
          /\ ~refcnts.deallocating /\ ~refcnts.weakly_referenced /\ ~refcnts.pinned
          /\ ~IsDeallocating(oldisa[t])
    /\ freed => IF isa.nonpointer THEN ~isa.has_sidetable_rc ELSE refcnts = NoEntry

\* Weak variables and associations are flagged where -dealloc looks.
FlagsOK ==
    /\ weak => \/ isa.nonpointer /\ isa.weakly_referenced
               \/ ~isa.nonpointer /\ refcnts.weakly_referenced
               \/ lock # NoThread /\ pc[lock] = "setWeak"
               \/ lock # NoThread /\ pc[lock] = "move"
                     /\ oldisa[lock].weakly_referenced
    /\ assoc => \/ ~isa.nonpointer \/ isa.has_assoc
                \/ \E t \in Threads : pc[t] = "setAssoc"
    /\ \A t \in Threads : tryRetain[t] => weak
    /\ \A t \in Threads : pc[t] = "clearDealloc" => ~assoc

IInv ==
    /\ TypeOK
    /\ FramesOK
    /\ LockOK
    /\ TokensOK
    /\ DeathOK
    /\ OldIsaOK
    /\ BorrowOK
    /\ SideOK
    /\ FlagsOK
    /\ CountMatchesReferences
    /\ NoUseAfterFree
    /\ NothingLeftBehind

\* The inline count, the side table and what is on its way between them add up to
\* the references (a part of the inductive invariant, which is checked as a
\* whole); and an underflow always finds counts to borrow.
CountsSound == IInv /\ BorrowFindsCounts

-----------------------------------------------------------------------------
(* For model checking.                                                     *)

\* References are interchangeable, and so are threads when none of them is
\* set apart as a caller of object_setClass.
RefSymmetry == Permutations(Refs)
FullSymmetry == Permutations(Refs) \cup Permutations(Threads)
=============================================================================
