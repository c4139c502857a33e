------------------------ MODULE ObjectRefCountProofs ------------------------
(***************************************************************************)
(* Theorems about ObjectRefCount for all constants, and its refinement of  *)
(* the plain counter of AbstractRefCount.  The order is: types; locals,    *)
(* lock and tokens; what a step leaves to the other threads; borrowing;    *)
(* the isa words that loops loaded; the side table; the count;             *)
(* deallocation; the flags; free(); the inductive invariant and what       *)
(* follows from it; the refinement.  A lemma about all steps has one step  *)
(* of its proof per action.                                                *)
(***************************************************************************)
EXTENDS ObjectRefCountInv, FiniteSetTheorems, TLAPS

-----------------------------------------------------------------------------
(* The data types: the isa word and the side table entry.                  *)

\* The inline count's range is twice RC_HALF.
LEMMA RCFacts == /\ RC_MAX \in Nat /\ RC_HALF \in Nat /\ RC_HALF >= 2
                 /\ RC_MAX = RC_HALF + RC_HALF - 1
BY ConstantsAssumption DEF RC_MAX

\* The isa of a new object, and a raw one, are isa words.
LEMMA IsaTypes == RawIsa \in IsaWord /\ InitIsa \in IsaWord
<1>1. RawIsa \in IsaWord BY RCFacts DEF RawIsa, IsaWord, InlineCounts
<1>2. InitIsa \in IsaWord BY RCFacts DEF InitIsa, IsaWord, InlineCounts
<1> QED BY <1>1, <1>2

\* Setting one field of an isa word leaves an isa word.
LEMMA IsaExcept ==
    ASSUME NEW i \in IsaWord, NEW n \in InlineCounts, NEW b \in BOOLEAN
    PROVE  /\ [i EXCEPT !.extra_rc = n] \in IsaWord
           /\ SetCount(i, n, b) \in IsaWord
           /\ [i EXCEPT !.weakly_referenced = TRUE] \in IsaWord
           /\ [i EXCEPT !.has_assoc = TRUE] \in IsaWord
<1>1. [i EXCEPT !.extra_rc = n] \in IsaWord BY Zenon DEF IsaWord
<1>2. SetCount(i, n, b) \in IsaWord BY SMT DEF IsaWord, SetCount
<1>3. [i EXCEPT !.weakly_referenced = TRUE] \in IsaWord BY Zenon DEF IsaWord
<1>4. [i EXCEPT !.has_assoc = TRUE] \in IsaWord BY Zenon DEF IsaWord
<1> QED BY <1>1, <1>2, <1>3, <1>4

\* The fields of an isa word have their ranges.
LEMMA IsaFields ==
    ASSUME NEW i \in IsaWord
    PROVE  /\ i.extra_rc \in InlineCounts /\ i.nonpointer \in BOOLEAN
           /\ i.has_sidetable_rc \in BOOLEAN /\ i.weakly_referenced \in BOOLEAN
           /\ i.has_assoc \in BOOLEAN
BY Zenon DEF IsaWord

\* A missing and a new side table entry are entries.
LEMMA EntryTypes == NoEntry \in Entry /\ NewEntry \in Entry
BY DEF NoEntry, NewEntry, Entry

\* So is what find() or operator[] gives back.
LEMMA FindType == ASSUME NEW e \in Entry PROVE Find(e) \in Entry
BY EntryTypes DEF Find

\* Setting one field of an entry leaves an entry.
LEMMA EntryExcept ==
    ASSUME NEW e \in Entry, NEW n \in Int
    PROVE  /\ [e EXCEPT !.rc = n] \in Entry
           /\ [e EXCEPT !.deallocating = TRUE] \in Entry
           /\ [e EXCEPT !.pinned = TRUE] \in Entry
           /\ [e EXCEPT !.weakly_referenced = TRUE] \in Entry
<1>1. [e EXCEPT !.rc = n] \in Entry BY Zenon DEF Entry
<1>2. [e EXCEPT !.deallocating = TRUE] \in Entry BY Zenon DEF Entry
<1>3. [e EXCEPT !.pinned = TRUE] \in Entry BY Zenon DEF Entry
<1>4. [e EXCEPT !.weakly_referenced = TRUE] \in Entry BY Zenon DEF Entry
<1> QED BY <1>1, <1>2, <1>3, <1>4

\* The fields of an entry have their ranges.
LEMMA EntryFields ==
    ASSUME NEW e \in Entry
    PROVE  /\ e.rc \in Int /\ e.present \in BOOLEAN /\ e.deallocating \in BOOLEAN
           /\ e.pinned \in BOOLEAN /\ e.weakly_referenced \in BOOLEAN
BY Zenon DEF Entry

\* The side table operations return entries.
LEMMA EntryOps ==
    ASSUME NEW e \in Entry
    PROVE  /\ sidetable_retain(e) \in Entry
           /\ sidetable_tryRetain(e) \in Entry
           /\ sidetable_release(e) \in Entry
           /\ sidetable_addExtraRC_nolock(e, RC_HALF) \in Entry
           /\ sidetable_subExtraRC_nolock(e, RC_HALF) \in Entry
<1>1. PICK f \in Entry : f = Find(e) BY FindType
<1>2. f.rc + 1 \in Int /\ f.rc + RC_HALF \in Int BY EntryFields, RCFacts
<1>3. e.rc - 1 \in Int /\ e.rc - RC_HALF \in Int BY EntryFields, RCFacts
<1>4. sidetable_retain(e) \in Entry
  BY <1>1, <1>2, EntryExcept DEF sidetable_retain
<1>5. sidetable_tryRetain(e) \in Entry BY <1>4 DEF sidetable_tryRetain
<1>6. sidetable_addExtraRC_nolock(e, RC_HALF) \in Entry
  BY <1>1, <1>2, EntryExcept DEF sidetable_addExtraRC_nolock
<1>7. sidetable_subExtraRC_nolock(e, RC_HALF) \in Entry
  BY <1>3, EntryExcept DEF sidetable_subExtraRC_nolock
<1>8. sidetable_release(e) \in Entry
  BY <1>1, <1>3, EntryExcept DEF sidetable_release
<1> QED BY <1>4, <1>5, <1>6, <1>7, <1>8

\* sidetable_moveExtraRC_nolock leaves an entry, wherever the count was.
LEMMA MoveType ==
    ASSUME NEW e \in Entry, NEW i \in IsaWord
    PROVE  sidetable_moveExtraRC_nolock(e, i) \in Entry
<1> DEFINE n == IF i.extra_rc = 0 THEN 0 ELSE e.rc + i.extra_rc - 1
<1>1. n \in Int BY EntryFields, IsaFields, RCFacts DEF InlineCounts
<1>2. IsDeallocating(i) \in BOOLEAN BY DEF IsDeallocating
<1>3. i.weakly_referenced \in BOOLEAN BY IsaFields
<1> HIDE DEF n
<1>4. [present |-> TRUE, rc |-> n, deallocating |-> IsDeallocating(i),
       weakly_referenced |-> i.weakly_referenced,
       pinned |-> i.extra_rc = 0] \in Entry
  BY <1>1, <1>2, <1>3, Zenon DEF Entry
<1> QED BY <1>4 DEF n, sidetable_moveExtraRC_nolock

-----------------------------------------------------------------------------
(* Type correctness, one step per action.                                  *)

LocalsOK ==
    /\ tryRetain \in [Threads -> BOOLEAN]
    /\ full \in [Threads -> BOOLEAN]
    /\ locked \in [Threads -> BOOLEAN]
    /\ oldisa \in [Threads -> IsaWord]
    /\ newisa \in [Threads -> IsaWord]
    /\ ref \in [Threads -> Refs \cup {NoRef}]

\* The end of a call resets its locals.
LEMMA EndTypes == ASSUME TypeOK, NEW t \in Threads, End(t) PROVE LocalsOK'
BY IsaTypes DEF TypeOK, End, LocalsOK

\* The start of a call loads the isa.
LEMMA BeginTypes ==
    ASSUME TypeOK, NEW t \in Threads, NEW a \in BOOLEAN, NEW b \in BOOLEAN,
           NEW r \in Refs \cup {NoRef}, Begin(t, a, b, r)
    PROVE  LocalsOK'
BY DEF TypeOK, Begin, Load, LocalsOK

\* Unlocking leaves a lock that a thread or nobody holds.
LEMMA UnlockTypes ==
    ASSUME TypeOK, NEW t \in Threads, NEW b \in BOOLEAN,
           Unlock(t) \/ UnlockIf(t, b)
    PROVE  lock' \in Threads \cup {NoThread} /\ crashed' \in BOOLEAN
BY DEF TypeOK, Unlock, UnlockIf

\* Gaining and dropping a reference keep the owners' type.
LEMMA OwnerTypes ==
    ASSUME TypeOK, NEW t \in Threads, Gain(t) \/ Drop(t)
    PROVE  owner' \in [Refs -> Threads \cup {NoThread}]
BY DEF TypeOK, Gain, Drop, SetOwner

\* A thread goes to a known place.
LEMMA GotoTypes ==
    ASSUME TypeOK, NEW t \in Threads, NEW l \in PCs, Goto(t, l)
    PROVE  pc' \in [Threads -> PCs]
BY DEF TypeOK, Goto

\* Every step of a thread keeps the types.
LEMMA TypeStep == ASSUME TypeOK, NEW t \in Threads, Step(t) PROVE TypeOK'
<1> USE ConstantsAssumption, RCFacts, IsaTypes, EntryTypes, EndTypes,
    BeginTypes,
        UnlockTypes, OwnerTypes
    DEF TypeOK, LocalsOK, locals, PCs, Goto, Load, Return, Lock, Side, Fate,
        RRReturn, Reload
<1>1. ASSUME Retain(t) PROVE TypeOK'
  BY <1>1 DEF Retain
<1>2. ASSUME LoadWeak(t) PROVE TypeOK'
  BY <1>2 DEF LoadWeak
<1>3. ASSUME TryRetainRaw(t) PROVE TypeOK'
  BY <1>3, EntryOps DEF TryRetainRaw
<1>4. ASSUME RetainRaw(t) PROVE TypeOK'
  BY <1>4, EntryOps DEF RetainRaw
<1>5. ASSUME RetainSeesDeallocating(t) PROVE TypeOK'
  BY <1>5 DEF RetainSeesDeallocating
<1>6. ASSUME RetainInline(t) PROVE TypeOK'
  <2> USE DEF RetainInline, RetainLoop
  <2>1. PICK n \in InlineCounts : n = isa.extra_rc + 1
    BY <1>6, IsaFields DEF InlineCounts
  <2>2. isa' \in IsaWord BY <1>6, <2>1, IsaExcept
  <2>3. LocalsOK' BY <1>6
  <2>4. pc' \in [Threads -> PCs] BY <1>6
  <2>5. lock' \in Threads \cup {NoThread} /\ crashed' \in BOOLEAN
    BY <1>6 DEF UnlockIf, Unlock
  <2>6. owner' \in [Refs -> Threads \cup {NoThread}] BY <1>6
  <2> QED BY <1>6, <2>2, <2>3, <2>4, <2>5, <2>6
<1>7. ASSUME RetainOverflow(t) PROVE TypeOK'
  <2>1. tryRetain[t] \in BOOLEAN /\ ref[t] \in Refs \cup {NoRef} OBVIOUS
  <2>2. LocalsOK' BY <1>7, <2>1 DEF RetainOverflow, Begin
  <2> QED BY <1>7, <2>2 DEF RetainOverflow
<1>8. ASSUME RetainLock(t) PROVE TypeOK'
  BY <1>8 DEF RetainLock
<1>9. ASSUME RetainSplit(t) PROVE TypeOK'
  <2>1. RC_HALF \in InlineCounts BY DEF InlineCounts
  <2>2. isa' \in IsaWord BY <1>9, <2>1, IsaExcept DEF RetainSplit
  <2>3. LocalsOK' BY <1>9 DEF RetainSplit
  <2> QED BY <1>9, <2>2, <2>3 DEF RetainSplit
<1>10. ASSUME RetainTranscribe(t) PROVE TypeOK'
  BY <1>10, EntryOps DEF RetainTranscribe
<1>11. ASSUME RetainRetry(t) PROVE TypeOK'
  BY <1>11 DEF RetainRetry
<1>12. ASSUME WeakLoaded(t) PROVE TypeOK'
  BY <1>12 DEF WeakLoaded
<1>13. ASSUME Release(t) PROVE TypeOK'
  BY <1>13 DEF Release
<1>14. ASSUME ReleaseRaw(t) PROVE TypeOK'
  <2> USE DEF ReleaseRaw
  <2>1. LocalsOK' /\ pc' \in [Threads -> PCs] /\ deallocs' \in Nat
    <3>1. CASE LastRelease(refcnts)
      <4>1. SendDealloc(t) BY <1>14, <3>1
      <4>2. LocalsOK' BY <4>1 DEF SendDealloc
      <4> QED BY <4>1, <4>2 DEF SendDealloc
    <3>2. CASE ~LastRelease(refcnts) BY <1>14, <3>2
    <3> QED BY <3>1, <3>2
  <2>2. refcnts' \in Entry BY <1>14, EntryOps
  <2>3. lock' \in Threads \cup {NoThread} /\ crashed' \in BOOLEAN
    BY <1>14 DEF UnlockIf, Unlock
  <2>4. owner' \in [Refs -> Threads \cup {NoThread}] BY <1>14
  <2> QED BY <1>14, <2>1, <2>2, <2>3, <2>4
<1>15. ASSUME ReleaseSeesDeallocating(t) PROVE TypeOK'
  BY <1>15 DEF ReleaseSeesDeallocating
<1>16. ASSUME ReleaseInline(t) PROVE TypeOK'
  <2> USE DEF ReleaseInline, ReleaseLoop
  <2>1. PICK n \in InlineCounts : n = isa.extra_rc - 1
    BY <1>16, IsaFields DEF InlineCounts
  <2>2. isa' \in IsaWord BY <1>16, <2>1, IsaExcept
  <2>3. LocalsOK' /\ pc' \in [Threads -> PCs]
    <3>1. CASE IsDeallocating(isa') BY <1>16, <3>1
    <3>2. CASE ~IsDeallocating(isa') BY <1>16, <3>2
    <3> QED BY <3>1, <3>2
  <2>4. lock' \in Threads \cup {NoThread} /\ crashed' \in BOOLEAN
    BY <1>16 DEF UnlockIf, Unlock
  <2>5. owner' \in [Refs -> Threads \cup {NoThread}] BY <1>16
  <2> QED BY <1>16, <2>2, <2>3, <2>4, <2>5
<1>17. ASSUME ReleaseUnderflow(t) PROVE TypeOK'
  BY <1>17 DEF ReleaseUnderflow
<1>18. ASSUME ReleaseLock(t) PROVE TypeOK'
  BY <1>18 DEF ReleaseLock
<1>19. ASSUME ReleaseBorrow(t) PROVE TypeOK'
  BY <1>19, EntryOps DEF ReleaseBorrow
<1>20. ASSUME BorrowStore(t) PROVE TypeOK'
  <2> USE DEF BorrowStore, StoreBorrowed
  <2>1. PICK n \in InlineCounts : n = RC_HALF - 1 BY DEF InlineCounts
  <2>2. isa' \in IsaWord BY <1>20, <2>1, IsaExcept
  <2>3. owner' \in [Refs -> Threads \cup {NoThread}] BY <1>20
  <2> QED BY <1>20, <2>2, <2>3
<1>21. ASSUME BorrowFailed(t) PROVE TypeOK'
  BY <1>21 DEF BorrowFailed
<1>22. ASSUME BorrowStoreAgain(t) PROVE TypeOK'
  <2> USE DEF BorrowStoreAgain, StoreBorrowed
  <2>1. PICK n \in InlineCounts : n = oldisa[t].extra_rc + RC_HALF - 1
    BY <1>22, IsaFields DEF InlineCounts
  <2>2. isa' \in IsaWord BY <1>22, <2>1, IsaExcept
  <2>3. owner' \in [Refs -> Threads \cup {NoThread}] BY <1>22
  <2> QED BY <1>22, <2>2, <2>3
<1>23. ASSUME BorrowFailedAgain(t) PROVE TypeOK'
  BY <1>23 DEF BorrowFailedAgain
<1>24. ASSUME BorrowPutBack(t) PROVE TypeOK'
  BY <1>24, EntryOps DEF BorrowPutBack
<1>25. ASSUME BorrowStored(t) PROVE TypeOK'
  <2> USE DEF BorrowStored
  <2>1. LocalsOK' /\ pc' \in [Threads -> PCs] /\ deallocs' \in Nat
    <3>1. CASE pc[t] = "storedDying"
      <4>1. SendDealloc(t) BY <1>25, <3>1
      <4>2. LocalsOK' BY <4>1 DEF SendDealloc
      <4> QED BY <4>1, <4>2 DEF SendDealloc
    <3>2. CASE pc[t] # "storedDying" BY <1>25, <3>2
    <3> QED BY <3>1, <3>2
  <2>2. lock' \in Threads \cup {NoThread} /\ crashed' \in BOOLEAN
    BY <1>25 DEF Unlock
  <2> QED BY <1>25, <2>1, <2>2
<1>26. ASSUME ReleaseRetry(t) PROVE TypeOK'
  BY <1>26 DEF ReleaseRetry
<1>27. ASSUME ReleaseDeallocate(t) PROVE TypeOK'
  BY <1>27 DEF ReleaseDeallocate, SendDealloc
<1>28. ASSUME FastFree(t) PROVE TypeOK'
  BY <1>28 DEF FastFree
<1>29. ASSUME Destruct(t) PROVE TypeOK'
  BY <1>29 DEF Destruct
<1>30. ASSUME ClearRaw(t) PROVE TypeOK'
  BY <1>30 DEF ClearRaw
<1>31. ASSUME ClearNonpointer(t) PROVE TypeOK'
  BY <1>31 DEF ClearNonpointer
<1>32. ASSUME StoreWeak(t) PROVE TypeOK'
  BY <1>32 DEF StoreWeak
<1>33. ASSUME setWeaklyReferenced_nolock(t) PROVE TypeOK'
  <2> USE DEF setWeaklyReferenced_nolock
  <2>1. isa' \in IsaWord
    <3>1. [isa EXCEPT !.weakly_referenced = TRUE] \in IsaWord BY Zenon DEF IsaWord
    <3> QED BY <1>33, <3>1
  <2>2. refcnts' \in Entry
    <3>1. PICK e \in Entry : e = Find(refcnts) BY FindType
    <3>2. [e EXCEPT !.weakly_referenced = TRUE] \in Entry BY Zenon DEF Entry
    <3> QED BY <1>33, <3>1, <3>2
  <2>3. lock' \in Threads \cup {NoThread} /\ crashed' \in BOOLEAN
    BY <1>33 DEF Unlock
  <2>4. LocalsOK' BY <1>33
  <2> QED BY <1>33, <2>1, <2>2, <2>3, <2>4
<1>34. ASSUME StoreWeakRetry(t) PROVE TypeOK'
  BY <1>34 DEF StoreWeakRetry
<1>35. ASSUME DestroyWeak(t) PROVE TypeOK'
  BY <1>35 DEF DestroyWeak
<1>36. ASSUME SetAssociation(t) PROVE TypeOK'
  <2> USE DEF SetAssociation
  <2>1. CASE assoc BY <1>36, <2>1
  <2>2. CASE ~assoc
    <3>1. Goto(t, "setAssoc") /\ Load(t) BY <1>36, <2>2
    <3>2. pc' \in [Threads -> PCs] BY <3>1
    <3>3. oldisa' \in [Threads -> IsaWord] BY <3>1
    <3>4. assoc' \in BOOLEAN BY <1>36
    <3> QED BY <1>36, <3>2, <3>3, <3>4
  <2> QED BY <2>1, <2>2
<1>37. ASSUME ClearAssociation(t) PROVE TypeOK'
  BY <1>37 DEF ClearAssociation
<1>38. ASSUME setHasAssociatedObjects(t) PROVE TypeOK'
  <2> USE DEF setHasAssociatedObjects
  <2>1. isa' \in IsaWord
    <3>1. [isa EXCEPT !.has_assoc = TRUE] \in IsaWord BY Zenon DEF IsaWord
    <3> QED BY <1>38, <3>1
  <2>2. LocalsOK' BY <1>38
  <2> QED BY <1>38, <2>1, <2>2
<1>39. ASSUME SetAssociationRetry(t) PROVE TypeOK'
  BY <1>39 DEF SetAssociationRetry
<1>40. ASSUME ChangeLock(t) PROVE TypeOK'
  BY <1>40 DEF ChangeLock
<1>41. ASSUME ChangeStore(t) PROVE TypeOK'
  BY <1>41 DEF ChangeStore, ToRaw, ChangedIsa, UnlockIf
<1>42. ASSUME ChangeRetry(t) PROVE TypeOK'
  BY <1>42 DEF ChangeRetry, ChangedIsa
<1>43. ASSUME ChangeMove(t) PROVE TypeOK'
  BY <1>43, MoveType DEF ChangeMove
<1>44. ASSUME NEW l \in {"change", "changeRaw"}, SetClass(t, l) PROVE TypeOK'
  BY <1>44 DEF SetClass
<1> HIDE DEF TypeOK, LocalsOK, locals, PCs, Goto, Load, Return, Lock, Side,
    Fate, RRReturn, Reload
<1> QED
  BY <1>1, <1>2, <1>3, <1>4, <1>5, <1>6, <1>7, <1>8, <1>9, <1>10, <1>11,
      <1>12, <1>13, <1>14, <1>15, <1>16, <1>17, <1>18, <1>19, <1>20, <1>21,
      <1>22, <1>23, <1>24, <1>25, <1>26, <1>27, <1>28, <1>29, <1>30, <1>31,
      <1>32, <1>33, <1>34, <1>35, <1>36, <1>37, <1>38, <1>39, <1>40, <1>41,
      <1>42, <1>43, <1>44
  DEF Step, RetainStep, ReleaseStep, DeallocStep, FlagStep, ChangeStep

\* They hold at the start.
LEMMA TypeInit == Init => TypeOK
<1> SUFFICES ASSUME Init PROVE TypeOK OBVIOUS
<1> USE IsaTypes, EntryTypes DEF Init
<1>1. owner \in [Refs -> Threads \cup {NoThread}] OBVIOUS
<1> QED BY <1>1 DEF TypeOK, PCs

\* Every step of the system keeps them.
LEMMA TypeNext == TypeOK /\ [Next]_vars => TypeOK'
<1> SUFFICES ASSUME TypeOK, [Next]_vars PROVE TypeOK' OBVIOUS
<1>1. CASE UNCHANGED vars BY <1>1 DEF TypeOK, vars, locals
<1>2. ASSUME NEW t \in Threads, Step(t) PROVE TypeOK' BY <1>2, TypeStep
<1>3. ASSUME NEW t \in Threads, NEW u \in Threads \ {t},
    Handoff(t, u) PROVE TypeOK'
  <2>1. owner' \in [Refs -> Threads \cup {NoThread}] BY <1>3 DEF TypeOK,
      Handoff
  <2> QED BY <1>3, <2>1 DEF TypeOK, Handoff, locals, Side, Fate
<1> QED BY <1>1, <1>2, <1>3 DEF Next

\* For any number of threads, references and callers of object_setClass and
\* any width of the inline count, every variable keeps its type: no path of
\* rootRetain, rootRelease or changeIsa stores an inline count outside the
\* bit-field, or leaves a local behind that is not an isa.
THEOREM TypeCorrect == Spec => []TypeOK
BY TypeInit, TypeNext, PTL DEF Spec

-----------------------------------------------------------------------------
(* Locals, lock and tokens.  From here on a lemma about a step assumes the  *)
(* whole inductive invariant before it and the types after it, and its      *)
(* first steps unfold the parts of the invariant it uses.                   *)

\* A step leaves the locals of the thread as FramesOK has them.
LEMMA FramesStep ==
    ASSUME IInv, TypeOK', NEW t \in Threads, Step(t)
    PROVE  FramesOK'
<1>h. TypeOK /\ FramesOK BY DEF IInv
<1> USE <1>h, ConstantsAssumption DEF TypeOK, FramesOK, PCs, Goto, Load,
    Begin, End, Return, RRReturn, Reload, locals
<1>1. ASSUME Retain(t) PROVE FramesOK'
  BY <1>1 DEF Retain
<1>2. ASSUME LoadWeak(t) PROVE FramesOK'
  BY <1>2 DEF LoadWeak
<1>3. ASSUME TryRetainRaw(t) PROVE FramesOK'
  BY <1>3 DEF TryRetainRaw
<1>4. ASSUME RetainRaw(t) PROVE FramesOK'
  BY <1>4 DEF RetainRaw
<1>5. ASSUME RetainSeesDeallocating(t) PROVE FramesOK'
  BY <1>5 DEF RetainSeesDeallocating
<1>6. ASSUME RetainInline(t) PROVE FramesOK'
  BY <1>6 DEF RetainInline, RetainLoop
<1>7. ASSUME RetainOverflow(t) PROVE FramesOK'
  BY <1>7 DEF RetainOverflow, RetainLoop
<1>8. ASSUME RetainLock(t) PROVE FramesOK'
  BY <1>8 DEF RetainLock, RetainLoop
<1>9. ASSUME RetainSplit(t) PROVE FramesOK'
  BY <1>9 DEF RetainSplit, RetainLoop
<1>10. ASSUME RetainTranscribe(t) PROVE FramesOK'
  BY <1>10 DEF RetainTranscribe
<1>11. ASSUME RetainRetry(t) PROVE FramesOK'
  BY <1>11 DEF RetainRetry, RetainLoop
<1>12. ASSUME WeakLoaded(t) PROVE FramesOK'
  BY <1>12 DEF WeakLoaded
<1>13. ASSUME Release(t) PROVE FramesOK'
  BY <1>13 DEF Release
<1>14. ASSUME ReleaseRaw(t) PROVE FramesOK'
  BY <1>14 DEF ReleaseRaw, SendDealloc
<1>15. ASSUME ReleaseSeesDeallocating(t) PROVE FramesOK'
  BY <1>15 DEF ReleaseSeesDeallocating
<1>16. ASSUME ReleaseInline(t) PROVE FramesOK'
  BY <1>16 DEF ReleaseInline, ReleaseLoop
<1>17. ASSUME ReleaseUnderflow(t) PROVE FramesOK'
  BY <1>17 DEF ReleaseUnderflow, ReleaseLoop
<1>18. ASSUME ReleaseLock(t) PROVE FramesOK'
  BY <1>18 DEF ReleaseLock, ReleaseLoop
<1>19. ASSUME ReleaseBorrow(t) PROVE FramesOK'
  BY <1>19 DEF ReleaseBorrow, ReleaseLoop
<1>20. ASSUME BorrowStore(t) PROVE FramesOK'
  BY <1>20 DEF BorrowStore, StoreBorrowed
<1>21. ASSUME BorrowFailed(t) PROVE FramesOK'
  BY <1>21 DEF BorrowFailed
<1>22. ASSUME BorrowStoreAgain(t) PROVE FramesOK'
  BY <1>22 DEF BorrowStoreAgain, StoreBorrowed
<1>23. ASSUME BorrowFailedAgain(t) PROVE FramesOK'
  BY <1>23 DEF BorrowFailedAgain
<1>24. ASSUME BorrowPutBack(t) PROVE FramesOK'
  BY <1>24 DEF BorrowPutBack
<1>25. ASSUME BorrowStored(t) PROVE FramesOK'
  BY <1>25 DEF BorrowStored, SendDealloc
<1>26. ASSUME ReleaseRetry(t) PROVE FramesOK'
  BY <1>26 DEF ReleaseRetry, ReleaseLoop
<1>27. ASSUME ReleaseDeallocate(t) PROVE FramesOK'
  BY <1>27 DEF ReleaseDeallocate, SendDealloc
<1>28. ASSUME FastFree(t) PROVE FramesOK'
  BY <1>28 DEF FastFree
<1>29. ASSUME Destruct(t) PROVE FramesOK'
  BY <1>29 DEF Destruct
<1>30. ASSUME ClearRaw(t) PROVE FramesOK'
  BY <1>30 DEF ClearRaw
<1>31. ASSUME ClearNonpointer(t) PROVE FramesOK'
  BY <1>31 DEF ClearNonpointer
<1>32. ASSUME StoreWeak(t) PROVE FramesOK'
  BY <1>32 DEF StoreWeak
<1>33. ASSUME setWeaklyReferenced_nolock(t) PROVE FramesOK'
  BY <1>33 DEF setWeaklyReferenced_nolock
<1>34. ASSUME StoreWeakRetry(t) PROVE FramesOK'
  BY <1>34 DEF StoreWeakRetry
<1>35. ASSUME DestroyWeak(t) PROVE FramesOK'
  BY <1>35 DEF DestroyWeak
<1>36. ASSUME SetAssociation(t) PROVE FramesOK'
  BY <1>36 DEF SetAssociation
<1>37. ASSUME ClearAssociation(t) PROVE FramesOK'
  BY <1>37 DEF ClearAssociation
<1>38. ASSUME setHasAssociatedObjects(t) PROVE FramesOK'
  BY <1>38 DEF setHasAssociatedObjects
<1>39. ASSUME SetAssociationRetry(t) PROVE FramesOK'
  BY <1>39 DEF SetAssociationRetry
<1>40. ASSUME NEW l \in {"change", "changeRaw"}, SetClass(t, l) PROVE FramesOK'
  BY <1>40 DEF SetClass
<1>41. ASSUME ChangeLock(t) PROVE FramesOK'
  BY <1>41 DEF ChangeLock, Changing, ToRaw
<1>42. ASSUME ChangeStore(t) PROVE FramesOK'
  BY <1>42 DEF ChangeStore, Changing, ToRaw, ChangedIsa
<1>43. ASSUME ChangeRetry(t) PROVE FramesOK'
  BY <1>43 DEF ChangeRetry, Changing, ToRaw, ChangedIsa
<1>44. ASSUME ChangeMove(t) PROVE FramesOK'
  BY <1>44 DEF ChangeMove
<1> HIDE DEF TypeOK, FramesOK, PCs, Goto, Load, Begin, End, Return, RRReturn,
    Reload, locals
<1> QED
  BY <1>1, <1>2, <1>3, <1>4, <1>5, <1>6, <1>7, <1>8, <1>9, <1>10, <1>11,
      <1>12, <1>13, <1>14, <1>15, <1>16, <1>17, <1>18, <1>19, <1>20, <1>21,
      <1>22, <1>23, <1>24, <1>25, <1>26, <1>27, <1>28, <1>29, <1>30, <1>31,
      <1>32, <1>33, <1>34, <1>35, <1>36, <1>37, <1>38, <1>39, <1>40, <1>41,
      <1>42, <1>43, <1>44
  DEF Step, RetainStep, ReleaseStep, DeallocStep, FlagStep, ChangeStep

\* Only the owner of the side table lock is where the lock is needed.
LEMMA LockStep ==
    ASSUME IInv, TypeOK', NEW t \in Threads, Step(t)
    PROVE  LockOK'
<1>h. TypeOK /\ FramesOK /\ LockOK BY DEF IInv
<1> USE <1>h, ConstantsAssumption DEF TypeOK, FramesOK, LockOK, HasLock,
    LockedPCs, PCs, Goto, Load, Begin, End, Return, RRReturn, Reload, Lock,
    Unlock, UnlockIf, locals
<1>1. ASSUME Retain(t) PROVE LockOK'
  BY <1>1 DEF Retain
<1>2. ASSUME LoadWeak(t) PROVE LockOK'
  BY <1>2 DEF LoadWeak
<1>3. ASSUME TryRetainRaw(t) PROVE LockOK'
  BY <1>3 DEF TryRetainRaw
<1>4. ASSUME RetainRaw(t) PROVE LockOK'
  BY <1>4 DEF RetainRaw
<1>5. ASSUME RetainSeesDeallocating(t) PROVE LockOK'
  BY <1>5 DEF RetainSeesDeallocating
<1>6. ASSUME RetainInline(t) PROVE LockOK'
  BY <1>6 DEF RetainInline, RetainLoop
<1>7. ASSUME RetainOverflow(t) PROVE LockOK'
  BY <1>7 DEF RetainOverflow, RetainLoop
<1>8. ASSUME RetainLock(t) PROVE LockOK'
  BY <1>8 DEF RetainLock, RetainLoop
<1>9. ASSUME RetainSplit(t) PROVE LockOK'
  BY <1>9 DEF RetainSplit, RetainLoop
<1>10. ASSUME RetainTranscribe(t) PROVE LockOK'
  BY <1>10 DEF RetainTranscribe
<1>11. ASSUME RetainRetry(t) PROVE LockOK'
  BY <1>11 DEF RetainRetry, RetainLoop
<1>12. ASSUME WeakLoaded(t) PROVE LockOK'
  BY <1>12 DEF WeakLoaded
<1>13. ASSUME Release(t) PROVE LockOK'
  BY <1>13 DEF Release
<1>14. ASSUME ReleaseRaw(t) PROVE LockOK'
  BY <1>14 DEF ReleaseRaw, SendDealloc
<1>15. ASSUME ReleaseSeesDeallocating(t) PROVE LockOK'
  BY <1>15 DEF ReleaseSeesDeallocating
<1>16. ASSUME ReleaseInline(t) PROVE LockOK'
  BY <1>16 DEF ReleaseInline, ReleaseLoop
<1>17. ASSUME ReleaseUnderflow(t) PROVE LockOK'
  BY <1>17 DEF ReleaseUnderflow, ReleaseLoop
<1>18. ASSUME ReleaseLock(t) PROVE LockOK'
  BY <1>18 DEF ReleaseLock, ReleaseLoop
<1>19. ASSUME ReleaseBorrow(t) PROVE LockOK'
  BY <1>19 DEF ReleaseBorrow, ReleaseLoop
<1>20. ASSUME BorrowStore(t) PROVE LockOK'
  BY <1>20 DEF BorrowStore, StoreBorrowed
<1>21. ASSUME BorrowFailed(t) PROVE LockOK'
  BY <1>21 DEF BorrowFailed
<1>22. ASSUME BorrowStoreAgain(t) PROVE LockOK'
  BY <1>22 DEF BorrowStoreAgain, StoreBorrowed
<1>23. ASSUME BorrowFailedAgain(t) PROVE LockOK'
  BY <1>23 DEF BorrowFailedAgain
<1>24. ASSUME BorrowPutBack(t) PROVE LockOK'
  BY <1>24 DEF BorrowPutBack
<1>25. ASSUME BorrowStored(t) PROVE LockOK'
  BY <1>25 DEF BorrowStored, SendDealloc
<1>26. ASSUME ReleaseRetry(t) PROVE LockOK'
  BY <1>26 DEF ReleaseRetry, ReleaseLoop
<1>27. ASSUME ReleaseDeallocate(t) PROVE LockOK'
  BY <1>27 DEF ReleaseDeallocate, SendDealloc
<1>28. ASSUME FastFree(t) PROVE LockOK'
  BY <1>28 DEF FastFree
<1>29. ASSUME Destruct(t) PROVE LockOK'
  BY <1>29 DEF Destruct
<1>30. ASSUME ClearRaw(t) PROVE LockOK'
  BY <1>30 DEF ClearRaw
<1>31. ASSUME ClearNonpointer(t) PROVE LockOK'
  BY <1>31 DEF ClearNonpointer
<1>32. ASSUME StoreWeak(t) PROVE LockOK'
  BY <1>32 DEF StoreWeak
<1>33. ASSUME setWeaklyReferenced_nolock(t) PROVE LockOK'
  BY <1>33 DEF setWeaklyReferenced_nolock
<1>34. ASSUME StoreWeakRetry(t) PROVE LockOK'
  BY <1>34 DEF StoreWeakRetry
<1>35. ASSUME DestroyWeak(t) PROVE LockOK'
  BY <1>35 DEF DestroyWeak
<1>36. ASSUME SetAssociation(t) PROVE LockOK'
  BY <1>36 DEF SetAssociation
<1>37. ASSUME ClearAssociation(t) PROVE LockOK'
  BY <1>37 DEF ClearAssociation
<1>38. ASSUME setHasAssociatedObjects(t) PROVE LockOK'
  BY <1>38 DEF setHasAssociatedObjects
<1>39. ASSUME SetAssociationRetry(t) PROVE LockOK'
  BY <1>39 DEF SetAssociationRetry
<1>40. ASSUME NEW l \in {"change", "changeRaw"}, SetClass(t, l) PROVE LockOK'
  BY <1>40 DEF SetClass
<1>41. ASSUME ChangeLock(t) PROVE LockOK'
  BY <1>41 DEF ChangeLock, Changing, ToRaw
<1>42. ASSUME ChangeStore(t) PROVE LockOK'
  BY <1>42 DEF ChangeStore, Changing, ToRaw, ChangedIsa
<1>43. ASSUME ChangeRetry(t) PROVE LockOK'
  BY <1>43 DEF ChangeRetry, Changing, ToRaw, ChangedIsa
<1>44. ASSUME ChangeMove(t) PROVE LockOK'
  BY <1>44 DEF ChangeMove
<1> QED
  BY <1>1, <1>2, <1>3, <1>4, <1>5, <1>6, <1>7, <1>8, <1>9, <1>10, <1>11,
      <1>12, <1>13, <1>14, <1>15, <1>16, <1>17, <1>18, <1>19, <1>20, <1>21,
      <1>22, <1>23, <1>24, <1>25, <1>26, <1>27, <1>28, <1>29, <1>30, <1>31,
      <1>32, <1>33, <1>34, <1>35, <1>36, <1>37, <1>38, <1>39, <1>40, <1>41,
      <1>42, <1>43, <1>44
  DEF Step, RetainStep, ReleaseStep, DeallocStep, FlagStep, ChangeStep

\* Each call in progress has a reference of its own, which it owns until it
\* is released and from when it is retained.
LEMMA TokensStep ==
    ASSUME IInv, TypeOK', NEW t \in Threads, Step(t)
    PROVE  TokensOK'
<1>h. TypeOK /\ FramesOK /\ LockOK /\ TokensOK /\ BorrowOK /\ OldIsaOK BY DEF IInv
<1> USE <1>h, ConstantsAssumption DEF TypeOK, FramesOK, LockOK, HasLock,
    LockedPCs, TokensOK, Holds, Owns, Unused, Gain, Drop, SetOwner, PCs, Goto,
    Load, Begin, End, Return, RRReturn, Reload, Lock, Unlock, UnlockIf, locals
<1>1. ASSUME Retain(t) PROVE TokensOK'
  BY <1>1 DEF Retain
<1>2. ASSUME LoadWeak(t) PROVE TokensOK'
  BY <1>2 DEF LoadWeak
<1>3. ASSUME TryRetainRaw(t) PROVE TokensOK'
  BY <1>3 DEF TryRetainRaw
<1>4. ASSUME RetainRaw(t) PROVE TokensOK'
  BY <1>4 DEF RetainRaw
<1>5. ASSUME RetainSeesDeallocating(t) PROVE TokensOK'
  BY <1>5 DEF RetainSeesDeallocating
<1>6. ASSUME RetainInline(t) PROVE TokensOK'
  BY <1>6 DEF RetainInline, RetainLoop
<1>7. ASSUME RetainOverflow(t) PROVE TokensOK'
  BY <1>7 DEF RetainOverflow, RetainLoop
<1>8. ASSUME RetainLock(t) PROVE TokensOK'
  BY <1>8 DEF RetainLock, RetainLoop
<1>9. ASSUME RetainSplit(t) PROVE TokensOK'
  BY <1>9 DEF RetainSplit, RetainLoop, OldIsaOK, OldIsaOf, LoopPCs, Fresh,
      IsDeallocating
<1>10. ASSUME RetainTranscribe(t) PROVE TokensOK'
  BY <1>10 DEF RetainTranscribe
<1>11. ASSUME RetainRetry(t) PROVE TokensOK'
  BY <1>11 DEF RetainRetry, RetainLoop
<1>12. ASSUME WeakLoaded(t) PROVE TokensOK'
  BY <1>12 DEF WeakLoaded
<1>13. ASSUME Release(t) PROVE TokensOK'
  BY <1>13 DEF Release, BorrowOK, BorrowOf
<1>14. ASSUME ReleaseRaw(t) PROVE TokensOK'
  BY <1>14 DEF ReleaseRaw, SendDealloc
<1>15. ASSUME ReleaseSeesDeallocating(t) PROVE TokensOK'
  BY <1>15 DEF ReleaseSeesDeallocating
<1>16. ASSUME ReleaseInline(t) PROVE TokensOK'
  BY <1>16 DEF ReleaseInline, ReleaseLoop, OldIsaOK, OldIsaOf, LoopPCs
<1>17. ASSUME ReleaseUnderflow(t) PROVE TokensOK'
  BY <1>17 DEF ReleaseUnderflow, ReleaseLoop
<1>18. ASSUME ReleaseLock(t) PROVE TokensOK'
  BY <1>18 DEF ReleaseLock, ReleaseLoop
<1>19. ASSUME ReleaseBorrow(t) PROVE TokensOK'
  BY <1>19 DEF ReleaseBorrow, ReleaseLoop, OldIsaOK, OldIsaOf, LoopPCs
<1>20. ASSUME BorrowStore(t) PROVE TokensOK'
  BY <1>20 DEF BorrowStore, StoreBorrowed
<1>21. ASSUME BorrowFailed(t) PROVE TokensOK'
  BY <1>21 DEF BorrowFailed
<1>22. ASSUME BorrowStoreAgain(t) PROVE TokensOK'
  BY <1>22 DEF BorrowStoreAgain, StoreBorrowed
<1>23. ASSUME BorrowFailedAgain(t) PROVE TokensOK'
  BY <1>23 DEF BorrowFailedAgain
<1>24. ASSUME BorrowPutBack(t) PROVE TokensOK'
  BY <1>24 DEF BorrowPutBack
<1>25. ASSUME BorrowStored(t) PROVE TokensOK'
  BY <1>25 DEF BorrowStored, SendDealloc
<1>26. ASSUME ReleaseRetry(t) PROVE TokensOK'
  BY <1>26 DEF ReleaseRetry, ReleaseLoop
<1>27. ASSUME ReleaseDeallocate(t) PROVE TokensOK'
  BY <1>27 DEF ReleaseDeallocate, SendDealloc
<1>28. ASSUME FastFree(t) PROVE TokensOK'
  BY <1>28 DEF FastFree
<1>29. ASSUME Destruct(t) PROVE TokensOK'
  BY <1>29 DEF Destruct
<1>30. ASSUME ClearRaw(t) PROVE TokensOK'
  BY <1>30 DEF ClearRaw
<1>31. ASSUME ClearNonpointer(t) PROVE TokensOK'
  BY <1>31 DEF ClearNonpointer
<1>32. ASSUME StoreWeak(t) PROVE TokensOK'
  BY <1>32 DEF StoreWeak
<1>33. ASSUME setWeaklyReferenced_nolock(t) PROVE TokensOK'
  BY <1>33 DEF setWeaklyReferenced_nolock
<1>34. ASSUME StoreWeakRetry(t) PROVE TokensOK'
  BY <1>34 DEF StoreWeakRetry
<1>35. ASSUME DestroyWeak(t) PROVE TokensOK'
  BY <1>35 DEF DestroyWeak
<1>36. ASSUME SetAssociation(t) PROVE TokensOK'
  BY <1>36 DEF SetAssociation
<1>37. ASSUME ClearAssociation(t) PROVE TokensOK'
  BY <1>37 DEF ClearAssociation
<1>38. ASSUME setHasAssociatedObjects(t) PROVE TokensOK'
  BY <1>38 DEF setHasAssociatedObjects
<1>39. ASSUME SetAssociationRetry(t) PROVE TokensOK'
  BY <1>39 DEF SetAssociationRetry
<1>40. ASSUME NEW l \in {"change", "changeRaw"}, SetClass(t, l) PROVE TokensOK'
  BY <1>40 DEF SetClass
<1>41. ASSUME ChangeLock(t) PROVE TokensOK'
  BY <1>41 DEF ChangeLock, Changing, ToRaw
<1>42. ASSUME ChangeStore(t) PROVE TokensOK'
  BY <1>42 DEF ChangeStore, Changing, ToRaw, ChangedIsa
<1>43. ASSUME ChangeRetry(t) PROVE TokensOK'
  BY <1>43 DEF ChangeRetry, Changing, ToRaw, ChangedIsa
<1>44. ASSUME ChangeMove(t) PROVE TokensOK'
  BY <1>44 DEF ChangeMove
<1> HIDE DEF TypeOK, FramesOK, LockOK, HasLock, LockedPCs, TokensOK, Holds,
    Owns, Unused, Gain, Drop, SetOwner, PCs, Goto, Load, Begin, End, Return,
    RRReturn, Reload, Lock, Unlock, UnlockIf, locals
<1> QED
  BY <1>1, <1>2, <1>3, <1>4, <1>5, <1>6, <1>7, <1>8, <1>9, <1>10, <1>11,
      <1>12, <1>13, <1>14, <1>15, <1>16, <1>17, <1>18, <1>19, <1>20, <1>21,
      <1>22, <1>23, <1>24, <1>25, <1>26, <1>27, <1>28, <1>29, <1>30, <1>31,
      <1>32, <1>33, <1>34, <1>35, <1>36, <1>37, <1>38, <1>39, <1>40, <1>41,
      <1>42, <1>43, <1>44
  DEF Step, RetainStep, ReleaseStep, DeallocStep, FlagStep, ChangeStep

-----------------------------------------------------------------------------
(* What the parts of the invariant say about the counts.                   *)

\* The references in existence are finitely many.
LEMMA LiveFacts ==
    TypeOK => /\ IsFiniteSet(Live) /\ Cardinality(Live) \in Nat
              /\ Cardinality(Live) = 0 <=> Live = {}
<1> SUFFICES ASSUME TypeOK
             PROVE  /\ IsFiniteSet(Live) /\ Cardinality(Live) \in Nat
                    /\ Cardinality(Live) = 0 <=> Live = {}
  OBVIOUS
<1>1. IsFiniteSet(Live)
  <2>1. Live \subseteq Refs BY DEF Live
  <2> QED BY <2>1, FS_Subset, ConstantsAssumption
<1> QED BY <1>1, FS_CardinalityType, FS_EmptySet

\* The same of the next state.
LEMMA LiveFactsNext ==
    TypeOK' => (/\ IsFiniteSet(Live) /\ Cardinality(Live) \in Nat
                /\ Cardinality(Live) = 0 <=> Live = {})'
BY LiveFacts, PTL

\* Counts in the side table come and go in halves of the inline range.
LEMMA HalfFacts ==
    /\ InHalves(0)
    /\ \A n \in Int : InHalves(n) =>
          /\ n \in Nat /\ (n # 0 => n >= RC_HALF)
          /\ InHalves(n + RC_HALF) /\ (n # 0 => InHalves(n - RC_HALF))
<1>1. InHalves(0)
  <2>1. 0 = 0 * RC_HALF BY RCFacts
  <2> QED BY <2>1 DEF InHalves
<1>2. ASSUME NEW n \in Int, InHalves(n)
      PROVE  /\ n \in Nat /\ (n # 0 => n >= RC_HALF)
             /\ InHalves(n + RC_HALF) /\ (n # 0 => InHalves(n - RC_HALF))
  <2>1. PICK k \in 0 .. n : n = k * RC_HALF BY <1>2 DEF InHalves
  <2>2. k \in Nat /\ n \in Nat BY <2>1
  <2>3. n + RC_HALF = (k + 1) * RC_HALF BY <2>1, <2>2, RCFacts
  <2>4. InHalves(n + RC_HALF)
    <3>1. k + 1 \in 0 .. (n + RC_HALF) BY <2>1, RCFacts
    <3> QED BY <2>3, <3>1 DEF InHalves
  <2>5. CASE k = 0
    <3>1. n = 0 BY <2>1, <2>5, RCFacts
    <3> QED BY <2>2, <2>4, <3>1
  <2>6. CASE k # 0
    <3>1. k - 1 \in Nat BY <2>2, <2>6
    <3>2. (k - 1) * RC_HALF \in Nat BY <3>1, RCFacts
    <3>3. n - RC_HALF = (k - 1) * RC_HALF BY <2>1, <2>2, RCFacts
    <3>4. n >= RC_HALF BY <2>2, <3>2, <3>3, RCFacts
    <3>5. k - 1 <= (k - 1) * RC_HALF BY <3>1, RCFacts
    <3>6. InHalves(n - RC_HALF)
      <4>1. k - 1 \in 0 .. (n - RC_HALF) BY <3>1, <3>3, <3>5
      <4> QED BY <3>3, <4>1 DEF InHalves
    <3> QED BY <2>2, <2>4, <3>4, <3>6
  <2> QED BY <2>5, <2>6
<1> QED BY <1>1, <1>2

\* What is on its way is a natural number.
LEMMA InFlightNat == ASSUME TypeOK, NEW t \in Threads PROVE InFlight(t) \in Nat
BY RCFacts DEF TypeOK, IsaWord, InlineCounts, InFlight

\* A nonpointer isa's counts are natural numbers.
LEMMA SideCountNat ==
    ASSUME TypeOK, SideOK, isa.nonpointer
    PROVE  /\ SideCount \in Nat /\ refcnts.rc \in Nat
           /\ RetainCount = isa.extra_rc + SideCount
           /\ isa.extra_rc \in Nat /\ isa.extra_rc <= RC_MAX
<1>1. refcnts.rc \in Int BY DEF TypeOK, Entry
<1>2. refcnts.rc \in Nat BY <1>1, HalfFacts DEF SideOK, SplitOK
<1>3. SideCount \in Nat BY <1>2, InFlightNat DEF SideCount, TypeOK
<1> QED BY <1>2, <1>3, RCFacts DEF RetainCount, TypeOK, IsaWord, InlineCounts

\* newisa.isDeallocating() tells whether the last reference is gone.
LEMMA DeadIffNoCount ==
    TypeOK /\ SideOK /\ CountMatchesReferences /\ ~freed /\ isa.nonpointer
    => (IsDeallocating(isa) <=> Live = {})
<1> SUFFICES ASSUME TypeOK, SideOK, CountMatchesReferences, ~freed,
    isa.nonpointer
             PROVE  IsDeallocating(isa) <=> Live = {}
  OBVIOUS
<1>1. RetainCount = Cardinality(Live) BY DEF CountMatchesReferences, Pinned
<1>2. isa.has_sidetable_rc <=> SideCount > 0 BY DEF SideOK, SplitOK
<1> QED BY <1>1, <1>2, SideCountNat, LiveFacts DEF IsDeallocating

\* The same of the next state.
LEMMA DeadIffNoCountNext ==
    (TypeOK /\ SideOK /\ CountMatchesReferences /\ ~freed /\ isa.nonpointer)'
    => (IsDeallocating(isa) <=> Live = {})'
BY DeadIffNoCount, PTL

\* A call that uses a reference finds the object alive; one that the
\* deallocating thread makes finds it dead and not yet freed.
LEMMA AliveFacts ==
    ASSUME IInv, NEW t \in Threads
    PROVE  /\ ref[t] # NoRef /\ pc[t] = "release" => ~freed /\ Live # {}
           /\ ref[t] # NoRef /\ pc[t] = "retain" /\ ~tryRetain[t] => ~freed /\ Live # {}
           /\ pc[t] \in {"borrow", "borrowAgain", "putBack", "transcribe"}
                 => ref[t] # NoRef /\ ~freed /\ Live # {}
           /\ Holds(t) => ~freed /\ Live # {}
           /\ Dying(t) => ~freed /\ Live = {}
           /\ Dying(t) /\ isa.nonpointer => IsDeallocating(isa)
           /\ Holds(t) /\ isa.nonpointer => ~IsDeallocating(isa)
<1>1. Holds(t) => Live # {} BY ConstantsAssumption DEF Holds, Owns, Live
<1>2. freed => Live = {} BY DEF IInv, DeathOK
<1>3. ASSUME NEW r \in Refs, owner[r] = t PROVE Holds(t) BY <1>3 DEF Holds,
    Owns
<1>4. ref[t] # NoRef => ref[t] \in Refs BY DEF IInv, TypeOK
<1>5. Dying(t) => ~freed /\ Live = {} BY DEF IInv, DeathOK
<1>6. ~freed /\ isa.nonpointer => (IsDeallocating(isa) <=> Live = {})
  BY DeadIffNoCount DEF IInv
<1>7. Holds(t) => ~freed BY <1>1, <1>2
<1>8. /\ Dying(t) /\ isa.nonpointer => IsDeallocating(isa)
      /\ Holds(t) /\ isa.nonpointer => ~IsDeallocating(isa)
  BY <1>1, <1>5, <1>6, <1>7
<1>9. /\ ref[t] # NoRef /\ pc[t] = "release" => Holds(t)
      /\ ref[t] # NoRef /\ pc[t] = "retain" /\ ~tryRetain[t] => Holds(t)
      /\ pc[t] \in {"borrow", "borrowAgain", "putBack", "transcribe"}
            => ref[t] # NoRef /\ Holds(t)
  BY <1>3, <1>4 DEF IInv, TokensOK
<1> QED BY <1>1, <1>5, <1>7, <1>8, <1>9

-----------------------------------------------------------------------------
(* What a step of one thread leaves alone.                                 *)

\* No thread touches another one's frame.
LEMMA OthersUntouched ==
    ASSUME TypeOK, NEW t \in Threads, Step(t), NEW u \in Threads, u # t
    PROVE  /\ pc'[u] = pc[u] /\ tryRetain'[u] = tryRetain[u] /\ full'[u] = full[u]
           /\ locked'[u] = locked[u] /\ oldisa'[u] = oldisa[u]
           /\ newisa'[u] = newisa[u] /\ ref'[u] = ref[u]
<1> DEFINE G == /\ pc'[u] = pc[u] /\ tryRetain'[u] = tryRetain[u]
                /\ full'[u] = full[u] /\ locked'[u] = locked[u]
                /\ oldisa'[u] = oldisa[u] /\ newisa'[u] = newisa[u]
                /\ ref'[u] = ref[u]
<1> USE DEF TypeOK, PCs, Goto, Load, Begin, End, Return, RRReturn, Reload,
    Lock, Unlock, UnlockIf, locals
<1>1. ASSUME Retain(t) PROVE G
  BY <1>1 DEF Retain
<1>2. ASSUME LoadWeak(t) PROVE G
  BY <1>2 DEF LoadWeak
<1>3. ASSUME TryRetainRaw(t) PROVE G
  BY <1>3 DEF TryRetainRaw
<1>4. ASSUME RetainRaw(t) PROVE G
  BY <1>4 DEF RetainRaw
<1>5. ASSUME RetainSeesDeallocating(t) PROVE G
  BY <1>5 DEF RetainSeesDeallocating
<1>6. ASSUME RetainInline(t) PROVE G
  BY <1>6 DEF RetainInline, RetainLoop
<1>7. ASSUME RetainOverflow(t) PROVE G
  BY <1>7 DEF RetainOverflow, RetainLoop
<1>8. ASSUME RetainLock(t) PROVE G
  BY <1>8 DEF RetainLock, RetainLoop
<1>9. ASSUME RetainSplit(t) PROVE G
  BY <1>9 DEF RetainSplit, RetainLoop
<1>10. ASSUME RetainTranscribe(t) PROVE G
  BY <1>10 DEF RetainTranscribe
<1>11. ASSUME RetainRetry(t) PROVE G
  BY <1>11 DEF RetainRetry, RetainLoop
<1>12. ASSUME WeakLoaded(t) PROVE G
  BY <1>12 DEF WeakLoaded
<1>13. ASSUME Release(t) PROVE G
  BY <1>13 DEF Release
<1>14. ASSUME ReleaseRaw(t) PROVE G
  BY <1>14 DEF ReleaseRaw, SendDealloc
<1>15. ASSUME ReleaseSeesDeallocating(t) PROVE G
  BY <1>15 DEF ReleaseSeesDeallocating
<1>16. ASSUME ReleaseInline(t) PROVE G
  BY <1>16 DEF ReleaseInline, ReleaseLoop
<1>17. ASSUME ReleaseUnderflow(t) PROVE G
  BY <1>17 DEF ReleaseUnderflow, ReleaseLoop
<1>18. ASSUME ReleaseLock(t) PROVE G
  BY <1>18 DEF ReleaseLock, ReleaseLoop
<1>19. ASSUME ReleaseBorrow(t) PROVE G
  BY <1>19 DEF ReleaseBorrow, ReleaseLoop
<1>20. ASSUME BorrowStore(t) PROVE G
  BY <1>20 DEF BorrowStore, StoreBorrowed
<1>21. ASSUME BorrowFailed(t) PROVE G
  BY <1>21 DEF BorrowFailed
<1>22. ASSUME BorrowStoreAgain(t) PROVE G
  BY <1>22 DEF BorrowStoreAgain, StoreBorrowed
<1>23. ASSUME BorrowFailedAgain(t) PROVE G
  BY <1>23 DEF BorrowFailedAgain
<1>24. ASSUME BorrowPutBack(t) PROVE G
  BY <1>24 DEF BorrowPutBack
<1>25. ASSUME BorrowStored(t) PROVE G
  BY <1>25 DEF BorrowStored, SendDealloc
<1>26. ASSUME ReleaseRetry(t) PROVE G
  BY <1>26 DEF ReleaseRetry, ReleaseLoop
<1>27. ASSUME ReleaseDeallocate(t) PROVE G
  BY <1>27 DEF ReleaseDeallocate, SendDealloc
<1>28. ASSUME FastFree(t) PROVE G
  BY <1>28 DEF FastFree
<1>29. ASSUME Destruct(t) PROVE G
  BY <1>29 DEF Destruct
<1>30. ASSUME ClearRaw(t) PROVE G
  BY <1>30 DEF ClearRaw
<1>31. ASSUME ClearNonpointer(t) PROVE G
  BY <1>31 DEF ClearNonpointer
<1>32. ASSUME StoreWeak(t) PROVE G
  BY <1>32 DEF StoreWeak
<1>33. ASSUME setWeaklyReferenced_nolock(t) PROVE G
  BY <1>33 DEF setWeaklyReferenced_nolock
<1>34. ASSUME StoreWeakRetry(t) PROVE G
  BY <1>34 DEF StoreWeakRetry
<1>35. ASSUME DestroyWeak(t) PROVE G
  BY <1>35 DEF DestroyWeak
<1>36. ASSUME SetAssociation(t) PROVE G
  BY <1>36 DEF SetAssociation
<1>37. ASSUME ClearAssociation(t) PROVE G
  BY <1>37 DEF ClearAssociation
<1>38. ASSUME setHasAssociatedObjects(t) PROVE G
  BY <1>38 DEF setHasAssociatedObjects
<1>39. ASSUME SetAssociationRetry(t) PROVE G
  BY <1>39 DEF SetAssociationRetry
<1>40. ASSUME NEW l \in {"change", "changeRaw"}, SetClass(t, l) PROVE G
  BY <1>40 DEF SetClass
<1>41. ASSUME ChangeLock(t) PROVE G
  BY <1>41 DEF ChangeLock, Changing, ToRaw
<1>42. ASSUME ChangeStore(t) PROVE G
  BY <1>42 DEF ChangeStore, Changing, ToRaw, ChangedIsa
<1>43. ASSUME ChangeRetry(t) PROVE G
  BY <1>43 DEF ChangeRetry, Changing, ToRaw, ChangedIsa
<1>44. ASSUME ChangeMove(t) PROVE G
  BY <1>44 DEF ChangeMove
<1> QED
  BY <1>1, <1>2, <1>3, <1>4, <1>5, <1>6, <1>7, <1>8, <1>9, <1>10, <1>11,
      <1>12, <1>13, <1>14, <1>15, <1>16, <1>17, <1>18, <1>19, <1>20, <1>21,
      <1>22, <1>23, <1>24, <1>25, <1>26, <1>27, <1>28, <1>29, <1>30, <1>31,
      <1>32, <1>33, <1>34, <1>35, <1>36, <1>37, <1>38, <1>39, <1>40, <1>41,
      <1>42, <1>43, <1>44
  DEF Step, RetainStep, ReleaseStep, DeallocStep, FlagStep, ChangeStep

\* While a thread has the side table lock, what it read of the side table
\* and of the isa's has_sidetable_rc stays true.
LEMMA HolderSees ==
    ASSUME IInv, NEW t \in Threads, Step(t), lock \in Threads, lock # t
    PROVE  /\ lock' = lock /\ refcnts' = refcnts
           /\ isa'.nonpointer = isa.nonpointer
           /\ isa'.has_sidetable_rc = isa.has_sidetable_rc
<1>h. TypeOK /\ FramesOK /\ LockOK /\ BorrowOf(t) /\ OldIsaOf(t) /\ SideOK
  BY DEF IInv, BorrowOK, OldIsaOK
<1> DEFINE G == /\ lock' = lock /\ refcnts' = refcnts
                /\ isa'.nonpointer = isa.nonpointer
                /\ isa'.has_sidetable_rc = isa.has_sidetable_rc
<1> USE <1>h, ConstantsAssumption DEF TypeOK, IsaWord, FramesOK, LockOK,
    HasLock, LockedPCs, SetCount, BorrowOf, OldIsaOf, Side, PCs, Goto, Load,
    Begin, End, Return, RRReturn, Reload, Lock, Unlock, UnlockIf, locals
<1>1. ASSUME Retain(t) PROVE G
  BY <1>1 DEF Retain
<1>2. ASSUME LoadWeak(t) PROVE G
  BY <1>2 DEF LoadWeak
<1>3. ASSUME TryRetainRaw(t) PROVE G
  BY <1>3 DEF TryRetainRaw
<1>4. ASSUME RetainRaw(t) PROVE G
  BY <1>4 DEF RetainRaw
<1>5. ASSUME RetainSeesDeallocating(t) PROVE G
  BY <1>5 DEF RetainSeesDeallocating
<1>6. ASSUME RetainInline(t) PROVE G
  BY <1>6 DEF RetainInline, RetainLoop
<1>7. ASSUME RetainOverflow(t) PROVE G
  BY <1>7 DEF RetainOverflow, RetainLoop
<1>8. ASSUME RetainLock(t) PROVE G
  BY <1>8 DEF RetainLock, RetainLoop
<1>9. ASSUME RetainSplit(t) PROVE G
  BY <1>9 DEF RetainSplit, RetainLoop
<1>10. ASSUME RetainTranscribe(t) PROVE G
  BY <1>10 DEF RetainTranscribe
<1>11. ASSUME RetainRetry(t) PROVE G
  BY <1>11 DEF RetainRetry, RetainLoop
<1>12. ASSUME WeakLoaded(t) PROVE G
  BY <1>12 DEF WeakLoaded
<1>13. ASSUME Release(t) PROVE G
  BY <1>13 DEF Release
<1>14. ASSUME ReleaseRaw(t) PROVE G
  BY <1>14 DEF ReleaseRaw, SendDealloc
<1>15. ASSUME ReleaseSeesDeallocating(t) PROVE G
  BY <1>15 DEF ReleaseSeesDeallocating
<1>16. ASSUME ReleaseInline(t) PROVE G
  BY <1>16 DEF ReleaseInline, ReleaseLoop
<1>17. ASSUME ReleaseUnderflow(t) PROVE G
  BY <1>17 DEF ReleaseUnderflow, ReleaseLoop
<1>18. ASSUME ReleaseLock(t) PROVE G
  BY <1>18 DEF ReleaseLock, ReleaseLoop
<1>19. ASSUME ReleaseBorrow(t) PROVE G
  BY <1>19 DEF ReleaseBorrow, ReleaseLoop
<1>20. ASSUME BorrowStore(t) PROVE G
  BY <1>20 DEF BorrowStore, StoreBorrowed
<1>21. ASSUME BorrowFailed(t) PROVE G
  BY <1>21 DEF BorrowFailed
<1>22. ASSUME BorrowStoreAgain(t) PROVE G
  BY <1>22 DEF BorrowStoreAgain, StoreBorrowed
<1>23. ASSUME BorrowFailedAgain(t) PROVE G
  BY <1>23 DEF BorrowFailedAgain
<1>24. ASSUME BorrowPutBack(t) PROVE G
  BY <1>24 DEF BorrowPutBack
<1>25. ASSUME BorrowStored(t) PROVE G
  BY <1>25 DEF BorrowStored, SendDealloc
<1>26. ASSUME ReleaseRetry(t) PROVE G
  BY <1>26 DEF ReleaseRetry, ReleaseLoop
<1>27. ASSUME ReleaseDeallocate(t) PROVE G
  BY <1>27 DEF ReleaseDeallocate, SendDealloc
<1>28. ASSUME FastFree(t) PROVE G
  BY <1>28 DEF FastFree
<1>29. ASSUME Destruct(t) PROVE G
  BY <1>29 DEF Destruct
<1>30. ASSUME ClearRaw(t) PROVE G
  BY <1>30 DEF ClearRaw
<1>31. ASSUME ClearNonpointer(t) PROVE G
  BY <1>31 DEF ClearNonpointer
<1>32. ASSUME StoreWeak(t) PROVE G
  BY <1>32 DEF StoreWeak
<1>33. ASSUME setWeaklyReferenced_nolock(t) PROVE G
  BY <1>33 DEF setWeaklyReferenced_nolock
<1>34. ASSUME StoreWeakRetry(t) PROVE G
  BY <1>34 DEF StoreWeakRetry
<1>35. ASSUME DestroyWeak(t) PROVE G
  BY <1>35 DEF DestroyWeak
<1>36. ASSUME SetAssociation(t) PROVE G
  BY <1>36 DEF SetAssociation
<1>37. ASSUME ClearAssociation(t) PROVE G
  BY <1>37 DEF ClearAssociation
<1>38. ASSUME setHasAssociatedObjects(t) PROVE G
  BY <1>38 DEF setHasAssociatedObjects
<1>39. ASSUME SetAssociationRetry(t) PROVE G
  BY <1>39 DEF SetAssociationRetry
<1>40. ASSUME NEW l \in {"change", "changeRaw"}, SetClass(t, l) PROVE G
  BY <1>40 DEF SetClass
<1>41. ASSUME ChangeLock(t) PROVE G
  BY <1>41 DEF ChangeLock, Changing, ToRaw
<1>42. ASSUME ChangeStore(t) PROVE G
  BY <1>42 DEF ChangeStore, Changing, ToRaw, ChangedIsa, LoopPCs, RawIsa,
      SideOK, SplitOK
<1>43. ASSUME ChangeRetry(t) PROVE G
  BY <1>43 DEF ChangeRetry, Changing, ToRaw, ChangedIsa
<1>44. ASSUME ChangeMove(t) PROVE G
  BY <1>44 DEF ChangeMove
<1> QED
  BY <1>1, <1>2, <1>3, <1>4, <1>5, <1>6, <1>7, <1>8, <1>9, <1>10, <1>11,
      <1>12, <1>13, <1>14, <1>15, <1>16, <1>17, <1>18, <1>19, <1>20, <1>21,
      <1>22, <1>23, <1>24, <1>25, <1>26, <1>27, <1>28, <1>29, <1>30, <1>31,
      <1>32, <1>33, <1>34, <1>35, <1>36, <1>37, <1>38, <1>39, <1>40, <1>41,
      <1>42, <1>43, <1>44
  DEF Step, RetainStep, ReleaseStep, DeallocStep, FlagStep, ChangeStep

\* A raw isa is for good, and the flags of a nonpointer isa stay set.
LEMMA RawStaysRaw ==
    ASSUME IInv, NEW t \in Threads, Step(t)
    PROVE  /\ ~isa.nonpointer => isa' = isa
           /\ isa'.nonpointer => /\ isa.weakly_referenced => isa'.weakly_referenced
                                 /\ isa.has_assoc => isa'.has_assoc
<1>h. TypeOK /\ BorrowOf(t) /\ OldIsaOf(t) /\ SideOK BY DEF IInv, BorrowOK,
    OldIsaOK
<1> DEFINE G == /\ ~isa.nonpointer => isa' = isa
                /\ isa'.nonpointer =>
                      /\ isa.weakly_referenced => isa'.weakly_referenced
                      /\ isa.has_assoc => isa'.has_assoc
<1> USE <1>h, ConstantsAssumption DEF TypeOK, IsaWord, SetCount, BorrowOf,
    OldIsaOf, LoopPCs, SideOK, SplitOK, RawIsa, PCs, Goto, Load, Begin, End,
    Return,
    RRReturn, Reload, Lock, Unlock, UnlockIf, locals
<1>1. ASSUME Retain(t) PROVE G
  BY <1>1 DEF Retain
<1>2. ASSUME LoadWeak(t) PROVE G
  BY <1>2 DEF LoadWeak
<1>3. ASSUME TryRetainRaw(t) PROVE G
  BY <1>3 DEF TryRetainRaw
<1>4. ASSUME RetainRaw(t) PROVE G
  BY <1>4 DEF RetainRaw
<1>5. ASSUME RetainSeesDeallocating(t) PROVE G
  BY <1>5 DEF RetainSeesDeallocating
<1>6. ASSUME RetainInline(t) PROVE G
  BY <1>6 DEF RetainInline, RetainLoop
<1>7. ASSUME RetainOverflow(t) PROVE G
  BY <1>7 DEF RetainOverflow, RetainLoop
<1>8. ASSUME RetainLock(t) PROVE G
  BY <1>8 DEF RetainLock, RetainLoop
<1>9. ASSUME RetainSplit(t) PROVE G
  BY <1>9 DEF RetainSplit, RetainLoop
<1>10. ASSUME RetainTranscribe(t) PROVE G
  BY <1>10 DEF RetainTranscribe
<1>11. ASSUME RetainRetry(t) PROVE G
  BY <1>11 DEF RetainRetry, RetainLoop
<1>12. ASSUME WeakLoaded(t) PROVE G
  BY <1>12 DEF WeakLoaded
<1>13. ASSUME Release(t) PROVE G
  BY <1>13 DEF Release
<1>14. ASSUME ReleaseRaw(t) PROVE G
  BY <1>14 DEF ReleaseRaw, SendDealloc
<1>15. ASSUME ReleaseSeesDeallocating(t) PROVE G
  BY <1>15 DEF ReleaseSeesDeallocating
<1>16. ASSUME ReleaseInline(t) PROVE G
  BY <1>16 DEF ReleaseInline, ReleaseLoop
<1>17. ASSUME ReleaseUnderflow(t) PROVE G
  BY <1>17 DEF ReleaseUnderflow, ReleaseLoop
<1>18. ASSUME ReleaseLock(t) PROVE G
  BY <1>18 DEF ReleaseLock, ReleaseLoop
<1>19. ASSUME ReleaseBorrow(t) PROVE G
  BY <1>19 DEF ReleaseBorrow, ReleaseLoop
<1>20. ASSUME BorrowStore(t) PROVE G
  BY <1>20 DEF BorrowStore, StoreBorrowed
<1>21. ASSUME BorrowFailed(t) PROVE G
  BY <1>21 DEF BorrowFailed
<1>22. ASSUME BorrowStoreAgain(t) PROVE G
  BY <1>22 DEF BorrowStoreAgain, StoreBorrowed
<1>23. ASSUME BorrowFailedAgain(t) PROVE G
  BY <1>23 DEF BorrowFailedAgain
<1>24. ASSUME BorrowPutBack(t) PROVE G
  BY <1>24 DEF BorrowPutBack
<1>25. ASSUME BorrowStored(t) PROVE G
  BY <1>25 DEF BorrowStored, SendDealloc
<1>26. ASSUME ReleaseRetry(t) PROVE G
  BY <1>26 DEF ReleaseRetry, ReleaseLoop
<1>27. ASSUME ReleaseDeallocate(t) PROVE G
  BY <1>27 DEF ReleaseDeallocate, SendDealloc
<1>28. ASSUME FastFree(t) PROVE G
  BY <1>28 DEF FastFree
<1>29. ASSUME Destruct(t) PROVE G
  BY <1>29 DEF Destruct
<1>30. ASSUME ClearRaw(t) PROVE G
  BY <1>30 DEF ClearRaw
<1>31. ASSUME ClearNonpointer(t) PROVE G
  BY <1>31 DEF ClearNonpointer
<1>32. ASSUME StoreWeak(t) PROVE G
  BY <1>32 DEF StoreWeak
<1>33. ASSUME setWeaklyReferenced_nolock(t) PROVE G
  BY <1>33 DEF setWeaklyReferenced_nolock
<1>34. ASSUME StoreWeakRetry(t) PROVE G
  BY <1>34 DEF StoreWeakRetry
<1>35. ASSUME DestroyWeak(t) PROVE G
  BY <1>35 DEF DestroyWeak
<1>36. ASSUME SetAssociation(t) PROVE G
  BY <1>36 DEF SetAssociation
<1>37. ASSUME ClearAssociation(t) PROVE G
  BY <1>37 DEF ClearAssociation
<1>38. ASSUME setHasAssociatedObjects(t) PROVE G
  BY <1>38 DEF setHasAssociatedObjects
<1>39. ASSUME SetAssociationRetry(t) PROVE G
  BY <1>39 DEF SetAssociationRetry
<1>40. ASSUME NEW l \in {"change", "changeRaw"}, SetClass(t, l) PROVE G
  BY <1>40 DEF SetClass
<1>41. ASSUME ChangeLock(t) PROVE G
  BY <1>41 DEF ChangeLock, Changing, ToRaw
<1>42. ASSUME ChangeStore(t) PROVE G
  BY <1>42 DEF ChangeStore, Changing, ToRaw, ChangedIsa
<1>43. ASSUME ChangeRetry(t) PROVE G
  BY <1>43 DEF ChangeRetry, Changing, ToRaw, ChangedIsa
<1>44. ASSUME ChangeMove(t) PROVE G
  BY <1>44 DEF ChangeMove
<1> QED
  BY <1>1, <1>2, <1>3, <1>4, <1>5, <1>6, <1>7, <1>8, <1>9, <1>10, <1>11,
      <1>12, <1>13, <1>14, <1>15, <1>16, <1>17, <1>18, <1>19, <1>20, <1>21,
      <1>22, <1>23, <1>24, <1>25, <1>26, <1>27, <1>28, <1>29, <1>30, <1>31,
      <1>32, <1>33, <1>34, <1>35, <1>36, <1>37, <1>38, <1>39, <1>40, <1>41,
      <1>42, <1>43, <1>44
  DEF Step, RetainStep, ReleaseStep, DeallocStep, FlagStep, ChangeStep

\* Only a caller of object_setClass changes what kind of isa it is.
LEMMA OnlySettersChange ==
    ASSUME IInv, NEW t \in Threads, Step(t)
    PROVE  t \in Setters \/ isa'.nonpointer = isa.nonpointer
<1>h. TypeOK /\ FramesOK /\ BorrowOf(t) /\ OldIsaOf(t) BY DEF IInv, BorrowOK,
    OldIsaOK
<1> DEFINE G == t \in Setters \/ isa'.nonpointer = isa.nonpointer
<1> USE <1>h DEF TypeOK, IsaWord, FramesOK, SetCount, BorrowOf, OldIsaOf, PCs,
    Goto, Load, Begin, End, Return, RRReturn, Reload, Lock, Unlock, UnlockIf,
    locals
<1>1. ASSUME Retain(t) PROVE G
  BY <1>1 DEF Retain
<1>2. ASSUME LoadWeak(t) PROVE G
  BY <1>2 DEF LoadWeak
<1>3. ASSUME TryRetainRaw(t) PROVE G
  BY <1>3 DEF TryRetainRaw
<1>4. ASSUME RetainRaw(t) PROVE G
  BY <1>4 DEF RetainRaw
<1>5. ASSUME RetainSeesDeallocating(t) PROVE G
  BY <1>5 DEF RetainSeesDeallocating
<1>6. ASSUME RetainInline(t) PROVE G
  BY <1>6 DEF RetainInline, RetainLoop
<1>7. ASSUME RetainOverflow(t) PROVE G
  BY <1>7 DEF RetainOverflow, RetainLoop
<1>8. ASSUME RetainLock(t) PROVE G
  BY <1>8 DEF RetainLock, RetainLoop
<1>9. ASSUME RetainSplit(t) PROVE G
  BY <1>9 DEF RetainSplit, RetainLoop
<1>10. ASSUME RetainTranscribe(t) PROVE G
  BY <1>10 DEF RetainTranscribe
<1>11. ASSUME RetainRetry(t) PROVE G
  BY <1>11 DEF RetainRetry, RetainLoop
<1>12. ASSUME WeakLoaded(t) PROVE G
  BY <1>12 DEF WeakLoaded
<1>13. ASSUME Release(t) PROVE G
  BY <1>13 DEF Release
<1>14. ASSUME ReleaseRaw(t) PROVE G
  BY <1>14 DEF ReleaseRaw, SendDealloc
<1>15. ASSUME ReleaseSeesDeallocating(t) PROVE G
  BY <1>15 DEF ReleaseSeesDeallocating
<1>16. ASSUME ReleaseInline(t) PROVE G
  BY <1>16 DEF ReleaseInline, ReleaseLoop
<1>17. ASSUME ReleaseUnderflow(t) PROVE G
  BY <1>17 DEF ReleaseUnderflow, ReleaseLoop
<1>18. ASSUME ReleaseLock(t) PROVE G
  BY <1>18 DEF ReleaseLock, ReleaseLoop
<1>19. ASSUME ReleaseBorrow(t) PROVE G
  BY <1>19 DEF ReleaseBorrow, ReleaseLoop
<1>20. ASSUME BorrowStore(t) PROVE G
  BY <1>20 DEF BorrowStore, StoreBorrowed
<1>21. ASSUME BorrowFailed(t) PROVE G
  BY <1>21 DEF BorrowFailed
<1>22. ASSUME BorrowStoreAgain(t) PROVE G
  BY <1>22 DEF BorrowStoreAgain, StoreBorrowed
<1>23. ASSUME BorrowFailedAgain(t) PROVE G
  BY <1>23 DEF BorrowFailedAgain
<1>24. ASSUME BorrowPutBack(t) PROVE G
  BY <1>24 DEF BorrowPutBack
<1>25. ASSUME BorrowStored(t) PROVE G
  BY <1>25 DEF BorrowStored, SendDealloc
<1>26. ASSUME ReleaseRetry(t) PROVE G
  BY <1>26 DEF ReleaseRetry, ReleaseLoop
<1>27. ASSUME ReleaseDeallocate(t) PROVE G
  BY <1>27 DEF ReleaseDeallocate, SendDealloc
<1>28. ASSUME FastFree(t) PROVE G
  BY <1>28 DEF FastFree
<1>29. ASSUME Destruct(t) PROVE G
  BY <1>29 DEF Destruct
<1>30. ASSUME ClearRaw(t) PROVE G
  BY <1>30 DEF ClearRaw
<1>31. ASSUME ClearNonpointer(t) PROVE G
  BY <1>31 DEF ClearNonpointer
<1>32. ASSUME StoreWeak(t) PROVE G
  BY <1>32 DEF StoreWeak
<1>33. ASSUME setWeaklyReferenced_nolock(t) PROVE G
  BY <1>33 DEF setWeaklyReferenced_nolock
<1>34. ASSUME StoreWeakRetry(t) PROVE G
  BY <1>34 DEF StoreWeakRetry
<1>35. ASSUME DestroyWeak(t) PROVE G
  BY <1>35 DEF DestroyWeak
<1>36. ASSUME SetAssociation(t) PROVE G
  BY <1>36 DEF SetAssociation
<1>37. ASSUME ClearAssociation(t) PROVE G
  BY <1>37 DEF ClearAssociation
<1>38. ASSUME setHasAssociatedObjects(t) PROVE G
  BY <1>38 DEF setHasAssociatedObjects
<1>39. ASSUME SetAssociationRetry(t) PROVE G
  BY <1>39 DEF SetAssociationRetry
<1>40. ASSUME NEW l \in {"change", "changeRaw"}, SetClass(t, l) PROVE G
  BY <1>40 DEF SetClass
<1>41. ASSUME ChangeLock(t) PROVE G
  BY <1>41 DEF ChangeLock, Changing, ToRaw
<1>42. ASSUME ChangeStore(t) PROVE G
  BY <1>42 DEF ChangeStore, Changing, ToRaw, ChangedIsa
<1>43. ASSUME ChangeRetry(t) PROVE G
  BY <1>43 DEF ChangeRetry, Changing, ToRaw, ChangedIsa
<1>44. ASSUME ChangeMove(t) PROVE G
  BY <1>44 DEF ChangeMove
<1> QED
  BY <1>1, <1>2, <1>3, <1>4, <1>5, <1>6, <1>7, <1>8, <1>9, <1>10, <1>11,
      <1>12, <1>13, <1>14, <1>15, <1>16, <1>17, <1>18, <1>19, <1>20, <1>21,
      <1>22, <1>23, <1>24, <1>25, <1>26, <1>27, <1>28, <1>29, <1>30, <1>31,
      <1>32, <1>33, <1>34, <1>35, <1>36, <1>37, <1>38, <1>39, <1>40, <1>41,
      <1>42, <1>43, <1>44
  DEF Step, RetainStep, ReleaseStep, DeallocStep, FlagStep, ChangeStep

-----------------------------------------------------------------------------
(* Borrowing.  First the steps of rootRelease_underflow, one lemma each:   *)
(* what BorrowOf says of the thread after it.                              *)

\* rootRelease_underflow takes the lock and goes on to borrow, only with an entry
\* to borrow from.
LEMMA ReleaseBorrowBorrows ==
    ASSUME IInv, NEW t \in Threads, ReleaseBorrow(t)
    PROVE  BorrowOf(t)'
<1>h. TypeOK /\ FramesOK /\ LockOK /\ BorrowOf(t) /\ OldIsaOf(t)
  BY DEF IInv, BorrowOK, OldIsaOK
<1> USE <1>h
<1>00. pc'[t] \in PCs \ {"borrow", "borrowAgain", "putBack", "transcribe", "stored",
                          "storedDying"}
       => BorrowOf(t)'
  BY DEF BorrowOf
<1> USE DEF ReleaseBorrow, ReleaseLoop
<1>1. pc' = [pc EXCEPT ![t] = IF CanBorrow(refcnts) THEN "borrow" ELSE "deallocate"]
  BY <1>h DEF Goto
<1>2. CASE CanBorrow(refcnts)
  <2>1. pc'[t] = "borrow" BY <1>1, <1>2 DEF TypeOK
  <2>2. isa' = isa /\ oldisa' = oldisa BY <1>h DEF locals
  <2>3. /\ oldisa[t].nonpointer /\ oldisa[t].extra_rc = 0
        /\ isa.nonpointer /\ isa.has_sidetable_rc
    BY <1>h DEF OldIsaOf, Fresh, LoopPCs, HasLock, IsDeallocating
  <2>4. refcnts'.present BY <1>h, <1>2 DEF sidetable_subExtraRC_nolock,
      CanBorrow, TypeOK, Entry
  <2> QED BY <2>1, <2>2, <2>3, <2>4 DEF BorrowOf
<1>3. CASE ~CanBorrow(refcnts)
  <2>1. pc'[t] = "deallocate" BY <1>1, <1>3 DEF TypeOK
  <2> QED BY <2>1, <1>00 DEF PCs
<1> QED BY <1>2, <1>3

\* A borrow that is stored leaves the isa nonpointer, and the entry in the table.
LEMMA BorrowStoreBorrows ==
    ASSUME IInv, NEW t \in Threads, BorrowStore(t)
    PROVE  BorrowOf(t)'
<1>h. TypeOK /\ FramesOK /\ LockOK /\ BorrowOf(t) /\ OldIsaOf(t)
  BY DEF IInv, BorrowOK, OldIsaOK
<1> USE <1>h
<1> USE DEF BorrowStore, StoreBorrowed
<1>1. pc'[t] = "stored" BY <1>h DEF Goto, TypeOK
<1>2. isa'.nonpointer = isa.nonpointer BY <1>h DEF SetCount
<1>3. refcnts' = refcnts BY <1>h DEF Side
<1>4. isa.nonpointer /\ refcnts.present BY <1>h DEF BorrowOf
<1> QED BY <1>1, <1>2, <1>3, <1>4 DEF BorrowOf

\* A StoreReleaseExclusive that fails changes neither the isa nor the entry, so the
\* second attempt borrows the same counts.
LEMMA BorrowFailedBorrows ==
    ASSUME IInv, NEW t \in Threads, BorrowFailed(t)
    PROVE  BorrowOf(t)'
<1>h. TypeOK /\ FramesOK /\ LockOK /\ BorrowOf(t) /\ OldIsaOf(t)
  BY DEF IInv, BorrowOK, OldIsaOK
<1> USE <1>h
<1> USE DEF BorrowFailed
<1>1. isa.nonpointer /\ refcnts.present /\ isa.has_sidetable_rc BY <1>h DEF BorrowOf
<1>2. pc'[t] = "borrowAgain" BY <1>h, <1>1 DEF Goto, TypeOK
<1>3. refcnts' = refcnts /\ isa' = isa BY <1>h DEF Side
<1>4. oldisa'[t] = isa BY <1>h DEF Load, TypeOK
<1> QED BY <1>1, <1>2, <1>3, <1>4 DEF BorrowOf

\* The second attempt leaves a count in the isa, so the object does not die.
LEMMA BorrowStoreAgainBorrows ==
    ASSUME IInv, NEW t \in Threads, BorrowStoreAgain(t)
    PROVE  BorrowOf(t)'
<1>h. TypeOK /\ FramesOK /\ LockOK /\ BorrowOf(t) /\ OldIsaOf(t)
  BY DEF IInv, BorrowOK, OldIsaOK
<1> USE <1>h
<1> USE DEF BorrowStoreAgain, StoreBorrowed
<1>1. isa' = SetCount(isa, oldisa[t].extra_rc + RC_HALF - 1, ~emptySideTable) BY <1>h
<1>2. isa'.extra_rc # 0 BY <1>1, RCFacts DEF SetCount, TypeOK, IsaWord,
    InlineCounts
<1>3. pc'[t] = "stored" BY <1>h, <1>2 DEF Goto, TypeOK, IsDeallocating
<1>4. isa'.nonpointer = isa.nonpointer BY <1>1 DEF SetCount
<1>5. refcnts' = refcnts BY <1>h DEF Side
<1>6. isa.nonpointer /\ refcnts.present BY <1>h DEF BorrowOf
<1> QED BY <1>3, <1>4, <1>5, <1>6 DEF BorrowOf

\* After the second failure the borrowed counts wait to be put back.
LEMMA BorrowFailedAgainBorrows ==
    ASSUME IInv, NEW t \in Threads, BorrowFailedAgain(t)
    PROVE  BorrowOf(t)'
<1>h. TypeOK /\ FramesOK /\ LockOK /\ BorrowOf(t) /\ OldIsaOf(t)
  BY DEF IInv, BorrowOK, OldIsaOK
<1> USE <1>h
<1> USE DEF BorrowFailedAgain
<1>1. pc'[t] = "putBack" BY <1>h DEF Goto, TypeOK
<1>2. refcnts' = refcnts /\ isa' = isa /\ oldisa' = oldisa BY <1>h DEF Side,
    locals
<1> QED BY <1>h, <1>1, <1>2 DEF BorrowOf
\* A thread that borrows, splits or stores counts leaves what BorrowOf says.
LEMMA BorrowSelf ==
    ASSUME IInv, NEW t \in Threads, Step(t)
    PROVE  BorrowOf(t)'
<1>h. TypeOK /\ FramesOK /\ LockOK /\ BorrowOf(t) /\ OldIsaOf(t)
  BY DEF IInv, BorrowOK, OldIsaOK
<1> USE <1>h, ConstantsAssumption, RCFacts DEF TypeOK, IsaWord, InlineCounts,
    Entry, FramesOK, LockOK, HasLock, LockedPCs, OldIsaOf, LoopPCs, Fresh,
    SetCount, IsDeallocating, BorrowOf, PCs, Goto, Load, Begin, End, Return,
    RRReturn, Reload, Lock, Unlock, UnlockIf, locals
<1>1. ASSUME Retain(t) PROVE BorrowOf(t)'
  BY <1>1 DEF Retain
<1>2. ASSUME LoadWeak(t) PROVE BorrowOf(t)'
  BY <1>2 DEF LoadWeak
<1>3. ASSUME TryRetainRaw(t) PROVE BorrowOf(t)'
  BY <1>3 DEF TryRetainRaw
<1>4. ASSUME RetainRaw(t) PROVE BorrowOf(t)'
  BY <1>4 DEF RetainRaw
<1>5. ASSUME RetainSeesDeallocating(t) PROVE BorrowOf(t)'
  BY <1>5 DEF RetainSeesDeallocating
<1>6. ASSUME RetainInline(t) PROVE BorrowOf(t)'
  BY <1>6 DEF RetainInline, RetainLoop
<1>7. ASSUME RetainOverflow(t) PROVE BorrowOf(t)'
  BY <1>7 DEF RetainOverflow, RetainLoop
<1>8. ASSUME RetainLock(t) PROVE BorrowOf(t)'
  BY <1>8 DEF RetainLock, RetainLoop
<1>9. ASSUME RetainSplit(t) PROVE BorrowOf(t)'
  BY <1>9 DEF RetainSplit, RetainLoop
<1>10. ASSUME RetainTranscribe(t) PROVE BorrowOf(t)'
  BY <1>10 DEF RetainTranscribe
<1>11. ASSUME RetainRetry(t) PROVE BorrowOf(t)'
  BY <1>11 DEF RetainRetry, RetainLoop
<1>12. ASSUME WeakLoaded(t) PROVE BorrowOf(t)'
  BY <1>12 DEF WeakLoaded
<1>13. ASSUME Release(t) PROVE BorrowOf(t)'
  BY <1>13 DEF Release
<1>14. ASSUME ReleaseRaw(t) PROVE BorrowOf(t)'
  BY <1>14 DEF ReleaseRaw, SendDealloc
<1>15. ASSUME ReleaseSeesDeallocating(t) PROVE BorrowOf(t)'
  BY <1>15 DEF ReleaseSeesDeallocating
<1>16. ASSUME ReleaseInline(t) PROVE BorrowOf(t)'
  BY <1>16 DEF ReleaseInline, ReleaseLoop
<1>17. ASSUME ReleaseUnderflow(t) PROVE BorrowOf(t)'
  BY <1>17 DEF ReleaseUnderflow, ReleaseLoop
<1>18. ASSUME ReleaseLock(t) PROVE BorrowOf(t)'
  BY <1>18 DEF ReleaseLock, ReleaseLoop
<1>19. ASSUME ReleaseBorrow(t) PROVE BorrowOf(t)'
  BY <1>19, ReleaseBorrowBorrows
<1>20. ASSUME BorrowStore(t) PROVE BorrowOf(t)'
  BY <1>20, BorrowStoreBorrows
<1>21. ASSUME BorrowFailed(t) PROVE BorrowOf(t)'
  BY <1>21, BorrowFailedBorrows
<1>22. ASSUME BorrowStoreAgain(t) PROVE BorrowOf(t)'
  BY <1>22, BorrowStoreAgainBorrows
<1>23. ASSUME BorrowFailedAgain(t) PROVE BorrowOf(t)'
  BY <1>23, BorrowFailedAgainBorrows
<1>24. ASSUME BorrowPutBack(t) PROVE BorrowOf(t)'
  BY <1>24 DEF BorrowPutBack
<1>25. ASSUME BorrowStored(t) PROVE BorrowOf(t)'
  BY <1>25 DEF BorrowStored, SendDealloc
<1>26. ASSUME ReleaseRetry(t) PROVE BorrowOf(t)'
  BY <1>26 DEF ReleaseRetry, ReleaseLoop
<1>27. ASSUME ReleaseDeallocate(t) PROVE BorrowOf(t)'
  BY <1>27 DEF ReleaseDeallocate, SendDealloc
<1>28. ASSUME FastFree(t) PROVE BorrowOf(t)'
  BY <1>28 DEF FastFree
<1>29. ASSUME Destruct(t) PROVE BorrowOf(t)'
  BY <1>29 DEF Destruct
<1>30. ASSUME ClearRaw(t) PROVE BorrowOf(t)'
  BY <1>30 DEF ClearRaw
<1>31. ASSUME ClearNonpointer(t) PROVE BorrowOf(t)'
  BY <1>31 DEF ClearNonpointer
<1>32. ASSUME StoreWeak(t) PROVE BorrowOf(t)'
  BY <1>32 DEF StoreWeak
<1>33. ASSUME setWeaklyReferenced_nolock(t) PROVE BorrowOf(t)'
  BY <1>33 DEF setWeaklyReferenced_nolock
<1>34. ASSUME StoreWeakRetry(t) PROVE BorrowOf(t)'
  BY <1>34 DEF StoreWeakRetry
<1>35. ASSUME DestroyWeak(t) PROVE BorrowOf(t)'
  BY <1>35 DEF DestroyWeak
<1>36. ASSUME SetAssociation(t) PROVE BorrowOf(t)'
  BY <1>36 DEF SetAssociation
<1>37. ASSUME ClearAssociation(t) PROVE BorrowOf(t)'
  BY <1>37 DEF ClearAssociation
<1>38. ASSUME setHasAssociatedObjects(t) PROVE BorrowOf(t)'
  BY <1>38 DEF setHasAssociatedObjects
<1>39. ASSUME SetAssociationRetry(t) PROVE BorrowOf(t)'
  BY <1>39 DEF SetAssociationRetry
<1>40. ASSUME NEW l \in {"change", "changeRaw"},
    SetClass(t, l) PROVE BorrowOf(t)'
  BY <1>40 DEF SetClass
<1>41. ASSUME ChangeLock(t) PROVE BorrowOf(t)'
  BY <1>41 DEF ChangeLock, Changing, ToRaw
<1>42. ASSUME ChangeStore(t) PROVE BorrowOf(t)'
  BY <1>42 DEF ChangeStore, Changing, ToRaw, ChangedIsa
<1>43. ASSUME ChangeRetry(t) PROVE BorrowOf(t)'
  BY <1>43 DEF ChangeRetry, Changing, ToRaw, ChangedIsa
<1>44. ASSUME ChangeMove(t) PROVE BorrowOf(t)'
  BY <1>44 DEF ChangeMove
<1> HIDE DEF TypeOK, IsaWord, InlineCounts, Entry, FramesOK, LockOK, HasLock,
    LockedPCs, OldIsaOf, LoopPCs, Fresh, SetCount, IsDeallocating, BorrowOf,
    PCs, Goto, Load, Begin, End, Return, RRReturn, Reload, Lock, Unlock,
    UnlockIf, locals
<1> QED
  BY <1>1, <1>2, <1>3, <1>4, <1>5, <1>6, <1>7, <1>8, <1>9, <1>10, <1>11,
      <1>12, <1>13, <1>14, <1>15, <1>16, <1>17, <1>18, <1>19, <1>20, <1>21,
      <1>22, <1>23, <1>24, <1>25, <1>26, <1>27, <1>28, <1>29, <1>30, <1>31,
      <1>32, <1>33, <1>34, <1>35, <1>36, <1>37, <1>38, <1>39, <1>40, <1>41,
      <1>42, <1>43, <1>44
  DEF Step, RetainStep, ReleaseStep, DeallocStep, FlagStep, ChangeStep

\* What it says of another thread stays true, since that one has the lock.
LEMMA BorrowOther ==
    ASSUME IInv, NEW t \in Threads, Step(t), NEW u \in Threads, u # t
    PROVE  BorrowOf(u)'
<1>1. BorrowOf(u) BY DEF IInv, BorrowOK
<1>2. pc[u] \in LockedPCs => lock = u BY DEF IInv, LockOK, HasLock
<1>3. pc'[u] = pc[u] /\ oldisa'[u] = oldisa[u] BY OthersUntouched DEF IInv
<1>4. CASE lock = u
  BY <1>1, <1>2, <1>3, <1>4, HolderSees DEF BorrowOf
<1>5. CASE lock # u
  BY <1>1, <1>2, <1>3, <1>5 DEF BorrowOf, LockedPCs
<1> QED BY <1>4, <1>5

\* Every step leaves every thread's borrowing as BorrowOK says, its own and others'.
LEMMA BorrowStep ==
    ASSUME IInv, NEW t \in Threads, Step(t)
    PROVE  BorrowOK'
<1> SUFFICES ASSUME NEW u \in Threads PROVE BorrowOf(u)' BY DEF BorrowOK
<1> QED BY BorrowSelf, BorrowOther

-----------------------------------------------------------------------------
(* The isa a loop loaded.                                                  *)

\* What a thread knows of the isa it loaded is true after its own step.
LEMMA OldIsaSelf ==
    ASSUME IInv, NEW t \in Threads, Step(t)
    PROVE  OldIsaOf(t)'
<1>h. /\ TypeOK /\ FramesOK /\ LockOK /\ TokensOK /\ SideOK
      /\ BorrowOf(t) /\ OldIsaOf(t)
  BY DEF IInv, BorrowOK, OldIsaOK
<1>a. /\ ref[t] # NoRef /\ pc[t] = "release" => ~freed /\ Live # {}
      /\ ref[t] # NoRef /\ pc[t] = "retain" /\ ~tryRetain[t] => ~freed /\ Live # {}
      /\ pc[t] = "putBack" => ref[t] # NoRef /\ ~freed /\ Live # {}
      /\ Holds(t) => ~freed /\ Live # {}
      /\ Dying(t) => ~freed /\ Live = {}
  BY AliveFacts
<1>d. ~freed /\ isa.nonpointer => (IsDeallocating(isa) <=> Live = {})
  BY DeadIffNoCount DEF IInv
<1> USE <1>h, <1>a, <1>d, ConstantsAssumption DEF TypeOK, IsaWord, FramesOK,
    Dying, LockOK, HasLock, LockedPCs, OldIsaOf, Fresh, LoopPCs, Side,
    BorrowOf, PCs, Goto, Load, Begin, End, Return, RRReturn, Reload, Lock,
    Unlock, UnlockIf, locals
<1>1. ASSUME Retain(t) PROVE OldIsaOf(t)'
  BY <1>1 DEF Retain
<1>2. ASSUME LoadWeak(t) PROVE OldIsaOf(t)'
  BY <1>2 DEF LoadWeak
<1>3. ASSUME TryRetainRaw(t) PROVE OldIsaOf(t)'
  BY <1>3 DEF TryRetainRaw
<1>4. ASSUME RetainRaw(t) PROVE OldIsaOf(t)'
  BY <1>4 DEF RetainRaw
<1>5. ASSUME RetainSeesDeallocating(t) PROVE OldIsaOf(t)'
  BY <1>5 DEF RetainSeesDeallocating
<1>6. ASSUME RetainInline(t) PROVE OldIsaOf(t)'
  BY <1>6 DEF RetainInline, RetainLoop
<1>7. ASSUME RetainOverflow(t) PROVE OldIsaOf(t)'
  BY <1>7 DEF RetainOverflow, RetainLoop
<1>8. ASSUME RetainLock(t) PROVE OldIsaOf(t)'
  BY <1>8 DEF RetainLock, RetainLoop
<1>9. ASSUME RetainSplit(t) PROVE OldIsaOf(t)'
  BY <1>9 DEF RetainSplit, RetainLoop
<1>10. ASSUME RetainTranscribe(t) PROVE OldIsaOf(t)'
  BY <1>10 DEF RetainTranscribe
<1>11. ASSUME RetainRetry(t) PROVE OldIsaOf(t)'
  BY <1>11 DEF RetainRetry, RetainLoop
<1>12. ASSUME WeakLoaded(t) PROVE OldIsaOf(t)'
  BY <1>12 DEF WeakLoaded
<1>13. ASSUME Release(t) PROVE OldIsaOf(t)'
  BY <1>13 DEF Release, Holds, Owns
<1>14. ASSUME ReleaseRaw(t) PROVE OldIsaOf(t)'
  BY <1>14 DEF ReleaseRaw, SendDealloc
<1>15. ASSUME ReleaseSeesDeallocating(t) PROVE OldIsaOf(t)'
  BY <1>15 DEF ReleaseSeesDeallocating
<1>16. ASSUME ReleaseInline(t) PROVE OldIsaOf(t)'
  BY <1>16 DEF ReleaseInline, ReleaseLoop
<1>17. ASSUME ReleaseUnderflow(t) PROVE OldIsaOf(t)'
  BY <1>17 DEF ReleaseUnderflow, ReleaseLoop
<1>18. ASSUME ReleaseLock(t) PROVE OldIsaOf(t)'
  BY <1>18 DEF ReleaseLock, ReleaseLoop
<1>19. ASSUME ReleaseBorrow(t) PROVE OldIsaOf(t)'
  BY <1>19 DEF ReleaseBorrow, ReleaseLoop
<1>20. ASSUME BorrowStore(t) PROVE OldIsaOf(t)'
  BY <1>20 DEF BorrowStore, StoreBorrowed
<1>21. ASSUME BorrowFailed(t) PROVE OldIsaOf(t)'
  BY <1>21 DEF BorrowFailed
<1>22. ASSUME BorrowStoreAgain(t) PROVE OldIsaOf(t)'
  BY <1>22 DEF BorrowStoreAgain, StoreBorrowed
<1>23. ASSUME BorrowFailedAgain(t) PROVE OldIsaOf(t)'
  BY <1>23 DEF BorrowFailedAgain
<1>24. ASSUME BorrowPutBack(t) PROVE OldIsaOf(t)'
  BY <1>24 DEF BorrowPutBack
<1>25. ASSUME BorrowStored(t) PROVE OldIsaOf(t)'
  BY <1>25 DEF BorrowStored, SendDealloc
<1>26. ASSUME ReleaseRetry(t) PROVE OldIsaOf(t)'
  BY <1>26 DEF ReleaseRetry, ReleaseLoop
<1>27. ASSUME ReleaseDeallocate(t) PROVE OldIsaOf(t)'
  BY <1>27 DEF ReleaseDeallocate, SendDealloc
<1>28. ASSUME FastFree(t) PROVE OldIsaOf(t)'
  BY <1>28 DEF FastFree
<1>29. ASSUME Destruct(t) PROVE OldIsaOf(t)'
  BY <1>29 DEF Destruct
<1>30. ASSUME ClearRaw(t) PROVE OldIsaOf(t)'
  BY <1>30 DEF ClearRaw
<1>31. ASSUME ClearNonpointer(t) PROVE OldIsaOf(t)'
  BY <1>31 DEF ClearNonpointer
<1>32. ASSUME StoreWeak(t) PROVE OldIsaOf(t)'
  BY <1>32 DEF StoreWeak
<1>33. ASSUME setWeaklyReferenced_nolock(t) PROVE OldIsaOf(t)'
  BY <1>33 DEF setWeaklyReferenced_nolock
<1>34. ASSUME StoreWeakRetry(t) PROVE OldIsaOf(t)'
  BY <1>34 DEF StoreWeakRetry
<1>35. ASSUME DestroyWeak(t) PROVE OldIsaOf(t)'
  BY <1>35 DEF DestroyWeak
<1>36. ASSUME SetAssociation(t) PROVE OldIsaOf(t)'
  BY <1>36 DEF SetAssociation
<1>37. ASSUME ClearAssociation(t) PROVE OldIsaOf(t)'
  BY <1>37 DEF ClearAssociation
<1>38. ASSUME setHasAssociatedObjects(t) PROVE OldIsaOf(t)'
  BY <1>38 DEF setHasAssociatedObjects
<1>39. ASSUME SetAssociationRetry(t) PROVE OldIsaOf(t)'
  BY <1>39 DEF SetAssociationRetry
<1>40. ASSUME NEW l \in {"change", "changeRaw"},
    SetClass(t, l) PROVE OldIsaOf(t)'
  BY <1>40 DEF SetClass
<1>41. ASSUME ChangeLock(t) PROVE OldIsaOf(t)'
  BY <1>41 DEF ChangeLock, Changing, ToRaw
<1>42. ASSUME ChangeStore(t) PROVE OldIsaOf(t)'
  BY <1>42 DEF ChangeStore, Changing, ToRaw, ChangedIsa, RawIsa
<1>43. ASSUME ChangeRetry(t) PROVE OldIsaOf(t)'
  BY <1>43 DEF ChangeRetry, Changing, ToRaw, ChangedIsa
<1>44. ASSUME ChangeMove(t) PROVE OldIsaOf(t)'
  BY <1>44 DEF ChangeMove
<1> HIDE DEF TypeOK, IsaWord, FramesOK, Dying, LockOK, HasLock, LockedPCs,
    OldIsaOf, Fresh, LoopPCs, Side, BorrowOf, PCs, Goto, Load, Begin, End,
    Return, RRReturn, Reload, Lock, Unlock, UnlockIf, locals
<1> QED
  BY <1>1, <1>2, <1>3, <1>4, <1>5, <1>6, <1>7, <1>8, <1>9, <1>10, <1>11,
      <1>12, <1>13, <1>14, <1>15, <1>16, <1>17, <1>18, <1>19, <1>20, <1>21,
      <1>22, <1>23, <1>24, <1>25, <1>26, <1>27, <1>28, <1>29, <1>30, <1>31,
      <1>32, <1>33, <1>34, <1>35, <1>36, <1>37, <1>38, <1>39, <1>40, <1>41,
      <1>42, <1>43, <1>44
  DEF Step, RetainStep, ReleaseStep, DeallocStep, FlagStep, ChangeStep

\* It stays true through another thread's step.  This is where OneSetter is
\* needed: changeIsa trusts that the isa it loaded is still nonpointer.
LEMMA OldIsaOther ==
    ASSUME IInv, OneSetter, TypeOK', NEW t \in Threads, Step(t),
    NEW u \in Threads, u # t
    PROVE  OldIsaOf(u)'
<1>1. OldIsaOf(u) BY DEF IInv, OldIsaOK
<1>2. HasLock(u) => lock = u BY DEF IInv, LockOK
<1>3. /\ pc'[u] = pc[u] /\ oldisa'[u] = oldisa[u] /\ newisa'[u] = newisa[u]
      /\ tryRetain'[u] = tryRetain[u] /\ locked'[u] = locked[u] /\ ref'[u] = ref[u]
  BY OthersUntouched DEF IInv
<1>4. HasLock(u)' <=> HasLock(u) BY <1>3 DEF HasLock
<1>5. /\ ~isa.nonpointer => isa' = isa
      /\ isa'.nonpointer => /\ isa.weakly_referenced => isa'.weakly_referenced
                            /\ isa.has_assoc => isa'.has_assoc
  BY RawStaysRaw
<1>6. lock = u => /\ lock' = lock /\ isa'.nonpointer = isa.nonpointer
                  /\ isa'.has_sidetable_rc = isa.has_sidetable_rc
  BY HolderSees
<1>7. pc[u] \in {"change", "changeRaw"} => isa'.nonpointer = isa.nonpointer
  <2>1. pc[u] \in {"change", "changeRaw"} => u \in Setters BY DEF IInv,
      FramesOK
  <2> QED BY <2>1, OnlySettersChange DEF OneSetter
<1>8. isa.nonpointer \in BOOLEAN /\ isa'.nonpointer \in BOOLEAN
  BY DEF IInv, TypeOK, IsaWord
<1> QED
  BY <1>1, <1>2, <1>3, <1>4, <1>5, <1>6, <1>7, <1>8
  DEF OldIsaOf, Fresh, LoopPCs, IsDeallocating, HasLock, LockedPCs

\* Every step leaves true what each loop knows of the isa it loaded.
LEMMA OldIsaStep ==
    ASSUME IInv, OneSetter, TypeOK', NEW t \in Threads, Step(t)
    PROVE  OldIsaOK'
<1> SUFFICES ASSUME NEW u \in Threads PROVE OldIsaOf(u)' BY DEF OldIsaOK
<1> QED BY OldIsaSelf, OldIsaOther

-----------------------------------------------------------------------------
(* The side table entry.                                                   *)

\* An entry is removed whole.
LEMMA SideAbsent ==
    ASSUME IInv, TypeOK', NEW t \in Threads, Step(t)
    PROVE  ~refcnts'.present => refcnts' = NoEntry
<1>h. TypeOK /\ SideOK BY DEF IInv
<1> USE <1>h DEF TypeOK, Entry, Reload, CanBorrow, SideOK, SplitOK, Side, Find,
    NewEntry, NoEntry, sidetable_retain, sidetable_tryRetain,
    sidetable_release, LastRelease, sidetable_addExtraRC_nolock,
    sidetable_subExtraRC_nolock, sidetable_moveExtraRC_nolock
<1>1. ASSUME Retain(t) PROVE ~refcnts'.present => refcnts' = NoEntry
  BY <1>1 DEF Retain
<1>2. ASSUME LoadWeak(t) PROVE ~refcnts'.present => refcnts' = NoEntry
  BY <1>2 DEF LoadWeak
<1>3. ASSUME TryRetainRaw(t) PROVE ~refcnts'.present => refcnts' = NoEntry
  BY <1>3 DEF TryRetainRaw
<1>4. ASSUME RetainRaw(t) PROVE ~refcnts'.present => refcnts' = NoEntry
  BY <1>4 DEF RetainRaw
<1>5. ASSUME RetainSeesDeallocating(t) PROVE ~refcnts'.present => refcnts' = NoEntry
  BY <1>5 DEF RetainSeesDeallocating
<1>6. ASSUME RetainInline(t) PROVE ~refcnts'.present => refcnts' = NoEntry
  BY <1>6 DEF RetainInline, RetainLoop
<1>7. ASSUME RetainOverflow(t) PROVE ~refcnts'.present => refcnts' = NoEntry
  BY <1>7 DEF RetainOverflow, RetainLoop
<1>8. ASSUME RetainLock(t) PROVE ~refcnts'.present => refcnts' = NoEntry
  BY <1>8 DEF RetainLock, RetainLoop
<1>9. ASSUME RetainSplit(t) PROVE ~refcnts'.present => refcnts' = NoEntry
  BY <1>9 DEF RetainSplit, RetainLoop
<1>10. ASSUME RetainTranscribe(t) PROVE ~refcnts'.present => refcnts' = NoEntry
  BY <1>10 DEF RetainTranscribe
<1>11. ASSUME RetainRetry(t) PROVE ~refcnts'.present => refcnts' = NoEntry
  BY <1>11 DEF RetainRetry, RetainLoop
<1>12. ASSUME WeakLoaded(t) PROVE ~refcnts'.present => refcnts' = NoEntry
  BY <1>12 DEF WeakLoaded
<1>13. ASSUME Release(t) PROVE ~refcnts'.present => refcnts' = NoEntry
  BY <1>13 DEF Release
<1>14. ASSUME ReleaseRaw(t) PROVE ~refcnts'.present => refcnts' = NoEntry
  BY <1>14 DEF ReleaseRaw, SendDealloc
<1>15. ASSUME ReleaseSeesDeallocating(t) PROVE ~refcnts'.present => refcnts' = NoEntry
  BY <1>15 DEF ReleaseSeesDeallocating
<1>16. ASSUME ReleaseInline(t) PROVE ~refcnts'.present => refcnts' = NoEntry
  BY <1>16 DEF ReleaseInline, ReleaseLoop
<1>17. ASSUME ReleaseUnderflow(t) PROVE ~refcnts'.present => refcnts' = NoEntry
  BY <1>17 DEF ReleaseUnderflow, ReleaseLoop
<1>18. ASSUME ReleaseLock(t) PROVE ~refcnts'.present => refcnts' = NoEntry
  BY <1>18 DEF ReleaseLock, ReleaseLoop
<1>19. ASSUME ReleaseBorrow(t) PROVE ~refcnts'.present => refcnts' = NoEntry
  BY <1>19 DEF ReleaseBorrow, ReleaseLoop
<1>20. ASSUME BorrowStore(t) PROVE ~refcnts'.present => refcnts' = NoEntry
  BY <1>20 DEF BorrowStore, StoreBorrowed
<1>21. ASSUME BorrowFailed(t) PROVE ~refcnts'.present => refcnts' = NoEntry
  BY <1>21 DEF BorrowFailed
<1>22. ASSUME BorrowStoreAgain(t) PROVE ~refcnts'.present => refcnts' = NoEntry
  BY <1>22 DEF BorrowStoreAgain, StoreBorrowed
<1>23. ASSUME BorrowFailedAgain(t) PROVE ~refcnts'.present => refcnts' = NoEntry
  BY <1>23 DEF BorrowFailedAgain
<1>24. ASSUME BorrowPutBack(t) PROVE ~refcnts'.present => refcnts' = NoEntry
  BY <1>24 DEF BorrowPutBack
<1>25. ASSUME BorrowStored(t) PROVE ~refcnts'.present => refcnts' = NoEntry
  BY <1>25 DEF BorrowStored, SendDealloc
<1>26. ASSUME ReleaseRetry(t) PROVE ~refcnts'.present => refcnts' = NoEntry
  BY <1>26 DEF ReleaseRetry, ReleaseLoop
<1>27. ASSUME ReleaseDeallocate(t) PROVE ~refcnts'.present => refcnts' = NoEntry
  BY <1>27 DEF ReleaseDeallocate, SendDealloc
<1>28. ASSUME FastFree(t) PROVE ~refcnts'.present => refcnts' = NoEntry
  BY <1>28 DEF FastFree
<1>29. ASSUME Destruct(t) PROVE ~refcnts'.present => refcnts' = NoEntry
  BY <1>29 DEF Destruct
<1>30. ASSUME ClearRaw(t) PROVE ~refcnts'.present => refcnts' = NoEntry
  BY <1>30 DEF ClearRaw
<1>31. ASSUME ClearNonpointer(t) PROVE ~refcnts'.present => refcnts' = NoEntry
  BY <1>31 DEF ClearNonpointer
<1>32. ASSUME StoreWeak(t) PROVE ~refcnts'.present => refcnts' = NoEntry
  BY <1>32 DEF StoreWeak
<1>33. ASSUME setWeaklyReferenced_nolock(t) PROVE ~refcnts'.present => refcnts' = NoEntry
  BY <1>33 DEF setWeaklyReferenced_nolock
<1>34. ASSUME StoreWeakRetry(t) PROVE ~refcnts'.present => refcnts' = NoEntry
  BY <1>34 DEF StoreWeakRetry
<1>35. ASSUME DestroyWeak(t) PROVE ~refcnts'.present => refcnts' = NoEntry
  BY <1>35 DEF DestroyWeak
<1>36. ASSUME SetAssociation(t) PROVE ~refcnts'.present => refcnts' = NoEntry
  BY <1>36 DEF SetAssociation
<1>37. ASSUME ClearAssociation(t) PROVE ~refcnts'.present => refcnts' = NoEntry
  BY <1>37 DEF ClearAssociation
<1>38. ASSUME setHasAssociatedObjects(t) PROVE ~refcnts'.present => refcnts' = NoEntry
  BY <1>38 DEF setHasAssociatedObjects
<1>39. ASSUME SetAssociationRetry(t) PROVE ~refcnts'.present => refcnts' = NoEntry
  BY <1>39 DEF SetAssociationRetry
<1>40. ASSUME NEW l \in {"change", "changeRaw"},
    SetClass(t, l) PROVE ~refcnts'.present => refcnts' = NoEntry
  BY <1>40 DEF SetClass
<1>41. ASSUME ChangeLock(t) PROVE ~refcnts'.present => refcnts' = NoEntry
  BY <1>41 DEF ChangeLock, Changing, ToRaw
<1>42. ASSUME ChangeStore(t) PROVE ~refcnts'.present => refcnts' = NoEntry
  BY <1>42 DEF ChangeStore, Changing, ToRaw, ChangedIsa
<1>43. ASSUME ChangeRetry(t) PROVE ~refcnts'.present => refcnts' = NoEntry
  BY <1>43 DEF ChangeRetry, Changing, ToRaw, ChangedIsa
<1>44. ASSUME ChangeMove(t) PROVE ~refcnts'.present => refcnts' = NoEntry
  BY <1>44 DEF ChangeMove
<1> QED
  BY <1>1, <1>2, <1>3, <1>4, <1>5, <1>6, <1>7, <1>8, <1>9, <1>10, <1>11,
      <1>12, <1>13, <1>14, <1>15, <1>16, <1>17, <1>18, <1>19, <1>20, <1>21,
      <1>22, <1>23, <1>24, <1>25, <1>26, <1>27, <1>28, <1>29, <1>30, <1>31,
      <1>32, <1>33, <1>34, <1>35, <1>36, <1>37, <1>38, <1>39, <1>40, <1>41,
      <1>42, <1>43, <1>44
  DEF Step, RetainStep, ReleaseStep, DeallocStep, FlagStep, ChangeStep

\* A raw isa has no bits set.
LEMMA SideRaw ==
    ASSUME IInv, TypeOK', NEW t \in Threads, Step(t)
    PROVE  ~isa'.nonpointer => isa' = RawIsa
<1>h. TypeOK /\ SideOK /\ BorrowOf(t) /\ OldIsaOf(t) BY DEF IInv, BorrowOK,
    OldIsaOK
<1> USE <1>h DEF TypeOK, IsaWord, SideOK, SplitOK, PCs, Goto, Load, Begin,
    End, Return,
    RRReturn, Reload, Lock, Unlock, UnlockIf, locals
<1>1. ASSUME Retain(t) PROVE ~isa'.nonpointer => isa' = RawIsa
  BY <1>1 DEF Retain
<1>2. ASSUME LoadWeak(t) PROVE ~isa'.nonpointer => isa' = RawIsa
  BY <1>2 DEF LoadWeak
<1>3. ASSUME TryRetainRaw(t) PROVE ~isa'.nonpointer => isa' = RawIsa
  BY <1>3 DEF TryRetainRaw
<1>4. ASSUME RetainRaw(t) PROVE ~isa'.nonpointer => isa' = RawIsa
  BY <1>4 DEF RetainRaw
<1>5. ASSUME RetainSeesDeallocating(t) PROVE ~isa'.nonpointer => isa' = RawIsa
  BY <1>5 DEF RetainSeesDeallocating
<1>6. ASSUME RetainInline(t) PROVE ~isa'.nonpointer => isa' = RawIsa
  BY <1>6 DEF RetainInline, RetainLoop
<1>7. ASSUME RetainOverflow(t) PROVE ~isa'.nonpointer => isa' = RawIsa
  BY <1>7 DEF RetainOverflow, RetainLoop
<1>8. ASSUME RetainLock(t) PROVE ~isa'.nonpointer => isa' = RawIsa
  BY <1>8 DEF RetainLock, RetainLoop
<1>9. ASSUME RetainSplit(t) PROVE ~isa'.nonpointer => isa' = RawIsa
  BY <1>9 DEF RetainSplit, RetainLoop, SetCount
<1>10. ASSUME RetainTranscribe(t) PROVE ~isa'.nonpointer => isa' = RawIsa
  BY <1>10 DEF RetainTranscribe
<1>11. ASSUME RetainRetry(t) PROVE ~isa'.nonpointer => isa' = RawIsa
  BY <1>11 DEF RetainRetry, RetainLoop
<1>12. ASSUME WeakLoaded(t) PROVE ~isa'.nonpointer => isa' = RawIsa
  BY <1>12 DEF WeakLoaded
<1>13. ASSUME Release(t) PROVE ~isa'.nonpointer => isa' = RawIsa
  BY <1>13 DEF Release
<1>14. ASSUME ReleaseRaw(t) PROVE ~isa'.nonpointer => isa' = RawIsa
  BY <1>14 DEF ReleaseRaw, SendDealloc
<1>15. ASSUME ReleaseSeesDeallocating(t) PROVE ~isa'.nonpointer => isa' = RawIsa
  BY <1>15 DEF ReleaseSeesDeallocating
<1>16. ASSUME ReleaseInline(t) PROVE ~isa'.nonpointer => isa' = RawIsa
  BY <1>16 DEF ReleaseInline, ReleaseLoop
<1>17. ASSUME ReleaseUnderflow(t) PROVE ~isa'.nonpointer => isa' = RawIsa
  BY <1>17 DEF ReleaseUnderflow, ReleaseLoop
<1>18. ASSUME ReleaseLock(t) PROVE ~isa'.nonpointer => isa' = RawIsa
  BY <1>18 DEF ReleaseLock, ReleaseLoop
<1>19. ASSUME ReleaseBorrow(t) PROVE ~isa'.nonpointer => isa' = RawIsa
  BY <1>19 DEF ReleaseBorrow, ReleaseLoop
<1>20. ASSUME BorrowStore(t) PROVE ~isa'.nonpointer => isa' = RawIsa
  BY <1>20 DEF BorrowStore, StoreBorrowed, SetCount, BorrowOf
<1>21. ASSUME BorrowFailed(t) PROVE ~isa'.nonpointer => isa' = RawIsa
  BY <1>21 DEF BorrowFailed
<1>22. ASSUME BorrowStoreAgain(t) PROVE ~isa'.nonpointer => isa' = RawIsa
  BY <1>22 DEF BorrowStoreAgain, StoreBorrowed, SetCount, BorrowOf
<1>23. ASSUME BorrowFailedAgain(t) PROVE ~isa'.nonpointer => isa' = RawIsa
  BY <1>23 DEF BorrowFailedAgain
<1>24. ASSUME BorrowPutBack(t) PROVE ~isa'.nonpointer => isa' = RawIsa
  BY <1>24 DEF BorrowPutBack
<1>25. ASSUME BorrowStored(t) PROVE ~isa'.nonpointer => isa' = RawIsa
  BY <1>25 DEF BorrowStored, SendDealloc
<1>26. ASSUME ReleaseRetry(t) PROVE ~isa'.nonpointer => isa' = RawIsa
  BY <1>26 DEF ReleaseRetry, ReleaseLoop
<1>27. ASSUME ReleaseDeallocate(t) PROVE ~isa'.nonpointer => isa' = RawIsa
  BY <1>27 DEF ReleaseDeallocate, SendDealloc
<1>28. ASSUME FastFree(t) PROVE ~isa'.nonpointer => isa' = RawIsa
  BY <1>28 DEF FastFree
<1>29. ASSUME Destruct(t) PROVE ~isa'.nonpointer => isa' = RawIsa
  BY <1>29 DEF Destruct
<1>30. ASSUME ClearRaw(t) PROVE ~isa'.nonpointer => isa' = RawIsa
  BY <1>30 DEF ClearRaw
<1>31. ASSUME ClearNonpointer(t) PROVE ~isa'.nonpointer => isa' = RawIsa
  BY <1>31 DEF ClearNonpointer
<1>32. ASSUME StoreWeak(t) PROVE ~isa'.nonpointer => isa' = RawIsa
  BY <1>32 DEF StoreWeak
<1>33. ASSUME setWeaklyReferenced_nolock(t) PROVE ~isa'.nonpointer => isa' = RawIsa
  BY <1>33 DEF setWeaklyReferenced_nolock
<1>34. ASSUME StoreWeakRetry(t) PROVE ~isa'.nonpointer => isa' = RawIsa
  BY <1>34 DEF StoreWeakRetry
<1>35. ASSUME DestroyWeak(t) PROVE ~isa'.nonpointer => isa' = RawIsa
  BY <1>35 DEF DestroyWeak
<1>36. ASSUME SetAssociation(t) PROVE ~isa'.nonpointer => isa' = RawIsa
  BY <1>36 DEF SetAssociation
<1>37. ASSUME ClearAssociation(t) PROVE ~isa'.nonpointer => isa' = RawIsa
  BY <1>37 DEF ClearAssociation
<1>38. ASSUME setHasAssociatedObjects(t) PROVE ~isa'.nonpointer => isa' = RawIsa
  BY <1>38 DEF setHasAssociatedObjects
<1>39. ASSUME SetAssociationRetry(t) PROVE ~isa'.nonpointer => isa' = RawIsa
  BY <1>39 DEF SetAssociationRetry
<1>40. ASSUME NEW l \in {"change", "changeRaw"},
    SetClass(t, l) PROVE ~isa'.nonpointer => isa' = RawIsa
  BY <1>40 DEF SetClass
<1>41. ASSUME ChangeLock(t) PROVE ~isa'.nonpointer => isa' = RawIsa
  BY <1>41 DEF ChangeLock, Changing, ToRaw
<1>42. ASSUME ChangeStore(t) PROVE ~isa'.nonpointer => isa' = RawIsa
  BY <1>42 DEF ChangeStore, Changing, ToRaw, ChangedIsa, OldIsaOf, LoopPCs,
      RawIsa
<1>43. ASSUME ChangeRetry(t) PROVE ~isa'.nonpointer => isa' = RawIsa
  BY <1>43 DEF ChangeRetry, Changing, ToRaw, ChangedIsa
<1>44. ASSUME ChangeMove(t) PROVE ~isa'.nonpointer => isa' = RawIsa
  BY <1>44 DEF ChangeMove
<1> QED
  BY <1>1, <1>2, <1>3, <1>4, <1>5, <1>6, <1>7, <1>8, <1>9, <1>10, <1>11,
      <1>12, <1>13, <1>14, <1>15, <1>16, <1>17, <1>18, <1>19, <1>20, <1>21,
      <1>22, <1>23, <1>24, <1>25, <1>26, <1>27, <1>28, <1>29, <1>30, <1>31,
      <1>32, <1>33, <1>34, <1>35, <1>36, <1>37, <1>38, <1>39, <1>40, <1>41,
      <1>42, <1>43, <1>44
  DEF Step, RetainStep, ReleaseStep, DeallocStep, FlagStep, ChangeStep

\* What is moved to the side table was not deallocating, and the entry it
\* goes to has no flags yet.
LEMMA SideMove ==
    ASSUME IInv, TypeOK', NEW t \in Threads, Step(t)
    PROVE  pc'[t] = "move" =>
          /\ lock = t /\ ~refcnts'.deallocating /\ ~refcnts'.weakly_referenced
          /\ ~refcnts'.pinned /\ ~IsDeallocating(oldisa'[t])
<1>h. /\ TypeOK /\ FramesOK /\ LockOK /\ SideOK
      /\ BorrowOf(t) /\ OldIsaOf(t) /\ OldIsaOf(t)'
  BY OldIsaSelf DEF IInv, BorrowOK, OldIsaOK
<1>a. /\ Dying(t) /\ isa.nonpointer => IsDeallocating(isa)
      /\ Holds(t) /\ isa.nonpointer => ~IsDeallocating(isa)
      /\ pc[t] = "changeRaw" => Holds(t)
      /\ freed => pc[t] \in NotTouching /\ ~Holds(t)
  BY AliveFacts DEF IInv, TokensOK, NoUseAfterFree
<1> DEFINE G == pc'[t] = "move" =>
          /\ lock = t /\ ~refcnts'.deallocating /\ ~refcnts'.weakly_referenced
          /\ ~refcnts'.pinned /\ ~IsDeallocating(oldisa'[t])
<1> USE <1>h, <1>a, ConstantsAssumption, RCFacts DEF TypeOK, IsaWord,
    InlineCounts, Entry, SetCount, FramesOK, LockOK, HasLock, LockedPCs,
    SideOK, SplitOK, OldIsaOf, Fresh, LoopPCs, Side, BorrowOf, RawIsa, Find,
    NewEntry,
    NoEntry, PCs, Goto, Load, Begin, End, Return, RRReturn, Reload, Lock,
    Unlock, UnlockIf, locals
<1>1. ASSUME Retain(t) PROVE G
  BY <1>1 DEF Retain
<1>2. ASSUME LoadWeak(t) PROVE G
  BY <1>2 DEF LoadWeak
<1>3. ASSUME TryRetainRaw(t) PROVE G
  BY <1>3 DEF TryRetainRaw
<1>4. ASSUME RetainRaw(t) PROVE G
  BY <1>4 DEF RetainRaw
<1>5. ASSUME RetainSeesDeallocating(t) PROVE G
  BY <1>5 DEF RetainSeesDeallocating
<1>6. ASSUME RetainInline(t) PROVE G
  BY <1>6 DEF RetainInline, RetainLoop
<1>7. ASSUME RetainOverflow(t) PROVE G
  BY <1>7 DEF RetainOverflow, RetainLoop
<1>8. ASSUME RetainLock(t) PROVE G
  BY <1>8 DEF RetainLock, RetainLoop
<1>9. ASSUME RetainSplit(t) PROVE G
  BY <1>9 DEF RetainSplit, RetainLoop
<1>10. ASSUME RetainTranscribe(t) PROVE G
  BY <1>10 DEF RetainTranscribe
<1>11. ASSUME RetainRetry(t) PROVE G
  BY <1>11 DEF RetainRetry, RetainLoop
<1>12. ASSUME WeakLoaded(t) PROVE G
  BY <1>12 DEF WeakLoaded
<1>13. ASSUME Release(t) PROVE G
  BY <1>13 DEF Release
<1>14. ASSUME ReleaseRaw(t) PROVE G
  BY <1>14 DEF ReleaseRaw, SendDealloc
<1>15. ASSUME ReleaseSeesDeallocating(t) PROVE G
  BY <1>15 DEF ReleaseSeesDeallocating
<1>16. ASSUME ReleaseInline(t) PROVE G
  BY <1>16 DEF ReleaseInline, ReleaseLoop
<1>17. ASSUME ReleaseUnderflow(t) PROVE G
  BY <1>17 DEF ReleaseUnderflow, ReleaseLoop
<1>18. ASSUME ReleaseLock(t) PROVE G
  BY <1>18 DEF ReleaseLock, ReleaseLoop
<1>19. ASSUME ReleaseBorrow(t) PROVE G
  BY <1>19 DEF ReleaseBorrow, ReleaseLoop
<1>20. ASSUME BorrowStore(t) PROVE G
  BY <1>20 DEF BorrowStore, StoreBorrowed
<1>21. ASSUME BorrowFailed(t) PROVE G
  BY <1>21 DEF BorrowFailed
<1>22. ASSUME BorrowStoreAgain(t) PROVE G
  BY <1>22 DEF BorrowStoreAgain, StoreBorrowed
<1>23. ASSUME BorrowFailedAgain(t) PROVE G
  BY <1>23 DEF BorrowFailedAgain
<1>24. ASSUME BorrowPutBack(t) PROVE G
  BY <1>24 DEF BorrowPutBack
<1>25. ASSUME BorrowStored(t) PROVE G
  BY <1>25 DEF BorrowStored, SendDealloc
<1>26. ASSUME ReleaseRetry(t) PROVE G
  BY <1>26 DEF ReleaseRetry, ReleaseLoop
<1>27. ASSUME ReleaseDeallocate(t) PROVE G
  BY <1>27 DEF ReleaseDeallocate, SendDealloc
<1>28. ASSUME FastFree(t) PROVE G
  BY <1>28 DEF FastFree
<1>29. ASSUME Destruct(t) PROVE G
  BY <1>29 DEF Destruct
<1>30. ASSUME ClearRaw(t) PROVE G
  BY <1>30 DEF ClearRaw
<1>31. ASSUME ClearNonpointer(t) PROVE G
  BY <1>31 DEF ClearNonpointer
<1>32. ASSUME StoreWeak(t) PROVE G
  BY <1>32 DEF StoreWeak
<1>33. ASSUME setWeaklyReferenced_nolock(t) PROVE G
  BY <1>33 DEF setWeaklyReferenced_nolock
<1>34. ASSUME StoreWeakRetry(t) PROVE G
  BY <1>34 DEF StoreWeakRetry
<1>35. ASSUME DestroyWeak(t) PROVE G
  BY <1>35 DEF DestroyWeak
<1>36. ASSUME SetAssociation(t) PROVE G
  BY <1>36 DEF SetAssociation
<1>37. ASSUME ClearAssociation(t) PROVE G
  BY <1>37 DEF ClearAssociation
<1>38. ASSUME setHasAssociatedObjects(t) PROVE G
  BY <1>38 DEF setHasAssociatedObjects
<1>39. ASSUME SetAssociationRetry(t) PROVE G
  BY <1>39 DEF SetAssociationRetry
<1>40. ASSUME NEW l \in {"change", "changeRaw"}, SetClass(t, l) PROVE G
  BY <1>40 DEF SetClass
<1>41. ASSUME ChangeLock(t) PROVE G
  BY <1>41 DEF ChangeLock, Changing, ToRaw
<1>42. ASSUME ChangeStore(t) PROVE G
  BY <1>42 DEF ChangeStore, Changing, ToRaw, ChangedIsa
<1>43. ASSUME ChangeRetry(t) PROVE G
  BY <1>43 DEF ChangeRetry, Changing, ToRaw, ChangedIsa
<1>44. ASSUME ChangeMove(t) PROVE G
  BY <1>44 DEF ChangeMove
<1> QED
  BY <1>1, <1>2, <1>3, <1>4, <1>5, <1>6, <1>7, <1>8, <1>9, <1>10, <1>11,
      <1>12, <1>13, <1>14, <1>15, <1>16, <1>17, <1>18, <1>19, <1>20, <1>21,
      <1>22, <1>23, <1>24, <1>25, <1>26, <1>27, <1>28, <1>29, <1>30, <1>31,
      <1>32, <1>33, <1>34, <1>35, <1>36, <1>37, <1>38, <1>39, <1>40, <1>41,
      <1>42, <1>43, <1>44
  DEF Step, RetainStep, ReleaseStep, DeallocStep, FlagStep, ChangeStep

\* A freed object has no counts.
LEMMA SideFreed ==
    ASSUME IInv, TypeOK', NEW t \in Threads, Step(t)
    PROVE  freed' => IF isa'.nonpointer THEN ~isa'.has_sidetable_rc ELSE refcnts' = NoEntry
<1>h. /\ TypeOK /\ FramesOK /\ LockOK /\ SideOK
      /\ BorrowOf(t) /\ OldIsaOf(t) /\ OldIsaOf(t)'
  BY OldIsaSelf DEF IInv, BorrowOK, OldIsaOK
<1>a. /\ Dying(t) /\ isa.nonpointer => IsDeallocating(isa)
      /\ Holds(t) /\ isa.nonpointer => ~IsDeallocating(isa)
      /\ pc[t] = "changeRaw" => Holds(t)
      /\ freed => pc[t] \in NotTouching /\ ~Holds(t)
  BY AliveFacts DEF IInv, TokensOK, NoUseAfterFree
<1> DEFINE G == freed' => IF isa'.nonpointer THEN ~isa'.has_sidetable_rc
                          ELSE refcnts' = NoEntry
<1> USE <1>h, <1>a, ConstantsAssumption, RCFacts DEF TypeOK, IsaWord,
    InlineCounts, Entry, SetCount, FramesOK, LockOK, HasLock, LockedPCs,
    SideOK, SplitOK, OldIsaOf, Fresh, LoopPCs, Side, BorrowOf, RawIsa, Find,
    NewEntry,
    NoEntry, PCs, Goto, Load, Begin, End, Return, RRReturn, Reload, Lock,
    Unlock, UnlockIf, locals, NotTouching
<1>1. ASSUME Retain(t) PROVE G
  BY <1>1 DEF Retain, Fate
<1>2. ASSUME LoadWeak(t) PROVE G
  BY <1>2 DEF LoadWeak, Fate
<1>3. ASSUME TryRetainRaw(t) PROVE G
  BY <1>3 DEF TryRetainRaw, Fate
<1>4. ASSUME RetainRaw(t) PROVE G
  BY <1>4 DEF RetainRaw, Fate
<1>5. ASSUME RetainSeesDeallocating(t) PROVE G
  BY <1>5 DEF RetainSeesDeallocating, Fate
<1>6. ASSUME RetainInline(t) PROVE G
  BY <1>6 DEF RetainInline, RetainLoop, Fate
<1>7. ASSUME RetainOverflow(t) PROVE G
  BY <1>7 DEF RetainOverflow, RetainLoop, Fate
<1>8. ASSUME RetainLock(t) PROVE G
  BY <1>8 DEF RetainLock, RetainLoop, Fate
<1>9. ASSUME RetainSplit(t) PROVE G
  BY <1>9 DEF RetainSplit, RetainLoop, Fate
<1>10. ASSUME RetainTranscribe(t) PROVE G
  BY <1>10 DEF RetainTranscribe, Fate
<1>11. ASSUME RetainRetry(t) PROVE G
  BY <1>11 DEF RetainRetry, RetainLoop, Fate
<1>12. ASSUME WeakLoaded(t) PROVE G
  BY <1>12 DEF WeakLoaded, Fate
<1>13. ASSUME Release(t) PROVE G
  BY <1>13 DEF Release, Fate
<1>14. ASSUME ReleaseRaw(t) PROVE G
  BY <1>14 DEF ReleaseRaw, SendDealloc, Fate
<1>15. ASSUME ReleaseSeesDeallocating(t) PROVE G
  BY <1>15 DEF ReleaseSeesDeallocating, Fate
<1>16. ASSUME ReleaseInline(t) PROVE G
  BY <1>16 DEF ReleaseInline, ReleaseLoop, Fate
<1>17. ASSUME ReleaseUnderflow(t) PROVE G
  BY <1>17 DEF ReleaseUnderflow, ReleaseLoop, Fate
<1>18. ASSUME ReleaseLock(t) PROVE G
  BY <1>18 DEF ReleaseLock, ReleaseLoop, Fate
<1>19. ASSUME ReleaseBorrow(t) PROVE G
  BY <1>19 DEF ReleaseBorrow, ReleaseLoop, Fate
<1>20. ASSUME BorrowStore(t) PROVE G
  BY <1>20 DEF BorrowStore, StoreBorrowed, Fate
<1>21. ASSUME BorrowFailed(t) PROVE G
  BY <1>21 DEF BorrowFailed, Fate
<1>22. ASSUME BorrowStoreAgain(t) PROVE G
  BY <1>22 DEF BorrowStoreAgain, StoreBorrowed, Fate
<1>23. ASSUME BorrowFailedAgain(t) PROVE G
  BY <1>23 DEF BorrowFailedAgain, Fate
<1>24. ASSUME BorrowPutBack(t) PROVE G
  BY <1>24 DEF BorrowPutBack, Fate
<1>25. ASSUME BorrowStored(t) PROVE G
  BY <1>25 DEF BorrowStored, SendDealloc, Fate
<1>26. ASSUME ReleaseRetry(t) PROVE G
  BY <1>26 DEF ReleaseRetry, ReleaseLoop, Fate
<1>27. ASSUME ReleaseDeallocate(t) PROVE G
  BY <1>27 DEF ReleaseDeallocate, SendDealloc, Fate
<1>28. ASSUME FastFree(t) PROVE G
  BY <1>28 DEF FastFree, Fate
<1>29. ASSUME Destruct(t) PROVE G
  BY <1>29 DEF Destruct, Fate
<1>30. ASSUME ClearRaw(t) PROVE G
  BY <1>30 DEF ClearRaw, Fate
<1>31. ASSUME ClearNonpointer(t) PROVE G
  BY <1>31 DEF ClearNonpointer, Fate, IsDeallocating, Dying
<1>32. ASSUME StoreWeak(t) PROVE G
  BY <1>32 DEF StoreWeak, Fate
<1>33. ASSUME setWeaklyReferenced_nolock(t) PROVE G
  BY <1>33 DEF setWeaklyReferenced_nolock, Fate
<1>34. ASSUME StoreWeakRetry(t) PROVE G
  BY <1>34 DEF StoreWeakRetry, Fate
<1>35. ASSUME DestroyWeak(t) PROVE G
  BY <1>35 DEF DestroyWeak, Fate
<1>36. ASSUME SetAssociation(t) PROVE G
  BY <1>36 DEF SetAssociation, Fate
<1>37. ASSUME ClearAssociation(t) PROVE G
  BY <1>37 DEF ClearAssociation, Fate
<1>38. ASSUME setHasAssociatedObjects(t) PROVE G
  BY <1>38 DEF setHasAssociatedObjects, Fate
<1>39. ASSUME SetAssociationRetry(t) PROVE G
  BY <1>39 DEF SetAssociationRetry, Fate
<1>40. ASSUME NEW l \in {"change", "changeRaw"}, SetClass(t, l) PROVE G
  BY <1>40 DEF SetClass, Fate
<1>41. ASSUME ChangeLock(t) PROVE G
  BY <1>41 DEF ChangeLock, Changing, ToRaw, Fate
<1>42. ASSUME ChangeStore(t) PROVE G
  BY <1>42 DEF ChangeStore, Changing, ToRaw, ChangedIsa, Fate
<1>43. ASSUME ChangeRetry(t) PROVE G
  BY <1>43 DEF ChangeRetry, Changing, ToRaw, ChangedIsa, Fate
<1>44. ASSUME ChangeMove(t) PROVE G
  BY <1>44 DEF ChangeMove, Fate
<1> QED
  BY <1>1, <1>2, <1>3, <1>4, <1>5, <1>6, <1>7, <1>8, <1>9, <1>10, <1>11,
      <1>12, <1>13, <1>14, <1>15, <1>16, <1>17, <1>18, <1>19, <1>20, <1>21,
      <1>22, <1>23, <1>24, <1>25, <1>26, <1>27, <1>28, <1>29, <1>30, <1>31,
      <1>32, <1>33, <1>34, <1>35, <1>36, <1>37, <1>38, <1>39, <1>40, <1>41,
      <1>42, <1>43, <1>44
  DEF Step, RetainStep, ReleaseStep, DeallocStep, FlagStep, ChangeStep

\* The second attempt to store borrowed counts: the flag in the isa says
\* whether the side table has any left.
LEMMA SplitStoreAgain ==
    ASSUME IInv, NEW t \in Threads, BorrowStoreAgain(t)
    PROVE  SplitOK'
<1>h. TypeOK /\ LockOK /\ SideOK /\ BorrowOf(t) BY DEF IInv, BorrowOK
<1> DEFINE e == oldisa[t].extra_rc + RC_HALF - 1
<1>0. pc[t] = "borrowAgain" /\ isa' = SetCount(isa, e, ~emptySideTable)
  BY DEF BorrowStoreAgain, StoreBorrowed
<1>1. isa'.extra_rc = e /\ isa'.nonpointer = isa.nonpointer BY <1>0 DEF SetCount
<1>2. isa'.has_sidetable_rc <=> refcnts.rc # 0
  <2>1. isa'.has_sidetable_rc = ~emptySideTable BY <1>0, Zenon DEF SetCount
  <2> QED BY <2>1 DEF emptySideTable
<1>3. e # 0 BY <1>h, RCFacts DEF TypeOK, IsaWord, InlineCounts
<1>4. pc'[t] = "stored" /\ refcnts' = refcnts /\ lock' = lock
  BY <1>h, <1>1, <1>3 DEF BorrowStoreAgain, StoreBorrowed, Side, Goto, TypeOK,
      IsDeallocating
<1>5. isa.nonpointer /\ refcnts.present BY <1>h, <1>0 DEF BorrowOf
<1>6. lock = t BY <1>h, <1>0 DEF LockOK, HasLock, LockedPCs
<1>7. SplitOK BY <1>h DEF SideOK, SplitOK
<1>8. refcnts.rc \in Int BY <1>h DEF TypeOK, Entry
<1>9. refcnts.rc >= 0 BY <1>5, <1>7, <1>8, HalfFacts DEF SplitOK
<1>10. SideCount' = refcnts.rc
  BY <1>4, <1>6, <1>8, ConstantsAssumption DEF SideCount, InFlight
<1> QED
  BY <1>2, <1>4, <1>5, <1>6, <1>7, <1>8, <1>9, <1>10,
      ConstantsAssumption DEF SplitOK

\* clearDeallocating of a nonpointer isa: there is nothing left to erase.
LEMMA SplitClear ==
    ASSUME IInv, NEW t \in Threads, ClearNonpointer(t)
    PROVE  SplitOK'
<1>h. TypeOK /\ SideOK BY DEF IInv
<1>1. isa' = isa /\ lock' = lock /\ isa.nonpointer /\ pc[t] = "clearDealloc"
  BY DEF ClearNonpointer
<1>2. ~isa.has_sidetable_rc BY <1>1, AliveFacts DEF Dying, IsDeallocating
<1>3. refcnts' = refcnts BY <1>2 DEF ClearNonpointer
<1>4. pc' = [pc EXCEPT ![t] = "idle"] BY DEF ClearNonpointer, Return, Goto
<1>5. ASSUME lock # NoThread
      PROVE  InFlight(lock)' = InFlight(lock)
             /\ (pc[lock] \in {"borrow", "borrowAgain", "putBack", "stored"}
                    => pc'[lock] = pc[lock])
  <2>1. CASE lock = t BY <1>1, <1>4, <1>h, <2>1 DEF InFlight, TypeOK
  <2>2. CASE lock # t
    <3>1. lock \in Threads BY <1>h, <1>5 DEF TypeOK
    <3>2. oldisa'[lock] = oldisa[lock]
      BY <2>2, <3>1, <1>h DEF ClearNonpointer, Return, End, TypeOK
    <3> QED BY <1>1, <1>4, <1>h, <2>2, <3>1, <3>2 DEF InFlight, TypeOK
  <2> QED BY <2>1, <2>2
<1>6. SideCount' = SideCount BY <1>1, <1>3, <1>5 DEF SideCount
<1> QED BY <1>h, <1>1, <1>3, <1>5, <1>6 DEF SideOK, SplitOK


\* The side table has counts when the isa says so: for the thread that has
\* the lock, or takes or needs none.
LEMMA SplitSelf ==
    ASSUME IInv, TypeOK', NEW t \in Threads, Step(t), lock \in {t, NoThread}
    PROVE  SplitOK'
<1>h. /\ TypeOK /\ FramesOK /\ LockOK /\ SideOK
      /\ BorrowOf(t) /\ OldIsaOf(t) /\ OldIsaOf(t)'
  BY OldIsaSelf DEF IInv, BorrowOK, OldIsaOK
<1> USE <1>h, HalfFacts, ConstantsAssumption, RCFacts DEF TypeOK, IsaWord,
    InlineCounts, Entry, SetCount, FramesOK, LockOK, HasLock, LockedPCs,
    SideOK, SplitOK, OldIsaOf, Fresh, LoopPCs, Side, BorrowOf, SideCount,
    InFlight,
    Find, NewEntry, NoEntry, sidetable_addExtraRC_nolock,
    sidetable_subExtraRC_nolock, CanBorrow, emptySideTable, PCs, Goto, Load,
    Begin, End, Return, RRReturn, Reload, Lock, Unlock, UnlockIf, locals
<1>1. ASSUME Retain(t) PROVE SplitOK'
  BY <1>1 DEF Retain
<1>2. ASSUME LoadWeak(t) PROVE SplitOK'
  BY <1>2 DEF LoadWeak
<1>3. ASSUME TryRetainRaw(t) PROVE SplitOK'
  BY <1>3 DEF TryRetainRaw
<1>4. ASSUME RetainRaw(t) PROVE SplitOK'
  BY <1>4 DEF RetainRaw
<1>5. ASSUME RetainSeesDeallocating(t) PROVE SplitOK'
  BY <1>5 DEF RetainSeesDeallocating
<1>6. ASSUME RetainInline(t) PROVE SplitOK'
  BY <1>6 DEF RetainInline, RetainLoop
<1>7. ASSUME RetainOverflow(t) PROVE SplitOK'
  BY <1>7 DEF RetainOverflow, RetainLoop
<1>8. ASSUME RetainLock(t) PROVE SplitOK'
  BY <1>8 DEF RetainLock, RetainLoop
<1>9. ASSUME RetainSplit(t) PROVE SplitOK'
  BY <1>9 DEF RetainSplit, RetainLoop
<1>10. ASSUME RetainTranscribe(t) PROVE SplitOK'
  BY <1>10 DEF RetainTranscribe
<1>11. ASSUME RetainRetry(t) PROVE SplitOK'
  BY <1>11 DEF RetainRetry, RetainLoop
<1>12. ASSUME WeakLoaded(t) PROVE SplitOK'
  BY <1>12 DEF WeakLoaded
<1>13. ASSUME Release(t) PROVE SplitOK'
  BY <1>13 DEF Release
<1>14. ASSUME ReleaseRaw(t) PROVE SplitOK'
  BY <1>14 DEF ReleaseRaw, SendDealloc
<1>15. ASSUME ReleaseSeesDeallocating(t) PROVE SplitOK'
  BY <1>15 DEF ReleaseSeesDeallocating
<1>16. ASSUME ReleaseInline(t) PROVE SplitOK'
  BY <1>16 DEF ReleaseInline, ReleaseLoop
<1>17. ASSUME ReleaseUnderflow(t) PROVE SplitOK'
  BY <1>17 DEF ReleaseUnderflow, ReleaseLoop
<1>18. ASSUME ReleaseLock(t) PROVE SplitOK'
  BY <1>18 DEF ReleaseLock, ReleaseLoop
<1>19. ASSUME ReleaseBorrow(t) PROVE SplitOK'
  BY <1>19 DEF ReleaseBorrow, ReleaseLoop
<1>20. ASSUME BorrowStore(t) PROVE SplitOK'
  BY <1>20 DEF BorrowStore, StoreBorrowed
<1>21. ASSUME BorrowFailed(t) PROVE SplitOK'
  BY <1>21 DEF BorrowFailed
<1>22. ASSUME BorrowStoreAgain(t) PROVE SplitOK'
  BY <1>22, SplitStoreAgain
<1>23. ASSUME BorrowFailedAgain(t) PROVE SplitOK'
  BY <1>23 DEF BorrowFailedAgain
<1>24. ASSUME BorrowPutBack(t) PROVE SplitOK'
  BY <1>24 DEF BorrowPutBack
<1>25. ASSUME BorrowStored(t) PROVE SplitOK'
  BY <1>25 DEF BorrowStored, SendDealloc
<1>26. ASSUME ReleaseRetry(t) PROVE SplitOK'
  BY <1>26 DEF ReleaseRetry, ReleaseLoop
<1>27. ASSUME ReleaseDeallocate(t) PROVE SplitOK'
  BY <1>27 DEF ReleaseDeallocate, SendDealloc
<1>28. ASSUME FastFree(t) PROVE SplitOK'
  BY <1>28 DEF FastFree
<1>29. ASSUME Destruct(t) PROVE SplitOK'
  BY <1>29 DEF Destruct
<1>30. ASSUME ClearRaw(t) PROVE SplitOK'
  BY <1>30 DEF ClearRaw
<1>31. ASSUME ClearNonpointer(t) PROVE SplitOK'
  BY <1>31, SplitClear
<1>32. ASSUME StoreWeak(t) PROVE SplitOK'
  BY <1>32 DEF StoreWeak
<1>33. ASSUME setWeaklyReferenced_nolock(t) PROVE SplitOK'
  BY <1>33 DEF setWeaklyReferenced_nolock
<1>34. ASSUME StoreWeakRetry(t) PROVE SplitOK'
  BY <1>34 DEF StoreWeakRetry
<1>35. ASSUME DestroyWeak(t) PROVE SplitOK'
  BY <1>35 DEF DestroyWeak
<1>36. ASSUME SetAssociation(t) PROVE SplitOK'
  BY <1>36 DEF SetAssociation
<1>37. ASSUME ClearAssociation(t) PROVE SplitOK'
  BY <1>37 DEF ClearAssociation
<1>38. ASSUME setHasAssociatedObjects(t) PROVE SplitOK'
  BY <1>38 DEF setHasAssociatedObjects
<1>39. ASSUME SetAssociationRetry(t) PROVE SplitOK'
  BY <1>39 DEF SetAssociationRetry
<1>40. ASSUME NEW l \in {"change", "changeRaw"}, SetClass(t, l) PROVE SplitOK'
  BY <1>40 DEF SetClass
<1>41. ASSUME ChangeLock(t) PROVE SplitOK'
  BY <1>41 DEF ChangeLock, Changing, ToRaw
<1>42. ASSUME ChangeStore(t) PROVE SplitOK'
  BY <1>42 DEF ChangeStore, Changing, ToRaw, ChangedIsa
<1>43. ASSUME ChangeRetry(t) PROVE SplitOK'
  BY <1>43 DEF ChangeRetry, Changing, ToRaw, ChangedIsa
<1>44. ASSUME ChangeMove(t) PROVE SplitOK'
  BY <1>44 DEF ChangeMove
<1> HIDE DEF TypeOK, IsaWord, InlineCounts, Entry, SetCount, FramesOK, LockOK,
    HasLock, LockedPCs, SideOK, SplitOK, OldIsaOf, Fresh, LoopPCs, Side,
    BorrowOf, SideCount, InFlight, Find, NewEntry, NoEntry,
    sidetable_addExtraRC_nolock, sidetable_subExtraRC_nolock, CanBorrow,
    emptySideTable, PCs, Goto, Load, Begin, End, Return, RRReturn, Reload,
    Lock, Unlock, UnlockIf, locals
<1> QED
  BY <1>1, <1>2, <1>3, <1>4, <1>5, <1>6, <1>7, <1>8, <1>9, <1>10, <1>11,
      <1>12, <1>13, <1>14, <1>15, <1>16, <1>17, <1>18, <1>19, <1>20, <1>21,
      <1>22, <1>23, <1>24, <1>25, <1>26, <1>27, <1>28, <1>29, <1>30, <1>31,
      <1>32, <1>33, <1>34, <1>35, <1>36, <1>37, <1>38, <1>39, <1>40, <1>41,
      <1>42, <1>43, <1>44
  DEF Step, RetainStep, ReleaseStep, DeallocStep, FlagStep, ChangeStep

\* A thread that does not have the lock, while another one has, moves none
\* of the counts.
LEMMA SideOther ==
    ASSUME IInv, OneSetter, TypeOK', NEW t \in Threads, Step(t),
    lock \in Threads, lock # t
    PROVE  SideCount' = SideCount /\ (Moving' <=> Moving) /\ SplitOK'
<1>1. /\ lock' = lock /\ refcnts' = refcnts
      /\ isa'.nonpointer = isa.nonpointer
      /\ isa'.has_sidetable_rc = isa.has_sidetable_rc
  BY HolderSees
<1>2. \A u \in Threads \ {t} : pc'[u] = pc[u] /\ oldisa'[u] = oldisa[u]
  BY OthersUntouched DEF IInv
<1>3. pc'[lock] = pc[lock] /\ oldisa'[lock] = oldisa[lock] BY <1>2
<1>4. InFlight(lock)' = InFlight(lock) BY <1>1, <1>3 DEF InFlight
<1>5. SideCount' = SideCount /\ (Moving' <=> Moving)
  BY <1>1, <1>3, <1>4, ConstantsAssumption DEF SideCount, Moving
<1>6. SplitOK' BY <1>1, <1>3, <1>5 DEF IInv, SideOK, SplitOK
<1> QED BY <1>5, <1>6

\* Every step keeps the isa's has_sidetable_rc and the entry of the side table in
\* agreement.
LEMMA SideStep ==
    ASSUME IInv, OneSetter, TypeOK', NEW t \in Threads, Step(t)
    PROVE  SideOK'
<1>1. ~refcnts'.present => refcnts' = NoEntry BY SideAbsent
<1>2. ~isa'.nonpointer => isa' = RawIsa BY SideRaw
<1>3. SplitOK'
  <2>1. CASE lock \in {t, NoThread} BY <2>1, SplitSelf
  <2>2. CASE lock \notin {t, NoThread} BY <2>2, SideOther DEF IInv, TypeOK
  <2> QED BY <2>1, <2>2
<1>4. ASSUME NEW u \in Threads, pc'[u] = "move"
      PROVE  /\ ~refcnts'.deallocating /\ ~refcnts'.weakly_referenced
             /\ ~refcnts'.pinned /\ ~IsDeallocating(oldisa'[u])
  <2>1. CASE u = t BY <1>4, <2>1, SideMove
  <2>2. CASE u # t
    <3>1. pc[u] = "move" /\ oldisa'[u] = oldisa[u]
      BY <1>4, <2>2, OthersUntouched DEF IInv
    <3>2. lock = u BY <3>1 DEF IInv, LockOK, HasLock, LockedPCs
    <3>3. refcnts' = refcnts BY <2>2, <3>2, HolderSees
    <3> QED BY <3>1, <3>3 DEF IInv, SideOK, SplitOK
  <2> QED BY <2>1, <2>2
<1>5. freed' => IF isa'.nonpointer THEN ~isa'.has_sidetable_rc ELSE refcnts' = NoEntry
  BY SideFreed
<1> QED BY <1>1, <1>2, <1>3, <1>4, <1>5 DEF SideOK, SplitOK

-----------------------------------------------------------------------------
(* The count.                                                              *)

\* What a step does to the references and to the count, as long as the
\* object is counted.
Counting == ~freed /\ ~Pinned

Adds(t) ==
    /\ ref[t] \in Refs /\ owner[ref[t]] = NoThread
    /\ owner' = [owner EXCEPT ![ref[t]] = t]
    /\ RetainCount' = RetainCount + 1

Removes(t) ==
    /\ ref[t] \in Refs /\ owner[ref[t]] = t
    /\ owner' = [owner EXCEPT ![ref[t]] = NoThread]
    /\ RetainCount' = RetainCount - 1

Keeps == owner' = owner /\ RetainCount' = RetainCount

CountsOn(t) == freed' \/ Pinned' \/ (Counting /\ (Adds(t) \/ Removes(t) \/ Keeps))

\* The count is a number, at least 1 where a reference is in use.
LEMMA CountFacts ==
    ASSUME IInv, NEW t \in Threads
    PROVE  /\ RetainCount \in Int
           /\ isa.nonpointer /\ refcnts.present /\ refcnts.rc # 0 => refcnts.rc >= RC_HALF
           /\ Counting /\ ref[t] # NoRef /\ pc[t] \in {"retain", "release"} /\ ~tryRetain[t]
                 => RetainCount > 0
           /\ Dying(t) /\ isa.nonpointer => IsDeallocating(isa)
           /\ Dying(t) /\ ~isa.nonpointer => refcnts.deallocating
<1>1. refcnts.rc \in Int /\ isa.extra_rc \in Int
  BY RCFacts DEF IInv, TypeOK, Entry, IsaWord, InlineCounts
<1>2. SideCount \in Int
  <2>1. lock # NoThread => InFlight(lock) \in Nat BY InFlightNat DEF IInv,
      TypeOK
  <2> QED BY <1>1, <2>1 DEF SideCount
<1>3. RetainCount \in Int BY <1>1, <1>2 DEF RetainCount
<1>4. isa.nonpointer /\ refcnts.rc # 0 => refcnts.rc >= RC_HALF
  BY <1>1, HalfFacts DEF IInv, SideOK, SplitOK
<1>5. ASSUME Counting, Live # {} PROVE RetainCount > 0
  BY <1>5, LiveFacts DEF IInv, CountMatchesReferences, Counting
<1>6. Dying(t) /\ ~isa.nonpointer => refcnts.deallocating BY DEF IInv, DeathOK
<1> QED BY <1>3, <1>4, <1>5, <1>6, AliveFacts


\* Adding one inline.
LEMMA RetainInlineCounts ==
    ASSUME IInv, TypeOK', NEW t \in Threads, lock \in {t, NoThread},
    RetainInline(t)
    PROVE  freed' \/ Pinned' \/ (Counting /\ Adds(t))
<1>h. /\ TypeOK /\ FramesOK /\ LockOK /\ TokensOK /\ SideOK
      /\ BorrowOf(t) /\ OldIsaOf(t)
  BY DEF IInv, BorrowOK, OldIsaOK
<1>p. isa.extra_rc \in Nat /\ refcnts.rc \in Int /\ isa.extra_rc <= RC_MAX
  BY <1>h, RCFacts DEF TypeOK, IsaWord, InlineCounts, Entry
<1> USE <1>h
<1> USE DEF RetainInline, RetainLoop
<1>1. isa'.nonpointer = isa.nonpointer /\ isa'.extra_rc = isa.extra_rc + 1
  BY DEF TypeOK, IsaWord
<1>2. isa.nonpointer /\ ~IsDeallocating(isa) OBVIOUS
<1>3. refcnts' = refcnts /\ freed' = freed BY DEF Side, Fate
<1>4. pc'[t] \in {"weakLoaded", "dealloc", "idle"} BY DEF RRReturn, Goto,
    TypeOK
<1>5. InFlight(t) = 0 /\ InFlight(t)' = 0 BY <1>4 DEF InFlight
<1>6. lock' \in {t, NoThread} BY DEF UnlockIf, Unlock
<1>7. SideCount = refcnts.rc /\ SideCount' = refcnts.rc BY <1>3, <1>5, <1>6,
    <1>p, ConstantsAssumption DEF SideCount
<1>8. RetainCount' = RetainCount + 1 BY <1>1, <1>2, <1>7, <1>p DEF RetainCount
<1>9. ref[t] \in Refs BY <1>2 DEF Dying, OldIsaOf, LoopPCs, TypeOK, FramesOK
<1>10. owner[ref[t]] = NoThread BY <1>9,  ConstantsAssumption DEF TokensOK
<1>11. owner' = [owner EXCEPT ![ref[t]] = t] BY <1>9,
     ConstantsAssumption DEF Gain, SetOwner
<1>12. ~isa'.nonpointer \/ Counting \/ freed BY <1>2 DEF Counting, Pinned
<1> QED BY <1>1, <1>2, <1>3, <1>8, <1>9, <1>10, <1>11 DEF Adds, Counting,
    Pinned

\* Taking a half out of the side table.
LEMMA ReleaseBorrowCounts ==
    ASSUME IInv, TypeOK', NEW t \in Threads, lock \in {t, NoThread},
    ReleaseBorrow(t)
    PROVE  freed' \/ Pinned' \/ (Counting /\ Keeps)
<1>h. /\ TypeOK /\ FramesOK /\ LockOK /\ TokensOK /\ SideOK
      /\ BorrowOf(t) /\ OldIsaOf(t)
  BY DEF IInv, BorrowOK, OldIsaOK
<1>p. isa.extra_rc \in Nat /\ refcnts.rc \in Int /\ isa.extra_rc <= RC_MAX
  BY <1>h, RCFacts DEF TypeOK, IsaWord, InlineCounts, Entry
<1> USE <1>h
<1> USE DEF ReleaseBorrow, ReleaseLoop
<1>1. lock = t /\ lock' = t BY DEF LockOK, HasLock
<1>2. isa.nonpointer /\ isa.has_sidetable_rc BY DEF OldIsaOf, Fresh, LoopPCs,
    HasLock, IsDeallocating
<1>3. InFlight(t) = 0 BY DEF InFlight
<1>4. SideCount = refcnts.rc BY <1>1, <1>3, <1>p,
    ConstantsAssumption DEF SideCount
<1>5. refcnts.rc > 0 BY <1>2, <1>4 DEF SideOK, SplitOK
<1>6. refcnts.present BY <1>5 DEF SideOK, SplitOK, NoEntry
<1>7. CanBorrow(refcnts) BY <1>5, <1>6 DEF CanBorrow
<1>8. pc'[t] = "borrow" /\ owner' = owner BY <1>7 DEF Goto, TypeOK
<1>9. refcnts'.rc = refcnts.rc - RC_HALF BY <1>7 DEF sidetable_subExtraRC_nolock, TypeOK, Entry
<1>10. InFlight(t)' = RC_HALF BY <1>8 DEF InFlight
<1>11. SideCount' = SideCount BY <1>1, <1>4, <1>9, <1>10, <1>p, RCFacts,
    ConstantsAssumption DEF SideCount
<1>12. isa' = isa /\ freed' = freed BY DEF Fate
<1>13. RetainCount' = RetainCount BY <1>2, <1>11, <1>12 DEF RetainCount
<1> QED BY <1>2, <1>8, <1>12, <1>13 DEF Keeps, Counting, Pinned

\* Storing what is left of it inline.
LEMMA BorrowStoreCounts ==
    ASSUME IInv, TypeOK', NEW t \in Threads, lock \in {t, NoThread},
    BorrowStore(t)
    PROVE  freed' \/ Pinned' \/ (Counting /\ Removes(t))
<1>h. /\ TypeOK /\ FramesOK /\ LockOK /\ TokensOK /\ SideOK
      /\ BorrowOf(t) /\ OldIsaOf(t)
  BY DEF IInv, BorrowOK, OldIsaOK
<1>p. isa.extra_rc \in Nat /\ refcnts.rc \in Int /\ isa.extra_rc <= RC_MAX
  BY <1>h, RCFacts DEF TypeOK, IsaWord, InlineCounts, Entry
<1> USE <1>h
<1> USE DEF BorrowStore, StoreBorrowed
<1>1. lock = t /\ lock' = t BY DEF LockOK, HasLock, LockedPCs
<1>2. isa.nonpointer /\ isa.extra_rc = 0 BY DEF BorrowOf
<1>3. isa'.nonpointer /\ isa'.extra_rc = RC_HALF - 1 BY <1>2 DEF SetCount
<1>4. refcnts' = refcnts /\ freed' = freed BY DEF Side, Fate
<1>5. pc'[t] = "stored" BY DEF Goto, TypeOK
<1>6. InFlight(t) = RC_HALF /\ InFlight(t)' = 0 BY <1>5 DEF InFlight
<1>7. SideCount = refcnts.rc + RC_HALF /\ SideCount' = refcnts.rc BY <1>1,
    <1>4, <1>6, <1>p, ConstantsAssumption DEF SideCount
<1>8. RetainCount' = RetainCount - 1 BY <1>2, <1>3, <1>7, <1>p,
    RCFacts DEF RetainCount
<1>9. ref[t] \in Refs /\ owner[ref[t]] = t BY DEF TokensOK, TypeOK
<1>10. owner' = [owner EXCEPT ![ref[t]] = NoThread] BY <1>9,
     ConstantsAssumption DEF Drop, SetOwner
<1> QED BY <1>2, <1>3, <1>4, <1>8, <1>9, <1>10 DEF Removes, Counting, Pinned

\* Erasing an entry that has no counts.
LEMMA BorrowStoredCounts ==
    ASSUME IInv, TypeOK', NEW t \in Threads, lock \in {t, NoThread},
    BorrowStored(t)
    PROVE  freed' \/ Pinned' \/ (Counting /\ Keeps)
<1>h. /\ TypeOK /\ FramesOK /\ LockOK /\ TokensOK /\ SideOK
      /\ BorrowOf(t) /\ OldIsaOf(t)
  BY DEF IInv, BorrowOK, OldIsaOK
<1>p. isa.extra_rc \in Nat /\ refcnts.rc \in Int /\ isa.extra_rc <= RC_MAX
  BY <1>h, RCFacts DEF TypeOK, IsaWord, InlineCounts, Entry
<1> USE <1>h
<1> USE DEF BorrowStored
<1>1. pc[t] = "stored" /\ isa.nonpointer BY DEF BorrowOf
<1>2. isa' = isa /\ owner' = owner /\ freed' = freed OBVIOUS
<1>3. pc'[t] = "idle" BY <1>1 DEF Return, Goto, TypeOK
<1>4. refcnts'.rc = refcnts.rc BY DEF emptySideTable, NoEntry
<1>5. InFlight(t) = 0 /\ InFlight(t)' = 0 BY <1>1, <1>3 DEF InFlight
<1>6. lock = t /\ lock' = NoThread BY <1>1 DEF LockOK, HasLock, LockedPCs,
    Unlock
<1>7. SideCount' = SideCount BY <1>4, <1>5, <1>6, <1>p,
    ConstantsAssumption DEF SideCount
<1>8. RetainCount' = RetainCount BY <1>1, <1>2, <1>7 DEF RetainCount
<1> QED BY <1>1, <1>2, <1>8 DEF Keeps, Counting, Pinned

\* Making the isa a raw one: all its counts are on their way.
LEMMA ChangeStoreCounts ==
    ASSUME IInv, TypeOK', NEW t \in Threads, lock \in {t, NoThread},
    ChangeStore(t)
    PROVE  freed' \/ Pinned' \/ (Counting /\ Keeps)
<1>h. /\ TypeOK /\ FramesOK /\ LockOK /\ TokensOK /\ SideOK
      /\ BorrowOf(t) /\ OldIsaOf(t)
  BY DEF IInv, BorrowOK, OldIsaOK
<1>p. isa.extra_rc \in Nat /\ refcnts.rc \in Int /\ isa.extra_rc <= RC_MAX
  BY <1>h, RCFacts DEF TypeOK, IsaWord, InlineCounts, Entry
<1> USE <1>h
<1> USE DEF ChangeStore, Changing, ToRaw
<1>1. owner' = owner /\ freed' = freed /\ refcnts' = refcnts BY DEF Side, Fate
<1>2. CASE pc[t] = "changeRaw" /\ oldisa[t].nonpointer
  <2>1. isa.nonpointer /\ isa' = RawIsa /\ isa = oldisa[t]
    BY <1>2 DEF ChangedIsa, OldIsaOf
  <2>2. lock = t /\ lock' = lock /\ pc'[t] = "move" /\ oldisa' = oldisa
    BY <1>2 DEF LockOK, HasLock, Goto, TypeOK, locals
  <2>3. InFlight(t) = 0 /\ InFlight(t)' = isa.extra_rc BY <1>2, <2>1,
      <2>2 DEF InFlight
  <2>4. SideCount = refcnts.rc /\ SideCount' = refcnts.rc + isa.extra_rc
    BY <1>1, <2>2, <2>3, <1>p, ConstantsAssumption DEF SideCount
  <2>5. RetainCount = isa.extra_rc + refcnts.rc BY <2>1, <2>4 DEF RetainCount
  <2>6. Moving' BY <2>2, ConstantsAssumption DEF Moving
  <2>7. RetainCount' = RetainCount BY <2>1, <2>4, <2>5, <2>6,
      <1>p DEF RetainCount, RawIsa
  <2> QED BY <1>1, <2>1, <2>7 DEF Keeps, Counting, Pinned
<1>3. CASE ~(pc[t] = "changeRaw" /\ oldisa[t].nonpointer)
  <2>1. isa' = isa BY <1>3 DEF ChangedIsa, OldIsaOf, SideOK, SplitOK
  <2>2. ~locked[t] \/ lock = t BY DEF LockOK, HasLock
  <2>3. lock' \in {t, NoThread} BY <1>3 DEF UnlockIf, Unlock
  <2>4. pc'[t] = "idle" BY <1>3 DEF Return, Goto, TypeOK
  <2>5. InFlight(t) = 0 /\ InFlight(t)' = 0 BY <2>4 DEF InFlight
  <2>6. SideCount' = SideCount BY <1>1, <2>3, <2>5, <1>p,
      ConstantsAssumption DEF SideCount
  <2>7. ~Moving /\ ~Moving' BY <2>3, <2>4, ConstantsAssumption DEF Moving
  <2>8. RetainCount' = RetainCount BY <1>1, <2>1, <2>6, <2>7 DEF RetainCount
  <2> QED BY <1>1, <2>1, <2>8 DEF Keeps, Counting, Pinned
<1> QED BY <1>2, <1>3

\* A step without the lock, while another thread has it.
LEMMA CountOther ==
    ASSUME IInv, OneSetter, TypeOK', NEW t \in Threads, Step(t),
    lock \in Threads, lock # t
    PROVE  CountsOn(t)
<1>h. /\ TypeOK /\ FramesOK /\ LockOK /\ TokensOK /\ SideOK
      /\ BorrowOf(t) /\ OldIsaOf(t)
  BY DEF IInv, BorrowOK, OldIsaOK
<1>c. /\ RetainCount \in Int
      /\ isa.nonpointer /\ refcnts.present /\ refcnts.rc # 0 => refcnts.rc >= RC_HALF
      /\ Counting /\ ref[t] # NoRef /\ pc[t] \in {"retain", "release"} /\ ~tryRetain[t]
            => RetainCount > 0
      /\ Dying(t) /\ isa.nonpointer => IsDeallocating(isa)
      /\ Dying(t) /\ ~isa.nonpointer => refcnts.deallocating
  BY CountFacts
<1>o. /\ lock' = lock /\ refcnts' = refcnts
      /\ isa'.nonpointer = isa.nonpointer
      /\ isa'.has_sidetable_rc = isa.has_sidetable_rc
  BY HolderSees
<1>s. SideCount' = SideCount /\ (Moving' <=> Moving) BY SideOther
<1>i. SideCount \in Int
  <2>1. refcnts.rc \in Int /\ InFlight(lock) \in Nat
    BY <1>h, InFlightNat DEF TypeOK, Entry
  <2> QED BY <2>1 DEF SideCount
<1> DEFINE G(k) == freed' \/ Pinned' \/ (Counting /\ k)
<1> USE <1>h, <1>c, <1>o, <1>s, <1>i, ConstantsAssumption, RCFacts DEF TypeOK,
    IsaWord, InlineCounts, Entry, FramesOK, Fate, LockOK, HasLock, LockedPCs,
    SideOK, SplitOK, OldIsaOf, Fresh, LoopPCs, Dying, Side, BorrowOf, PCs,
    Goto, Load,
    Begin, End, Return, RRReturn, Reload, Lock, Unlock, UnlockIf, locals,
    Counting, Pinned, SetCount, Find, NewEntry, NoEntry, sidetable_retain,
    sidetable_tryRetain, sidetable_release, LastRelease,
    sidetable_addExtraRC_nolock, sidetable_subExtraRC_nolock, CanBorrow,
    sidetable_moveExtraRC_nolock, RetainCount, IsDeallocating
<1>1. ASSUME Retain(t) PROVE G(Keeps)
  BY <1>1 DEF Retain, Keeps
<1>2. ASSUME LoadWeak(t) PROVE G(Keeps)
  BY <1>2 DEF LoadWeak, Keeps
<1>3. ASSUME TryRetainRaw(t) PROVE G((Adds(t) \/ Keeps))
  BY <1>3 DEF TryRetainRaw, Adds, Keeps, Gain, SetOwner, TokensOK
<1>4. ASSUME RetainRaw(t) PROVE G((Adds(t) \/ Keeps))
  BY <1>4 DEF RetainRaw, Adds, Keeps, Gain, SetOwner, TokensOK
<1>5. ASSUME RetainSeesDeallocating(t) PROVE G(Keeps)
  BY <1>5 DEF RetainSeesDeallocating, Keeps
<1>6. ASSUME RetainInline(t) PROVE G(Adds(t))
  BY <1>6 DEF RetainInline, RetainLoop, Adds, Keeps, Gain, SetOwner, TokensOK
<1>7. ASSUME RetainOverflow(t) PROVE G(Keeps)
  BY <1>7 DEF RetainOverflow, RetainLoop, Keeps
<1>8. ASSUME RetainLock(t) PROVE G(Keeps)
  BY <1>8 DEF RetainLock, RetainLoop, Keeps
<1>9. ASSUME RetainSplit(t) PROVE G(Adds(t))
  BY <1>9 DEF RetainSplit, RetainLoop, Adds, Keeps, Gain, SetOwner, TokensOK
<1>10. ASSUME RetainTranscribe(t) PROVE G(Keeps)
  BY <1>10 DEF RetainTranscribe, Keeps
<1>11. ASSUME RetainRetry(t) PROVE G(Keeps)
  BY <1>11 DEF RetainRetry, RetainLoop, Keeps
<1>12. ASSUME WeakLoaded(t) PROVE G(Keeps)
  BY <1>12 DEF WeakLoaded, Keeps
<1>13. ASSUME Release(t) PROVE G(Keeps)
  BY <1>13 DEF Release, Keeps
<1>14. ASSUME ReleaseRaw(t) PROVE G((Removes(t) \/ Keeps))
  BY <1>14, SMTT(40) DEF ReleaseRaw, SendDealloc, Removes, Keeps, Drop,
      SetOwner, TokensOK
<1>15. ASSUME ReleaseSeesDeallocating(t) PROVE G(Keeps)
  BY <1>15 DEF ReleaseSeesDeallocating, Keeps
<1>16. ASSUME ReleaseInline(t) PROVE G(Removes(t))
  BY <1>16 DEF ReleaseInline, ReleaseLoop, Removes, Keeps, Drop, SetOwner,
      TokensOK
<1>17. ASSUME ReleaseUnderflow(t) PROVE G(Keeps)
  BY <1>17 DEF ReleaseUnderflow, ReleaseLoop, Keeps
<1>18. ASSUME ReleaseLock(t) PROVE G(Keeps)
  BY <1>18 DEF ReleaseLock, ReleaseLoop, Keeps
<1>19. ASSUME ReleaseBorrow(t) PROVE G(Keeps)
  BY <1>19 DEF ReleaseBorrow, ReleaseLoop, Removes, Keeps, Drop, SetOwner,
      TokensOK
<1>20. ASSUME BorrowStore(t) PROVE G(Removes(t))
  BY <1>20 DEF BorrowStore, StoreBorrowed, Removes, Keeps, Drop, SetOwner,
      TokensOK
<1>21. ASSUME BorrowFailed(t) PROVE G(Keeps)
  BY <1>21 DEF BorrowFailed, Keeps
<1>22. ASSUME BorrowStoreAgain(t) PROVE G(Removes(t))
  BY <1>22 DEF BorrowStoreAgain, StoreBorrowed, Removes, Keeps, Drop,
      SetOwner, TokensOK
<1>23. ASSUME BorrowFailedAgain(t) PROVE G(Keeps)
  BY <1>23 DEF BorrowFailedAgain, Keeps
<1>24. ASSUME BorrowPutBack(t) PROVE G(Keeps)
  BY <1>24 DEF BorrowPutBack, Keeps
<1>25. ASSUME BorrowStored(t) PROVE G(Keeps)
  BY <1>25, SMTT(40) DEF BorrowStored, SendDealloc, Keeps
<1>26. ASSUME ReleaseRetry(t) PROVE G(Keeps)
  BY <1>26 DEF ReleaseRetry, ReleaseLoop, Keeps
<1>27. ASSUME ReleaseDeallocate(t) PROVE G(Keeps)
  BY <1>27 DEF ReleaseDeallocate, SendDealloc, Keeps
<1>28. ASSUME FastFree(t) PROVE G(Keeps)
  BY <1>28 DEF FastFree, Keeps
<1>29. ASSUME Destruct(t) PROVE G(Keeps)
  BY <1>29 DEF Destruct, Keeps
<1>30. ASSUME ClearRaw(t) PROVE G(Keeps)
  BY <1>30 DEF ClearRaw, Keeps
<1>31. ASSUME ClearNonpointer(t) PROVE G(Keeps)
  BY <1>31 DEF ClearNonpointer, Keeps
<1>32. ASSUME StoreWeak(t) PROVE G(Keeps)
  BY <1>32 DEF StoreWeak, Keeps
<1>33. ASSUME setWeaklyReferenced_nolock(t) PROVE G(Keeps)
  BY <1>33 DEF setWeaklyReferenced_nolock, Keeps
<1>34. ASSUME StoreWeakRetry(t) PROVE G(Keeps)
  BY <1>34 DEF StoreWeakRetry, Keeps
<1>35. ASSUME DestroyWeak(t) PROVE G(Keeps)
  BY <1>35 DEF DestroyWeak, Keeps
<1>36. ASSUME SetAssociation(t) PROVE G(Keeps)
  BY <1>36 DEF SetAssociation, Keeps
<1>37. ASSUME ClearAssociation(t) PROVE G(Keeps)
  BY <1>37 DEF ClearAssociation, Keeps
<1>38. ASSUME setHasAssociatedObjects(t) PROVE G(Keeps)
  BY <1>38 DEF setHasAssociatedObjects, Keeps
<1>39. ASSUME SetAssociationRetry(t) PROVE G(Keeps)
  BY <1>39 DEF SetAssociationRetry, Keeps
<1>40. ASSUME NEW l \in {"change", "changeRaw"}, SetClass(t, l) PROVE G(Keeps)
  BY <1>40 DEF SetClass, Keeps
<1>41. ASSUME ChangeLock(t) PROVE G(Keeps)
  BY <1>41 DEF ChangeLock, Changing, ToRaw, Keeps
<1>42. ASSUME ChangeStore(t) PROVE G(Keeps)
  BY <1>42 DEF ChangeStore, Changing, ToRaw, ChangedIsa, Keeps
<1>43. ASSUME ChangeRetry(t) PROVE G(Keeps)
  BY <1>43 DEF ChangeRetry, Changing, ToRaw, ChangedIsa, Keeps
<1>44. ASSUME ChangeMove(t) PROVE G(Keeps)
  BY <1>44 DEF ChangeMove, Keeps
<1> QED
  BY <1>1, <1>2, <1>3, <1>4, <1>5, <1>6, <1>7, <1>8, <1>9, <1>10, <1>11,
      <1>12, <1>13, <1>14, <1>15, <1>16, <1>17, <1>18, <1>19, <1>20, <1>21,
      <1>22, <1>23, <1>24, <1>25, <1>26, <1>27, <1>28, <1>29, <1>30, <1>31,
      <1>32, <1>33, <1>34, <1>35, <1>36, <1>37, <1>38, <1>39, <1>40, <1>41,
      <1>42, <1>43, <1>44
  DEF CountsOn, Step, RetainStep, ReleaseStep, DeallocStep, FlagStep,
      ChangeStep

\* A step of the thread that has the lock, or while nobody has it.
LEMMA CountSelf ==
    ASSUME IInv, TypeOK', NEW t \in Threads, Step(t), lock \in {t, NoThread}
    PROVE  CountsOn(t)
<1>h. /\ TypeOK /\ FramesOK /\ LockOK /\ TokensOK /\ SideOK
      /\ BorrowOf(t) /\ OldIsaOf(t)
  BY DEF IInv, BorrowOK, OldIsaOK
<1>c. /\ RetainCount \in Int
      /\ isa.nonpointer /\ refcnts.present /\ refcnts.rc # 0 => refcnts.rc >= RC_HALF
      /\ Counting /\ ref[t] # NoRef /\ pc[t] \in {"retain", "release"} /\ ~tryRetain[t]
            => RetainCount > 0
      /\ Dying(t) /\ isa.nonpointer => IsDeallocating(isa)
      /\ Dying(t) /\ ~isa.nonpointer => refcnts.deallocating
  BY CountFacts
<1> DEFINE G(k) == freed' \/ Pinned' \/ (Counting /\ k)
<1> USE <1>h, <1>c, ConstantsAssumption, RCFacts DEF TypeOK, IsaWord,
    InlineCounts, Entry, FramesOK, Fate, LockOK, HasLock, LockedPCs, SideOK,
    SplitOK,
    OldIsaOf, Fresh, LoopPCs, Dying, Side, BorrowOf, PCs, Goto, Load, Begin,
    End, Return, RRReturn, Reload, Lock, Unlock, UnlockIf, locals, Counting,
    Pinned, SetCount, Find, NewEntry, NoEntry, sidetable_retain,
    sidetable_tryRetain, sidetable_release, LastRelease,
    sidetable_addExtraRC_nolock, sidetable_subExtraRC_nolock, CanBorrow,
    sidetable_moveExtraRC_nolock, RetainCount, IsDeallocating, SideCount,
    InFlight, Moving
<1>1. ASSUME Retain(t) PROVE G(Keeps)
  BY <1>1 DEF Retain, Keeps
<1>2. ASSUME LoadWeak(t) PROVE G(Keeps)
  BY <1>2 DEF LoadWeak, Keeps
<1>3. ASSUME TryRetainRaw(t) PROVE G((Adds(t) \/ Keeps))
  BY <1>3 DEF TryRetainRaw, Adds, Keeps, Gain, SetOwner, TokensOK
<1>4. ASSUME RetainRaw(t) PROVE G((Adds(t) \/ Keeps))
  BY <1>4, SMTT(40) DEF RetainRaw, Adds, Keeps, Gain, SetOwner, TokensOK
<1>5. ASSUME RetainSeesDeallocating(t) PROVE G(Keeps)
  BY <1>5 DEF RetainSeesDeallocating, Keeps
<1>6. ASSUME RetainInline(t) PROVE G(Adds(t))
  BY <1>6, RetainInlineCounts
<1>7. ASSUME RetainOverflow(t) PROVE G(Keeps)
  BY <1>7 DEF RetainOverflow, RetainLoop, Keeps
<1>8. ASSUME RetainLock(t) PROVE G(Keeps)
  BY <1>8 DEF RetainLock, RetainLoop, Keeps
<1>9. ASSUME RetainSplit(t) PROVE G(Adds(t))
  BY <1>9 DEF RetainSplit, RetainLoop, Adds, Keeps, Gain, SetOwner, TokensOK
<1>10. ASSUME RetainTranscribe(t) PROVE G(Keeps)
  BY <1>10 DEF RetainTranscribe, Keeps
<1>11. ASSUME RetainRetry(t) PROVE G(Keeps)
  BY <1>11 DEF RetainRetry, RetainLoop, Keeps
<1>12. ASSUME WeakLoaded(t) PROVE G(Keeps)
  BY <1>12 DEF WeakLoaded, Keeps
<1>13. ASSUME Release(t) PROVE G(Keeps)
  BY <1>13 DEF Release, Keeps
<1>14. ASSUME ReleaseRaw(t) PROVE G((Removes(t) \/ Keeps))
  BY <1>14, SMTT(40) DEF ReleaseRaw, SendDealloc, Removes, Keeps, Drop,
      SetOwner, TokensOK
<1>15. ASSUME ReleaseSeesDeallocating(t) PROVE G(Keeps)
  BY <1>15 DEF ReleaseSeesDeallocating, Keeps
<1>16. ASSUME ReleaseInline(t) PROVE G(Removes(t))
  BY <1>16, SMTT(40) DEF ReleaseInline, ReleaseLoop, Removes, Keeps, Drop,
      SetOwner, TokensOK
<1>17. ASSUME ReleaseUnderflow(t) PROVE G(Keeps)
  BY <1>17 DEF ReleaseUnderflow, ReleaseLoop, Keeps
<1>18. ASSUME ReleaseLock(t) PROVE G(Keeps)
  BY <1>18 DEF ReleaseLock, ReleaseLoop, Keeps
<1>19. ASSUME ReleaseBorrow(t) PROVE G(Keeps)
  BY <1>19, ReleaseBorrowCounts
<1>20. ASSUME BorrowStore(t) PROVE G(Removes(t))
  BY <1>20, BorrowStoreCounts
<1>21. ASSUME BorrowFailed(t) PROVE G(Keeps)
  BY <1>21 DEF BorrowFailed, Keeps
<1>22. ASSUME BorrowStoreAgain(t) PROVE G(Removes(t))
  BY <1>22 DEF BorrowStoreAgain, StoreBorrowed, Removes, Keeps, Drop,
      SetOwner, TokensOK
<1>23. ASSUME BorrowFailedAgain(t) PROVE G(Keeps)
  BY <1>23 DEF BorrowFailedAgain, Keeps
<1>24. ASSUME BorrowPutBack(t) PROVE G(Keeps)
  BY <1>24 DEF BorrowPutBack, Keeps
<1>25. ASSUME BorrowStored(t) PROVE G(Keeps)
  BY <1>25, BorrowStoredCounts
<1>26. ASSUME ReleaseRetry(t) PROVE G(Keeps)
  BY <1>26 DEF ReleaseRetry, ReleaseLoop, Keeps
<1>27. ASSUME ReleaseDeallocate(t) PROVE G(Keeps)
  BY <1>27 DEF ReleaseDeallocate, SendDealloc, Keeps
<1>28. ASSUME FastFree(t) PROVE G(Keeps)
  BY <1>28 DEF FastFree, Keeps
<1>29. ASSUME Destruct(t) PROVE G(Keeps)
  BY <1>29 DEF Destruct, Keeps
<1>30. ASSUME ClearRaw(t) PROVE G(Keeps)
  BY <1>30 DEF ClearRaw, Keeps
<1>31. ASSUME ClearNonpointer(t) PROVE G(Keeps)
  BY <1>31 DEF ClearNonpointer, Keeps
<1>32. ASSUME StoreWeak(t) PROVE G(Keeps)
  BY <1>32 DEF StoreWeak, Keeps
<1>33. ASSUME setWeaklyReferenced_nolock(t) PROVE G(Keeps)
  BY <1>33, SMTT(40) DEF setWeaklyReferenced_nolock, Keeps
<1>34. ASSUME StoreWeakRetry(t) PROVE G(Keeps)
  BY <1>34 DEF StoreWeakRetry, Keeps
<1>35. ASSUME DestroyWeak(t) PROVE G(Keeps)
  BY <1>35 DEF DestroyWeak, Keeps
<1>36. ASSUME SetAssociation(t) PROVE G(Keeps)
  BY <1>36 DEF SetAssociation, Keeps
<1>37. ASSUME ClearAssociation(t) PROVE G(Keeps)
  BY <1>37 DEF ClearAssociation, Keeps
<1>38. ASSUME setHasAssociatedObjects(t) PROVE G(Keeps)
  BY <1>38 DEF setHasAssociatedObjects, Keeps
<1>39. ASSUME SetAssociationRetry(t) PROVE G(Keeps)
  BY <1>39 DEF SetAssociationRetry, Keeps
<1>40. ASSUME NEW l \in {"change", "changeRaw"}, SetClass(t, l) PROVE G(Keeps)
  BY <1>40 DEF SetClass, Keeps
<1>41. ASSUME ChangeLock(t) PROVE G(Keeps)
  BY <1>41 DEF ChangeLock, Changing, ToRaw, Keeps
<1>42. ASSUME ChangeStore(t) PROVE G(Keeps)
  BY <1>42, ChangeStoreCounts
<1>43. ASSUME ChangeRetry(t) PROVE G(Keeps)
  BY <1>43 DEF ChangeRetry, Changing, ToRaw, ChangedIsa, Keeps
<1>44. ASSUME ChangeMove(t) PROVE G(Keeps)
  BY <1>44 DEF ChangeMove, Keeps
<1> QED
  BY <1>1, <1>2, <1>3, <1>4, <1>5, <1>6, <1>7, <1>8, <1>9, <1>10, <1>11,
      <1>12, <1>13, <1>14, <1>15, <1>16, <1>17, <1>18, <1>19, <1>20, <1>21,
      <1>22, <1>23, <1>24, <1>25, <1>26, <1>27, <1>28, <1>29, <1>30, <1>31,
      <1>32, <1>33, <1>34, <1>35, <1>36, <1>37, <1>38, <1>39, <1>40, <1>41,
      <1>42, <1>43, <1>44
  DEF CountsOn, Step, RetainStep, ReleaseStep, DeallocStep, FlagStep,
      ChangeStep

\* The count follows the references one by one.
LEMMA CountStep ==
    ASSUME IInv, OneSetter, TypeOK', NEW t \in Threads, Step(t)
    PROVE  CountMatchesReferences'
<1>1. CountsOn(t)
  <2>1. CASE lock \in {t, NoThread} BY <2>1, CountSelf
  <2>2. CASE lock \notin {t, NoThread} BY <2>2, CountOther DEF IInv, TypeOK
  <2> QED BY <2>1, <2>2
<1>2. ASSUME Counting, owner' = owner, RetainCount' = RetainCount
      PROVE  RetainCount' = Cardinality(Live')
  <2>1. Live' = Live BY <1>2 DEF Live
  <2> QED BY <1>2, <2>1 DEF IInv, CountMatchesReferences, Counting
<1>3. ASSUME Counting, Adds(t) PROVE RetainCount' = Cardinality(Live')
  <2>1. ref[t] \notin Live BY <1>3 DEF Adds, Live
  <2>2. Live' = Live \cup {ref[t]}
    BY <1>3, ConstantsAssumption DEF Adds, Live, IInv, TypeOK
  <2>3. Cardinality(Live') = Cardinality(Live) + 1
    BY <2>1, <2>2, LiveFacts, FS_AddElement DEF IInv
  <2> QED BY <1>3, <2>3 DEF IInv, CountMatchesReferences, Counting, Adds
<1>4. ASSUME Counting, Removes(t) PROVE RetainCount' = Cardinality(Live')
  <2>1. ref[t] \in Live BY <1>4, ConstantsAssumption DEF Removes, Live
  <2>2. Live' = Live \ {ref[t]}
    BY <1>4, ConstantsAssumption DEF Removes, Live, IInv, TypeOK
  <2>3. Cardinality(Live') = Cardinality(Live) - 1
    BY <2>1, <2>2, LiveFacts, FS_RemoveElement DEF IInv
  <2> QED BY <1>4, <2>3 DEF IInv, CountMatchesReferences, Counting, Removes
<1> QED BY <1>1, <1>2, <1>3, <1>4 DEF CountsOn, Keeps, CountMatchesReferences

-----------------------------------------------------------------------------
(* Deallocation.                                                           *)

\* References come from retain only.
LEMMA OnlyRetainsGain ==
    ASSUME TypeOK, NEW t \in Threads, Step(t),
           ~TryRetainRaw(t), ~RetainRaw(t), ~RetainInline(t), ~RetainSplit(t)
    PROVE  Live' \subseteq Live
<1> USE DEF Live, Drop, SetOwner, TypeOK, Reload
<1>1. ASSUME Retain(t) PROVE Live' \subseteq Live
  BY <1>1 DEF Retain
<1>2. ASSUME LoadWeak(t) PROVE Live' \subseteq Live
  BY <1>2 DEF LoadWeak
<1>3. ASSUME RetainSeesDeallocating(t) PROVE Live' \subseteq Live
  BY <1>3 DEF RetainSeesDeallocating
<1>4. ASSUME RetainOverflow(t) PROVE Live' \subseteq Live
  BY <1>4 DEF RetainOverflow, RetainLoop
<1>5. ASSUME RetainLock(t) PROVE Live' \subseteq Live
  BY <1>5 DEF RetainLock, RetainLoop
<1>6. ASSUME RetainTranscribe(t) PROVE Live' \subseteq Live
  BY <1>6 DEF RetainTranscribe
<1>7. ASSUME RetainRetry(t) PROVE Live' \subseteq Live
  BY <1>7 DEF RetainRetry, RetainLoop
<1>8. ASSUME WeakLoaded(t) PROVE Live' \subseteq Live
  BY <1>8 DEF WeakLoaded
<1>9. ASSUME Release(t) PROVE Live' \subseteq Live
  BY <1>9 DEF Release
<1>10. ASSUME ReleaseRaw(t) PROVE Live' \subseteq Live
  BY <1>10 DEF ReleaseRaw, SendDealloc
<1>11. ASSUME ReleaseSeesDeallocating(t) PROVE Live' \subseteq Live
  BY <1>11 DEF ReleaseSeesDeallocating
<1>12. ASSUME ReleaseInline(t) PROVE Live' \subseteq Live
  BY <1>12 DEF ReleaseInline, ReleaseLoop
<1>13. ASSUME ReleaseUnderflow(t) PROVE Live' \subseteq Live
  BY <1>13 DEF ReleaseUnderflow, ReleaseLoop
<1>14. ASSUME ReleaseLock(t) PROVE Live' \subseteq Live
  BY <1>14 DEF ReleaseLock, ReleaseLoop
<1>15. ASSUME ReleaseBorrow(t) PROVE Live' \subseteq Live
  BY <1>15 DEF ReleaseBorrow, ReleaseLoop
<1>16. ASSUME BorrowStore(t) PROVE Live' \subseteq Live
  BY <1>16 DEF BorrowStore, StoreBorrowed
<1>17. ASSUME BorrowFailed(t) PROVE Live' \subseteq Live
  BY <1>17 DEF BorrowFailed
<1>18. ASSUME BorrowStoreAgain(t) PROVE Live' \subseteq Live
  BY <1>18 DEF BorrowStoreAgain, StoreBorrowed
<1>19. ASSUME BorrowFailedAgain(t) PROVE Live' \subseteq Live
  BY <1>19 DEF BorrowFailedAgain
<1>20. ASSUME BorrowPutBack(t) PROVE Live' \subseteq Live
  BY <1>20 DEF BorrowPutBack
<1>21. ASSUME BorrowStored(t) PROVE Live' \subseteq Live
  BY <1>21 DEF BorrowStored, SendDealloc
<1>22. ASSUME ReleaseRetry(t) PROVE Live' \subseteq Live
  BY <1>22 DEF ReleaseRetry, ReleaseLoop
<1>23. ASSUME ReleaseDeallocate(t) PROVE Live' \subseteq Live
  BY <1>23 DEF ReleaseDeallocate, SendDealloc
<1>24. ASSUME FastFree(t) PROVE Live' \subseteq Live
  BY <1>24 DEF FastFree
<1>25. ASSUME Destruct(t) PROVE Live' \subseteq Live
  BY <1>25 DEF Destruct
<1>26. ASSUME ClearRaw(t) PROVE Live' \subseteq Live
  BY <1>26 DEF ClearRaw
<1>27. ASSUME ClearNonpointer(t) PROVE Live' \subseteq Live
  BY <1>27 DEF ClearNonpointer
<1>28. ASSUME StoreWeak(t) PROVE Live' \subseteq Live
  BY <1>28 DEF StoreWeak
<1>29. ASSUME setWeaklyReferenced_nolock(t) PROVE Live' \subseteq Live
  BY <1>29 DEF setWeaklyReferenced_nolock
<1>30. ASSUME StoreWeakRetry(t) PROVE Live' \subseteq Live
  BY <1>30 DEF StoreWeakRetry
<1>31. ASSUME DestroyWeak(t) PROVE Live' \subseteq Live
  BY <1>31 DEF DestroyWeak
<1>32. ASSUME SetAssociation(t) PROVE Live' \subseteq Live
  BY <1>32 DEF SetAssociation
<1>33. ASSUME ClearAssociation(t) PROVE Live' \subseteq Live
  BY <1>33 DEF ClearAssociation
<1>34. ASSUME setHasAssociatedObjects(t) PROVE Live' \subseteq Live
  BY <1>34 DEF setHasAssociatedObjects
<1>35. ASSUME SetAssociationRetry(t) PROVE Live' \subseteq Live
  BY <1>35 DEF SetAssociationRetry
<1>36. ASSUME NEW l \in {"change", "changeRaw"},
    SetClass(t, l) PROVE Live' \subseteq Live
  BY <1>36 DEF SetClass
<1>37. ASSUME ChangeLock(t) PROVE Live' \subseteq Live
  BY <1>37 DEF ChangeLock, Changing, ToRaw
<1>38. ASSUME ChangeStore(t) PROVE Live' \subseteq Live
  BY <1>38 DEF ChangeStore, Changing, ToRaw, ChangedIsa
<1>39. ASSUME ChangeRetry(t) PROVE Live' \subseteq Live
  BY <1>39 DEF ChangeRetry, Changing, ToRaw, ChangedIsa
<1>40. ASSUME ChangeMove(t) PROVE Live' \subseteq Live
  BY <1>40 DEF ChangeMove
<1> QED
  BY <1>1, <1>2, <1>3, <1>4, <1>5, <1>6, <1>7, <1>8, <1>9, <1>10, <1>11,
      <1>12, <1>13, <1>14, <1>15, <1>16, <1>17, <1>18, <1>19, <1>20, <1>21,
      <1>22, <1>23, <1>24, <1>25, <1>26, <1>27, <1>28, <1>29, <1>30, <1>31,
      <1>32, <1>33, <1>34, <1>35, <1>36, <1>37, <1>38, <1>39, <1>40
  DEF Step, RetainStep, ReleaseStep, DeallocStep, FlagStep, ChangeStep

\* References go with release only.
LEMMA OnlyReleasesDrop ==
    ASSUME TypeOK, NEW t \in Threads, Step(t),
           ~ReleaseRaw(t), ~ReleaseInline(t), ~ReleaseBorrow(t),
           ~BorrowStore(t), ~BorrowStoreAgain(t)
    PROVE  Live \subseteq Live' 
<1> USE ConstantsAssumption DEF Live, Gain, SetOwner, TypeOK, Reload
<1>1. ASSUME Retain(t) PROVE Live \subseteq Live'
  BY <1>1 DEF Retain
<1>2. ASSUME LoadWeak(t) PROVE Live \subseteq Live'
  BY <1>2 DEF LoadWeak
<1>3. ASSUME TryRetainRaw(t) PROVE Live \subseteq Live'
  BY <1>3 DEF TryRetainRaw
<1>4. ASSUME RetainRaw(t) PROVE Live \subseteq Live'
  BY <1>4 DEF RetainRaw
<1>5. ASSUME RetainSeesDeallocating(t) PROVE Live \subseteq Live'
  BY <1>5 DEF RetainSeesDeallocating
<1>6. ASSUME RetainInline(t) PROVE Live \subseteq Live'
  BY <1>6 DEF RetainInline, RetainLoop
<1>7. ASSUME RetainOverflow(t) PROVE Live \subseteq Live'
  BY <1>7 DEF RetainOverflow, RetainLoop
<1>8. ASSUME RetainLock(t) PROVE Live \subseteq Live'
  BY <1>8 DEF RetainLock, RetainLoop
<1>9. ASSUME RetainSplit(t) PROVE Live \subseteq Live'
  BY <1>9 DEF RetainSplit, RetainLoop
<1>10. ASSUME RetainTranscribe(t) PROVE Live \subseteq Live'
  BY <1>10 DEF RetainTranscribe
<1>11. ASSUME RetainRetry(t) PROVE Live \subseteq Live'
  BY <1>11 DEF RetainRetry, RetainLoop
<1>12. ASSUME WeakLoaded(t) PROVE Live \subseteq Live'
  BY <1>12 DEF WeakLoaded
<1>13. ASSUME Release(t) PROVE Live \subseteq Live'
  BY <1>13 DEF Release
<1>14. ASSUME ReleaseSeesDeallocating(t) PROVE Live \subseteq Live'
  BY <1>14 DEF ReleaseSeesDeallocating
<1>15. ASSUME ReleaseUnderflow(t) PROVE Live \subseteq Live'
  BY <1>15 DEF ReleaseUnderflow, ReleaseLoop
<1>16. ASSUME ReleaseLock(t) PROVE Live \subseteq Live'
  BY <1>16 DEF ReleaseLock, ReleaseLoop
<1>17. ASSUME BorrowFailed(t) PROVE Live \subseteq Live'
  BY <1>17 DEF BorrowFailed
<1>18. ASSUME BorrowFailedAgain(t) PROVE Live \subseteq Live'
  BY <1>18 DEF BorrowFailedAgain
<1>19. ASSUME BorrowPutBack(t) PROVE Live \subseteq Live'
  BY <1>19 DEF BorrowPutBack
<1>20. ASSUME BorrowStored(t) PROVE Live \subseteq Live'
  BY <1>20 DEF BorrowStored, SendDealloc
<1>21. ASSUME ReleaseRetry(t) PROVE Live \subseteq Live'
  BY <1>21 DEF ReleaseRetry, ReleaseLoop
<1>22. ASSUME ReleaseDeallocate(t) PROVE Live \subseteq Live'
  BY <1>22 DEF ReleaseDeallocate, SendDealloc
<1>23. ASSUME FastFree(t) PROVE Live \subseteq Live'
  BY <1>23 DEF FastFree
<1>24. ASSUME Destruct(t) PROVE Live \subseteq Live'
  BY <1>24 DEF Destruct
<1>25. ASSUME ClearRaw(t) PROVE Live \subseteq Live'
  BY <1>25 DEF ClearRaw
<1>26. ASSUME ClearNonpointer(t) PROVE Live \subseteq Live'
  BY <1>26 DEF ClearNonpointer
<1>27. ASSUME StoreWeak(t) PROVE Live \subseteq Live'
  BY <1>27 DEF StoreWeak
<1>28. ASSUME setWeaklyReferenced_nolock(t) PROVE Live \subseteq Live'
  BY <1>28 DEF setWeaklyReferenced_nolock
<1>29. ASSUME StoreWeakRetry(t) PROVE Live \subseteq Live'
  BY <1>29 DEF StoreWeakRetry
<1>30. ASSUME DestroyWeak(t) PROVE Live \subseteq Live'
  BY <1>30 DEF DestroyWeak
<1>31. ASSUME SetAssociation(t) PROVE Live \subseteq Live'
  BY <1>31 DEF SetAssociation
<1>32. ASSUME ClearAssociation(t) PROVE Live \subseteq Live'
  BY <1>32 DEF ClearAssociation
<1>33. ASSUME setHasAssociatedObjects(t) PROVE Live \subseteq Live'
  BY <1>33 DEF setHasAssociatedObjects
<1>34. ASSUME SetAssociationRetry(t) PROVE Live \subseteq Live'
  BY <1>34 DEF SetAssociationRetry
<1>35. ASSUME NEW l \in {"change", "changeRaw"},
    SetClass(t, l) PROVE Live \subseteq Live'
  BY <1>35 DEF SetClass
<1>36. ASSUME ChangeLock(t) PROVE Live \subseteq Live'
  BY <1>36 DEF ChangeLock, Changing, ToRaw
<1>37. ASSUME ChangeStore(t) PROVE Live \subseteq Live'
  BY <1>37 DEF ChangeStore, Changing, ToRaw, ChangedIsa
<1>38. ASSUME ChangeRetry(t) PROVE Live \subseteq Live'
  BY <1>38 DEF ChangeRetry, Changing, ToRaw, ChangedIsa
<1>39. ASSUME ChangeMove(t) PROVE Live \subseteq Live'
  BY <1>39 DEF ChangeMove
<1> QED
  BY <1>1, <1>2, <1>3, <1>4, <1>5, <1>6, <1>7, <1>8, <1>9, <1>10, <1>11,
      <1>12, <1>13, <1>14, <1>15, <1>16, <1>17, <1>18, <1>19, <1>20, <1>21,
      <1>22, <1>23, <1>24, <1>25, <1>26, <1>27, <1>28, <1>29, <1>30, <1>31,
      <1>32, <1>33, <1>34, <1>35, <1>36, <1>37, <1>38, <1>39
  DEF Step, RetainStep, ReleaseStep, DeallocStep, FlagStep, ChangeStep

\* An underflow with the lock held always finds counts to borrow.
LEMMA BorrowHasCounts ==
    ASSUME IInv PROVE BorrowFindsCounts
<1> SUFFICES ASSUME NEW t \in Threads, ReleaseLoop(t), oldisa[t].extra_rc = 0,
    locked[t]
             PROVE  refcnts.present /\ refcnts.rc >= RC_HALF
  BY DEF BorrowFindsCounts
<1>1. lock = t BY DEF IInv, LockOK, HasLock
<1>2. isa.nonpointer /\ isa.has_sidetable_rc
  BY DEF IInv, OldIsaOK, OldIsaOf, Fresh, LoopPCs, HasLock, ReleaseLoop,
      IsDeallocating
<1>3. InFlight(t) = 0 BY DEF InFlight, ReleaseLoop
<1>4. refcnts.rc \in Int BY DEF IInv, TypeOK, Entry
<1>5. SideCount = refcnts.rc BY <1>1, <1>3, <1>4,
    ConstantsAssumption DEF SideCount
<1>6. SideCount > 0 /\ InHalves(refcnts.rc) BY <1>2 DEF IInv, SideOK, SplitOK
<1>7. refcnts.rc # 0 /\ refcnts.rc >= RC_HALF BY <1>4, <1>5, <1>6, HalfFacts
<1>8. refcnts.present BY <1>7 DEF IInv, SideOK, SplitOK, NoEntry
<1> QED BY <1>7, <1>8

\* No retain, and no weak load, brings a dead object back.
LEMMA NotRevived ==
    ASSUME IInv, NEW t \in Threads, Step(t), NEW u \in Threads,
    Dying(u) \/ freed
    PROVE  Live' = {}
<1>0. Live = {} BY DEF IInv, DeathOK
<1>1. ~Holds(t) BY AliveFacts, <1>0
<1>2. ASSUME owner' = owner PROVE Live' = {} BY <1>0, <1>2 DEF Live
<1>3. freed => pc[t] \in NotTouching BY DEF IInv, NoUseAfterFree
<1>4. Dying(u) /\ ~isa.nonpointer => refcnts.deallocating BY DEF IInv, DeathOK
<1>5. ~freed /\ isa.nonpointer => IsDeallocating(isa) BY <1>0,
    DeadIffNoCount DEF IInv
<1>6. OldIsaOf(t) BY DEF IInv, OldIsaOK
<1>7. CASE TryRetainRaw(t)
  <2>1. ~freed /\ ~isa.nonpointer BY <1>3, <1>6, <1>7 DEF TryRetainRaw,
      NotTouching, OldIsaOf, LoopPCs
  <2> QED BY <2>1, <1>2, <1>4, <1>7 DEF TryRetainRaw
<1>8. CASE RetainRaw(t)
  <2>1. ref[t] = NoRef BY <1>1, <1>8 DEF RetainRaw, IInv, TokensOK
  <2> QED BY <2>1, <1>2, <1>8 DEF RetainRaw, Gain, SetOwner
<1>9. CASE RetainInline(t) BY <1>3, <1>5, <1>9 DEF RetainInline, RetainLoop,
    NotTouching
<1>10. CASE RetainSplit(t) BY <1>3, <1>5, <1>10 DEF RetainSplit, RetainLoop,
    NotTouching
<1>11. CASE ~TryRetainRaw(t) /\ ~RetainRaw(t) /\ ~RetainInline(t) /\ ~RetainSplit(t)
  BY <1>0, <1>11, OnlyRetainsGain DEF IInv
<1> QED BY <1>7, <1>8, <1>9, <1>10, <1>11

\* What a step that neither starts nor ends a deallocation leaves as it was.
DyingAsBefore(t) ==
    /\ Dying(t)' <=> Dying(t)
    /\ freed' = freed
    /\ Dying(t) => deallocs' = (IF pc'[t] = "deallocate" THEN 0 ELSE 1)
    /\ ~Dying(t) => deallocs' = deallocs
    /\ Pinned => Pinned'
    /\ ~isa.nonpointer /\ refcnts.deallocating => refcnts'.deallocating
    /\ isa.nonpointer /\ ~isa'.nonpointer => Holds(t)

\* Flagging a weak reference does not make the object more or less dead.
LEMMA SetWeakDyingAs ==
    ASSUME IInv, NEW t \in Threads, setWeaklyReferenced_nolock(t), Step(t)
    PROVE  DyingAsBefore(t)
<1>h. /\ TypeOK /\ FramesOK /\ TokensOK /\ SideOK /\ BorrowOf(t) /\ OldIsaOf(t)
  BY DEF IInv, BorrowOK, OldIsaOK
<1>a. /\ ~isa.nonpointer => isa' = isa
      /\ pc[t] \in {"change", "changeRaw"} => Holds(t)
      /\ Dying(t) => deallocs = (IF pc[t] = "deallocate" THEN 0 ELSE 1)
  BY RawStaysRaw DEF IInv, TokensOK, DeathOK
<1> USE <1>h, <1>a
<1> USE DEF setWeaklyReferenced_nolock
<1>1. pc'[t] = "idle" BY DEF Return, Goto, TypeOK
<1>2. ~Dying(t) /\ ~Dying(t)' BY <1>1 DEF Dying
<1>3. freed' = freed /\ deallocs' = deallocs BY DEF Fate
<1>4. ~isa.nonpointer => ~isa'.nonpointer OBVIOUS
<1>5. isa.nonpointer => isa'.nonpointer BY DEF OldIsaOf, LoopPCs, TypeOK,
    IsaWord
<1>6. /\ refcnts.pinned => refcnts'.pinned
      /\ refcnts.deallocating => refcnts'.deallocating
  <2>1. \/ refcnts' = refcnts
        \/ refcnts' = [Find(refcnts) EXCEPT !.weakly_referenced = TRUE]
    OBVIOUS
  <2>2. refcnts.pinned \/ refcnts.deallocating => Find(refcnts) = refcnts
    BY DEF SideOK, SplitOK, Find, NoEntry
  <2> QED BY <2>1, <2>2 DEF TypeOK, Entry
<1> QED BY <1>2, <1>3, <1>4, <1>5, <1>6 DEF DyingAsBefore, Pinned

\* These are all the steps but the last releases and the frees.
LEMMA DyingAs ==
    ASSUME IInv, NEW t \in Threads, Step(t),
           ~ReleaseRaw(t), ~ReleaseInline(t), ~ReleaseBorrow(t), ~FastFree(t),
           ~ClearRaw(t), ~ClearNonpointer(t)
    PROVE  DyingAsBefore(t)
<1>h. /\ TypeOK /\ FramesOK /\ TokensOK /\ SideOK /\ BorrowOf(t) /\ OldIsaOf(t)
  BY DEF IInv, BorrowOK, OldIsaOK
<1>a. /\ ~isa.nonpointer => isa' = isa
      /\ pc[t] \in {"change", "changeRaw"} => Holds(t)
      /\ Dying(t) => deallocs = (IF pc[t] = "deallocate" THEN 0 ELSE 1)
  BY RawStaysRaw DEF IInv, TokensOK, DeathOK
<1> USE <1>h, <1>a, ConstantsAssumption DEF TypeOK, IsaWord, Entry, FramesOK,
    Fate, SideOK, SplitOK, OldIsaOf, LoopPCs, Dying, Side, BorrowOf, PCs,
    Goto, Load,
    Begin, End, Return, RRReturn, Reload, Lock, Unlock, UnlockIf, locals,
    DyingAsBefore, Pinned, SetCount, Find, NewEntry, NoEntry,
    sidetable_retain, sidetable_tryRetain, sidetable_addExtraRC_nolock,
    sidetable_moveExtraRC_nolock
<1>1. ASSUME Retain(t) PROVE DyingAsBefore(t)
  BY <1>1 DEF Retain
<1>2. ASSUME LoadWeak(t) PROVE DyingAsBefore(t)
  BY <1>2 DEF LoadWeak
<1>3. ASSUME TryRetainRaw(t) PROVE DyingAsBefore(t)
  BY <1>3 DEF TryRetainRaw
<1>4. ASSUME RetainRaw(t) PROVE DyingAsBefore(t)
  BY <1>4 DEF RetainRaw
<1>5. ASSUME RetainSeesDeallocating(t) PROVE DyingAsBefore(t)
  BY <1>5 DEF RetainSeesDeallocating
<1>6. ASSUME RetainInline(t) PROVE DyingAsBefore(t)
  BY <1>6 DEF RetainInline, RetainLoop
<1>7. ASSUME RetainOverflow(t) PROVE DyingAsBefore(t)
  BY <1>7 DEF RetainOverflow, RetainLoop
<1>8. ASSUME RetainLock(t) PROVE DyingAsBefore(t)
  BY <1>8 DEF RetainLock, RetainLoop
<1>9. ASSUME RetainSplit(t) PROVE DyingAsBefore(t)
  BY <1>9 DEF RetainSplit, RetainLoop, TokensOK
<1>10. ASSUME RetainTranscribe(t) PROVE DyingAsBefore(t)
  BY <1>10 DEF RetainTranscribe, TokensOK
<1>11. ASSUME RetainRetry(t) PROVE DyingAsBefore(t)
  BY <1>11 DEF RetainRetry, RetainLoop
<1>12. ASSUME WeakLoaded(t) PROVE DyingAsBefore(t)
  BY <1>12 DEF WeakLoaded
<1>13. ASSUME Release(t) PROVE DyingAsBefore(t)
  BY <1>13 DEF Release
<1>14. ASSUME ReleaseSeesDeallocating(t) PROVE DyingAsBefore(t)
  BY <1>14 DEF ReleaseSeesDeallocating
<1>15. ASSUME ReleaseUnderflow(t) PROVE DyingAsBefore(t)
  BY <1>15 DEF ReleaseUnderflow, ReleaseLoop
<1>16. ASSUME ReleaseLock(t) PROVE DyingAsBefore(t)
  BY <1>16 DEF ReleaseLock, ReleaseLoop
<1>17. ASSUME BorrowStore(t) PROVE DyingAsBefore(t)
  BY <1>17 DEF BorrowStore, StoreBorrowed, TokensOK
<1>18. ASSUME BorrowFailed(t) PROVE DyingAsBefore(t)
  BY <1>18 DEF BorrowFailed, TokensOK
<1>19. ASSUME BorrowStoreAgain(t) PROVE DyingAsBefore(t)
  BY <1>19 DEF BorrowStoreAgain, StoreBorrowed, TokensOK
<1>20. ASSUME BorrowFailedAgain(t) PROVE DyingAsBefore(t)
  BY <1>20 DEF BorrowFailedAgain, TokensOK
<1>21. ASSUME BorrowPutBack(t) PROVE DyingAsBefore(t)
  BY <1>21 DEF BorrowPutBack, TokensOK
<1>22. ASSUME BorrowStored(t) PROVE DyingAsBefore(t)
  BY <1>22 DEF BorrowStored, SendDealloc
<1>23. ASSUME ReleaseRetry(t) PROVE DyingAsBefore(t)
  BY <1>23 DEF ReleaseRetry, ReleaseLoop
<1>24. ASSUME ReleaseDeallocate(t) PROVE DyingAsBefore(t)
  BY <1>24 DEF ReleaseDeallocate, SendDealloc
<1>25. ASSUME Destruct(t) PROVE DyingAsBefore(t)
  BY <1>25 DEF Destruct
<1>26. ASSUME StoreWeak(t) PROVE DyingAsBefore(t)
  BY <1>26 DEF StoreWeak
<1>27. ASSUME setWeaklyReferenced_nolock(t) PROVE DyingAsBefore(t)
  BY <1>27, SetWeakDyingAs
<1>28. ASSUME StoreWeakRetry(t) PROVE DyingAsBefore(t)
  BY <1>28 DEF StoreWeakRetry
<1>29. ASSUME DestroyWeak(t) PROVE DyingAsBefore(t)
  BY <1>29 DEF DestroyWeak
<1>30. ASSUME SetAssociation(t) PROVE DyingAsBefore(t)
  BY <1>30 DEF SetAssociation
<1>31. ASSUME ClearAssociation(t) PROVE DyingAsBefore(t)
  BY <1>31 DEF ClearAssociation
<1>32. ASSUME setHasAssociatedObjects(t) PROVE DyingAsBefore(t)
  BY <1>32 DEF setHasAssociatedObjects
<1>33. ASSUME SetAssociationRetry(t) PROVE DyingAsBefore(t)
  BY <1>33 DEF SetAssociationRetry
<1>34. ASSUME NEW l \in {"change", "changeRaw"},
    SetClass(t, l) PROVE DyingAsBefore(t)
  BY <1>34 DEF SetClass
<1>35. ASSUME ChangeLock(t) PROVE DyingAsBefore(t)
  BY <1>35 DEF ChangeLock, Changing, ToRaw
<1>36. ASSUME ChangeStore(t) PROVE DyingAsBefore(t)
  BY <1>36 DEF ChangeStore, Changing, ToRaw, ChangedIsa
<1>37. ASSUME ChangeRetry(t) PROVE DyingAsBefore(t)
  BY <1>37 DEF ChangeRetry, Changing, ToRaw, ChangedIsa
<1>38. ASSUME ChangeMove(t) PROVE DyingAsBefore(t)
  BY <1>38 DEF ChangeMove
<1> HIDE DEF TypeOK, IsaWord, Entry, FramesOK, Fate, SideOK, SplitOK,
    OldIsaOf, LoopPCs, Dying, Side, BorrowOf, PCs, Goto, Load, Begin, End,
    Return, RRReturn, Reload, Lock, Unlock, UnlockIf, locals, DyingAsBefore,
    Pinned, SetCount, Find, NewEntry, NoEntry, sidetable_retain,
    sidetable_tryRetain, sidetable_addExtraRC_nolock,
    sidetable_moveExtraRC_nolock
<1> QED
  BY <1>1, <1>2, <1>3, <1>4, <1>5, <1>6, <1>7, <1>8, <1>9, <1>10, <1>11,
      <1>12, <1>13, <1>14, <1>15, <1>16, <1>17, <1>18, <1>19, <1>20, <1>21,
      <1>22, <1>23, <1>24, <1>25, <1>26, <1>27, <1>28, <1>29, <1>30, <1>31,
      <1>32, <1>33, <1>34, <1>35, <1>36, <1>37, <1>38
  DEF Step, RetainStep, ReleaseStep, DeallocStep, FlagStep, ChangeStep

\* A step that leaves the deallocation as it was keeps DeathOK.
LEMMA DeathQuiet ==
    ASSUME IInv, TypeOK', NEW t \in Threads, Step(t), DyingAsBefore(t),
    Live' = {} => Live = {} \/ Pinned
    PROVE  DeathOK'
<1>1. \A u \in Threads \ {t} : pc'[u] = pc[u] /\ ref'[u] = ref[u] BY OthersUntouched DEF IInv
<1>2. \A u \in Threads : Dying(u)' <=> Dying(u) BY <1>1 DEF DyingAsBefore,
    Dying
<1>3. freed' = freed BY DEF DyingAsBefore
<1>4. ASSUME NEW u \in Threads, Dying(u)'
      PROVE  /\ ~freed' /\ Live' = {}
             /\ deallocs' = (IF pc'[u] = "deallocate" THEN 0 ELSE 1)
             /\ \A v \in Threads : Dying(v)' => v = u
             /\ ~isa'.nonpointer => refcnts'.deallocating
  <2>1. Dying(u) BY <1>2, <1>4
  <2>2. /\ ~freed /\ deallocs = (IF pc[u] = "deallocate" THEN 0 ELSE 1)
        /\ \A v \in Threads : Dying(v) => v = u
        /\ ~isa.nonpointer => refcnts.deallocating /\ Live = {}
    BY <2>1 DEF IInv, DeathOK
  <2>3. Live' = {} BY <2>1, NotRevived
  <2>4. deallocs' = (IF pc'[u] = "deallocate" THEN 0 ELSE 1)
    BY <1>1, <2>1, <2>2 DEF DyingAsBefore
  <2>5. ~Holds(t) BY AliveFacts, <2>1 DEF IInv, DeathOK
  <2>6. ~isa'.nonpointer => refcnts'.deallocating
    BY <2>2, <2>5 DEF DyingAsBefore
  <2> QED BY <1>2, <1>3, <2>2, <2>3, <2>4, <2>6
<1>5. freed' => deallocs' = 1 /\ Live' = {}
  <2> SUFFICES ASSUME freed PROVE deallocs' = 1 /\ Live' = {} BY <1>3
  <2>1. deallocs = 1 /\ ~Dying(t) BY DEF IInv, DeathOK
  <2> QED BY <2>1, NotRevived DEF DyingAsBefore
<1>6. deallocs' <= 1 /\ (deallocs' = 1 => freed' \/ \E u \in Threads : Dying(u)')
  <2>1. CASE Dying(t) BY <2>1, <1>2 DEF DyingAsBefore
  <2>2. CASE ~Dying(t)
    <3>1. deallocs' = deallocs BY <2>2 DEF DyingAsBefore
    <3> QED BY <3>1, <1>2, <1>3 DEF IInv, DeathOK
  <2> QED BY <2>1, <2>2
<1>7. Live' = {} => freed' \/ Pinned' \/ \E u \in Threads : Dying(u)'
  BY <1>2, <1>3 DEF IInv, DeathOK, DyingAsBefore
<1> QED BY <1>4, <1>5, <1>6, <1>7 DEF DeathOK

\* Deallocation starts once, with the release that drops the last reference,
\* and ends in free().
LEMMA DeathStep ==
    ASSUME IInv, TypeOK', SideOK', CountMatchesReferences', BorrowOK',
    NEW t \in Threads, Step(t)
    PROVE  DeathOK'
<1>0. OldIsaOf(t) /\ BorrowOf(t) /\ TypeOK /\ FramesOK /\ TokensOK /\ SideOK /\ LockOK
  BY DEF IInv, OldIsaOK, BorrowOK
<1>01. ~isa.nonpointer => isa' = isa BY RawStaysRaw DEF IInv
<1>02. pc[t] \in {"change", "changeRaw"} => Holds(t) BY DEF IInv, TokensOK
<1>03. Dying(t) => deallocs = (IF pc[t] = "deallocate" THEN 0 ELSE 1) BY DEF IInv, DeathOK
<1>04. Dying(t) => ~freed /\ Live = {} /\ \A v \in Threads : Dying(v) => v = t
  BY DEF IInv, DeathOK
<1>05. \A u \in Threads \ {t} : pc'[u] = pc[u] /\ ref'[u] = ref[u] BY OthersUntouched DEF IInv
<1>06. \A u \in Threads \ {t} : Dying(u)' <=> Dying(u) BY <1>05 DEF Dying
<1>07. freed => pc[t] \in NotTouching BY DEF IInv, NoUseAfterFree
<1>08. deallocs = 1 => freed \/ \E u \in Threads : Dying(u) BY DEF IInv,
    DeathOK
<1>09. deallocs \in Nat /\ deallocs <= 1 BY DEF IInv, DeathOK, TypeOK
<1>010. ~freed' /\ isa'.nonpointer => (IsDeallocating(isa') <=> Live' = {})
  BY DeadIffNoCountNext
<1>011. Cardinality(Live') = 0 <=> Live' = {} BY LiveFactsNext
<1>1. ASSUME FastFree(t) \/ ClearRaw(t) \/ ClearNonpointer(t) PROVE DeathOK'
  <2>1. freed' /\ pc'[t] = "idle" /\ deallocs' = deallocs /\ owner' = owner
    BY <1>1, <1>0 DEF FastFree, ClearRaw, ClearNonpointer, Return, Goto, TypeOK
  <2>2. Dying(t) /\ pc[t] # "deallocate" BY <1>1 DEF FastFree, ClearRaw,
      ClearNonpointer, Dying
  <2>3. Live' = {} /\ deallocs' = 1 BY <1>03, <1>04, <2>1, <2>2 DEF Live
  <2>4. \A u \in Threads : ~Dying(u)' BY <1>04, <1>06, <2>1, <2>2 DEF Dying
  <2> QED BY <2>1, <2>3, <2>4 DEF DeathOK
<1>2. ASSUME ReleaseInline(t) PROVE DeathOK'
  <2> USE DEF ReleaseInline, ReleaseLoop
  <2>1. isa.nonpointer /\ isa'.nonpointer /\ ~freed BY <1>0, <1>07,
      <1>2 DEF TypeOK, IsaWord, NotTouching
  <2>2. ~Dying(t) /\ pc[t] = "release" /\ freed' = freed /\ deallocs' = deallocs
    BY <1>0, <1>2 DEF Dying, OldIsaOf, LoopPCs, FramesOK, Fate
  <2>3. CASE IsDeallocating(isa')
    <3>1. pc' = [pc EXCEPT ![t] = "deallocate"] BY <1>2, <2>3 DEF Goto
    <3>2. pc'[t] = "deallocate" /\ Dying(t)' BY <3>1, <1>0 DEF TypeOK, Dying
    <3>3. ref[t] \in Refs /\ owner[ref[t]] = t BY <1>0, <2>2 DEF TokensOK,
        TypeOK, Dying
    <3>4. Live # {} BY <3>3, ConstantsAssumption DEF Live
    <3>5. \A u \in Threads : ~Dying(u) BY <3>4 DEF IInv, DeathOK
    <3>6. deallocs' = 0 BY <3>5, <1>08, <1>09, <2>1, <2>2
    <3>7. Live' = {} BY <1>010, <2>1, <2>2, <2>3
    <3>8. \A u \in Threads : Dying(u)' => u = t BY <1>06, <3>5
    <3> QED BY <2>1, <2>2, <3>2, <3>6, <3>7, <3>8 DEF DeathOK
  <2>4. CASE ~IsDeallocating(isa')
    <3>1. RRReturn(t) BY <1>2, <2>4
    <3>2. ref[t] # NoRef /\ ~tryRetain[t] BY <1>0, <2>2 DEF Dying, FramesOK
    <3>3. pc'[t] = "idle" BY <3>1, <3>2, <1>0 DEF RRReturn, Goto, TypeOK
    <3>4. Live' # {} BY <1>010, <2>1, <2>2, <2>4
    <3>5. DyingAsBefore(t) BY <2>1, <2>2, <3>3 DEF DyingAsBefore, Dying, Pinned
    <3> QED BY <3>4, <3>5, DeathQuiet
  <2> QED BY <2>3, <2>4
<1>3. ASSUME ReleaseBorrow(t) PROVE DeathOK'
  <2> USE DEF ReleaseBorrow, ReleaseLoop
  <2>1. CanBorrow(refcnts) BY <1>3, BorrowHasCounts,
      RCFacts DEF BorrowFindsCounts, CanBorrow
  <2>2. pc'[t] = "borrow" /\ owner' = owner BY <2>1, <1>0, <1>3 DEF Goto,
      TypeOK
  <2>3. ~Dying(t) BY <1>0, <1>3 DEF Dying, OldIsaOf, LoopPCs, FramesOK
  <2>4. Live' = Live BY <2>2 DEF Live
  <2>5. DyingAsBefore(t)
    <3>1. isa' = isa /\ freed' = freed /\ deallocs' = deallocs BY <1>3 DEF Fate
    <3>2. isa.nonpointer BY <1>0, <1>3 DEF OldIsaOf, Fresh, LoopPCs, HasLock
    <3> QED BY <2>2, <2>3, <3>1, <3>2 DEF DyingAsBefore, Dying, Pinned
  <2> QED BY <2>4, <2>5, DeathQuiet
<1>4. ASSUME ReleaseRaw(t) PROVE DeathOK'
  <2> USE DEF ReleaseRaw
  <2>1. /\ ~isa.nonpointer /\ isa' = isa /\ freed' = freed /\ ~freed
        /\ pc[t] = "release" /\ ~tryRetain[t]
    BY <1>0, <1>4, <1>07 DEF OldIsaOf, LoopPCs, NotTouching, FramesOK
  <2>2. (\E u \in Threads : Dying(u)) => refcnts.deallocating BY <2>1 DEF IInv, DeathOK
  <2>4. refcnts.deallocating => refcnts.present BY <1>0 DEF SideOK, SplitOK,
      NoEntry
  <2>5. CASE LastRelease(refcnts)
    <3>1. SendDealloc(t) BY <1>4, <2>5
    <3>2. pc'[t] = "dealloc" /\ deallocs' = deallocs + 1 BY <3>1,
        <1>0 DEF SendDealloc, Goto, TypeOK
    <3>3. ~refcnts.deallocating BY <2>4, <2>5 DEF LastRelease
    <3>4. \A u \in Threads : ~Dying(u) BY <2>2, <3>3
    <3>5. deallocs' = 1 BY <3>2, <3>4, <1>08, <1>09, <2>1
    <3>6. refcnts' = [Find(refcnts) EXCEPT !.deallocating = TRUE] BY <1>4,
        <2>5 DEF sidetable_release
    <3>7. refcnts'.deallocating /\ ~refcnts'.pinned
      BY <3>6, <2>5, <1>0 DEF LastRelease, Find, NewEntry, TypeOK, Entry
    <3>8. ~Moving'
      <4>1. lock' \in {t, NoThread} BY <1>4, <1>0 DEF UnlockIf, Unlock,
          LockOK, HasLock
      <4> QED BY <4>1, <3>2, ConstantsAssumption DEF Moving
    <3>9. RetainCount' = 0 BY <2>1, <3>7, <3>8 DEF RetainCount
    <3>10. Live' = {}
      <4>1. Cardinality(Live') = 0 BY <2>1, <3>7,
          <3>9 DEF CountMatchesReferences, Pinned
      <4> QED BY <4>1 , <1>011
    <3>11. Dying(t)' BY <3>2 DEF Dying
    <3>12. \A u \in Threads : Dying(u)' => u = t BY <1>06, <3>4
    <3> QED BY <2>1, <3>2, <3>5, <3>7, <3>10, <3>11, <3>12 DEF DeathOK
  <2>6. CASE ~LastRelease(refcnts)
    <3>1. RRReturn(t) /\ deallocs' = deallocs BY <1>4, <2>6
    <3>2. pc'[t] = (IF ref[t] = NoRef THEN "dealloc" ELSE "idle") BY <3>1,
        <2>1, <1>0 DEF RRReturn, Goto, TypeOK
    <3>3. ref'[t] = NoRef BY <3>1, <1>0 DEF RRReturn, End, TypeOK
    <3>4. Dying(t)' <=> Dying(t) BY <3>2, <2>1 DEF Dying
    <3>5. /\ refcnts.pinned => refcnts'.pinned
          /\ refcnts.deallocating => refcnts'.deallocating
          /\ ~refcnts.pinned /\ ~refcnts.deallocating =>
                /\ refcnts.rc # 0 /\ refcnts'.rc = refcnts.rc - 1
                /\ ~refcnts'.pinned /\ ~refcnts'.deallocating
      BY <1>4, <2>6, <1>0 DEF LastRelease, sidetable_release, TypeOK, Entry
    <3>6. DyingAsBefore(t) BY <2>1, <3>1, <3>2, <3>4, <3>5,
        <1>03 DEF DyingAsBefore, Pinned, Dying
    <3>7. Live' = {} => Live = {} \/ Pinned
      <4>1. CASE ref[t] = NoRef BY <4>1, <1>4 DEF Drop, SetOwner, Live
      <4>2. CASE ref[t] # NoRef
        <5>1. Live # {} BY <4>2, <2>1, AliveFacts
        <5>2. lock \in {t, NoThread} /\ lock' \in {t, NoThread} BY <1>4,
            <1>0 DEF UnlockIf, Unlock, LockOK, HasLock
        <5>3. ~Moving /\ ~Moving' BY <5>2, <2>1, <3>2,
            ConstantsAssumption DEF Moving
        <5>4. InFlight(t) = 0 /\ InFlight(t)' = 0 BY <2>1, <3>2 DEF InFlight
        <5>5. SideCount = refcnts.rc /\ SideCount' = refcnts'.rc
          BY <5>2, <5>4, <1>0, ConstantsAssumption DEF SideCount, TypeOK, Entry
        <5>6. Cardinality(Live) # 0 BY <5>1, <1>0, LiveFacts
        <5>7. CASE refcnts.pinned
          BY <5>7, <2>1 DEF Pinned
        <5>8. CASE ~refcnts.pinned
          <6>1. RetainCount = Cardinality(Live) BY <5>8, <2>1 DEF IInv,
              CountMatchesReferences, Pinned
          <6>2. ~refcnts.deallocating BY <6>1, <5>6, <5>3, <2>1 DEF RetainCount
          <6>3. RetainCount' = refcnts'.rc + 1 BY <6>2, <5>8, <3>5, <2>1,
              <5>3, <5>5 DEF RetainCount
          <6>4. RetainCount' = Cardinality(Live') BY <2>1, <5>8, <6>2,
              <3>5 DEF CountMatchesReferences, Pinned
          <6>5. refcnts.rc \in Int BY <1>0 DEF TypeOK, Entry
          <6> QED BY <6>2, <6>3, <6>4, <6>5, <5>8, <3>5, <1>011
        <5> QED BY <5>7, <5>8 DEF TypeOK, Entry
      <4> QED BY <4>1, <4>2
    <3> QED BY <3>6, <3>7, DeathQuiet
  <2> QED BY <2>5, <2>6
<1>5. CASE /\ ~ReleaseRaw(t) /\ ~ReleaseInline(t) /\ ~ReleaseBorrow(t)
           /\ ~FastFree(t) /\ ~ClearRaw(t) /\ ~ClearNonpointer(t)
  <2>1. DyingAsBefore(t) BY <1>5, DyingAs
  <2>2. Live' = {} => Live = {}
    <3>1. CASE BorrowStore(t) \/ BorrowStoreAgain(t)
      <4>1. isa'.nonpointer /\ isa'.extra_rc # 0 /\ freed' = freed
        BY <3>1, <1>0, RCFacts DEF BorrowStore, BorrowStoreAgain,
            StoreBorrowed, SetCount, Fate, BorrowOf, TypeOK, IsaWord,
            InlineCounts
      <4>2. ~freed BY <3>1, <1>07 DEF BorrowStore, BorrowStoreAgain,
          NotTouching
      <4> QED BY <4>1, <4>2, <1>010 DEF IsDeallocating
    <3>2. CASE ~BorrowStore(t) /\ ~BorrowStoreAgain(t)
      BY <3>2, <1>0, <1>5, OnlyReleasesDrop
    <3> QED BY <3>1, <3>2
  <2> QED BY <2>1, <2>2, DeathQuiet
<1> QED BY <1>1, <1>2, <1>3, <1>4, <1>5

-----------------------------------------------------------------------------
(* The flags that tell -dealloc of weak variables and associations.        *)

\* Where thread t finds, or is about to set, the weak flag.
WeakFlagOf(t) ==
    \/ isa.nonpointer /\ isa.weakly_referenced
    \/ ~isa.nonpointer /\ refcnts.weakly_referenced
    \/ pc[t] = "setWeak"
    \/ pc[t] = "move" /\ oldisa[t].weakly_referenced

\* The side table's operations on the count leave the weak flag alone.
LEMMA EntryWeak ==
    ASSUME NEW e \in Entry, ~e.present => e = NoEntry, NEW n
    PROVE  /\ sidetable_retain(e).weakly_referenced = e.weakly_referenced
           /\ sidetable_tryRetain(e).weakly_referenced = e.weakly_referenced
           /\ sidetable_release(e).weakly_referenced = e.weakly_referenced
           /\ sidetable_addExtraRC_nolock(e, n).weakly_referenced = e.weakly_referenced
           /\ sidetable_subExtraRC_nolock(e, n).weakly_referenced = e.weakly_referenced
           /\ [Find(e) EXCEPT !.weakly_referenced = TRUE].weakly_referenced
<1>1. Find(e) \in Entry /\ Find(e).weakly_referenced = e.weakly_referenced
  <2>1. CASE e.present BY <2>1 DEF Find
  <2>2. CASE ~e.present
    <3>1. Find(e) = NewEntry /\ e = NoEntry BY <2>2 DEF Find
    <3>2. NewEntry \in Entry BY DEF NewEntry, Entry
    <3>3. NewEntry.weakly_referenced = FALSE /\ NoEntry.weakly_referenced = FALSE
      BY DEF NewEntry, NoEntry
    <3> QED BY <3>1, <3>2, <3>3
  <2> QED BY <2>1, <2>2
<1>2. sidetable_retain(e).weakly_referenced = e.weakly_referenced
  BY <1>1 DEF sidetable_retain, Entry
<1>3. sidetable_tryRetain(e).weakly_referenced = e.weakly_referenced
  BY <1>2 DEF sidetable_tryRetain
<1>4. sidetable_release(e).weakly_referenced = e.weakly_referenced
  BY <1>1 DEF sidetable_release, Entry
<1>5. sidetable_addExtraRC_nolock(e, n).weakly_referenced = e.weakly_referenced
  BY <1>1 DEF sidetable_addExtraRC_nolock, Entry
<1>6. sidetable_subExtraRC_nolock(e, n).weakly_referenced = e.weakly_referenced
  BY DEF sidetable_subExtraRC_nolock, Entry
<1>7. [Find(e) EXCEPT !.weakly_referenced = TRUE].weakly_referenced BY <1>1 DEF Entry
<1> QED BY <1>2, <1>3, <1>4, <1>5, <1>6, <1>7

\* setWeaklyReferenced_nolock sets the flag where it is looked for.
LEMMA SetWeakFlag ==
    ASSUME IInv, TypeOK', NEW t \in Threads, Step(t), lock \in {t, NoThread},
           setWeaklyReferenced_nolock(t)
    PROVE  weak' => WeakFlagOf(t)' 
<1>h. /\ TypeOK /\ LockOK /\ SideOK /\ BorrowOf(t) /\ OldIsaOf(t)
      /\ refcnts \in Entry /\ (~refcnts.present => refcnts = NoEntry)
  BY DEF IInv, BorrowOK, OldIsaOK, SideOK, SplitOK, TypeOK
<1>w. weak => WeakFlagOf(t) BY DEF IInv, FlagsOK, WeakFlagOf
<1>r. /\ ~isa.nonpointer => isa' = isa
      /\ isa'.nonpointer => /\ isa.weakly_referenced => isa'.weakly_referenced
                            /\ isa.has_assoc => isa'.has_assoc
  BY RawStaysRaw
<1> USE <1>h, <1>w, <1>r
<1> USE DEF TypeOK, Side, Unlock, Return, Goto, End
<1>a. pc[t] = "setWeak" BY DEF setWeaklyReferenced_nolock
<1>1. lock = t /\ Fresh(t) BY <1>a DEF LockOK, HasLock, LockedPCs, Fresh,
    LoopPCs
<1>2. CASE ~oldisa[t].nonpointer
  <2>1. ~isa.nonpointer BY <1>a, <1>2 DEF OldIsaOf, LoopPCs
  <2>2. isa' = isa /\ refcnts' = [Find(refcnts) EXCEPT !.weakly_referenced = TRUE]
    BY <1>2 DEF setWeaklyReferenced_nolock
  <2>3. refcnts'.weakly_referenced BY <2>2, EntryWeak
  <2> QED BY <2>1, <2>2, <2>3 DEF WeakFlagOf
<1>3. CASE oldisa[t].nonpointer /\ oldisa[t].weakly_referenced
  BY <1>a, <1>1, <1>3 DEF OldIsaOf, WeakFlagOf, setWeaklyReferenced_nolock
<1>4. CASE oldisa[t].nonpointer /\ ~oldisa[t].weakly_referenced
  <2>1. isa' = [isa EXCEPT !.weakly_referenced = TRUE] /\ isa = oldisa[t]
    BY <1>4 DEF setWeaklyReferenced_nolock
  <2> QED BY <1>4, <2>1 DEF WeakFlagOf, IsaWord
<1> QED BY <1>2, <1>3, <1>4

\* The flag of a registered weak variable is found, or is about to be set,
\* whichever of isa and side table has it.
LEMMA WeakFlagSelf ==
    ASSUME IInv, TypeOK', NEW t \in Threads, Step(t), lock \in {t, NoThread}
    PROVE  weak' => WeakFlagOf(t)' 
<1>h. /\ TypeOK /\ LockOK /\ SideOK /\ BorrowOf(t) /\ OldIsaOf(t)
      /\ refcnts \in Entry /\ (~refcnts.present => refcnts = NoEntry)
  BY DEF IInv, BorrowOK, OldIsaOK, SideOK, SplitOK, TypeOK
<1>w. weak => WeakFlagOf(t) BY DEF IInv, FlagsOK, WeakFlagOf
<1>r. /\ ~isa.nonpointer => isa' = isa
      /\ isa'.nonpointer => /\ isa.weakly_referenced => isa'.weakly_referenced
                            /\ isa.has_assoc => isa'.has_assoc
  BY RawStaysRaw
<1> USE <1>h, <1>w, <1>r, EntryWeak DEF TypeOK, LockOK, HasLock, LockedPCs,
    OldIsaOf, LoopPCs, Side, WeakFlagOf, PCs, Goto, Load, Begin, End, Return,
    RRReturn, Reload, Lock, Unlock, UnlockIf, locals
<1>1. ASSUME Retain(t) PROVE (weak' => WeakFlagOf(t)')
  BY <1>1 DEF Retain
<1>2. ASSUME LoadWeak(t) PROVE (weak' => WeakFlagOf(t)')
  BY <1>2 DEF LoadWeak
<1>3. ASSUME TryRetainRaw(t) PROVE (weak' => WeakFlagOf(t)')
  BY <1>3 DEF TryRetainRaw
<1>4. ASSUME RetainRaw(t) PROVE (weak' => WeakFlagOf(t)')
  BY <1>4 DEF RetainRaw
<1>5. ASSUME RetainSeesDeallocating(t) PROVE (weak' => WeakFlagOf(t)')
  BY <1>5 DEF RetainSeesDeallocating
<1>6. ASSUME RetainInline(t) PROVE (weak' => WeakFlagOf(t)')
  BY <1>6 DEF RetainInline, RetainLoop
<1>7. ASSUME RetainOverflow(t) PROVE (weak' => WeakFlagOf(t)')
  BY <1>7 DEF RetainOverflow, RetainLoop
<1>8. ASSUME RetainLock(t) PROVE (weak' => WeakFlagOf(t)')
  BY <1>8 DEF RetainLock, RetainLoop
<1>9. ASSUME RetainSplit(t) PROVE (weak' => WeakFlagOf(t)')
  BY <1>9 DEF RetainSplit, RetainLoop, SetCount
<1>10. ASSUME RetainTranscribe(t) PROVE (weak' => WeakFlagOf(t)')
  BY <1>10 DEF RetainTranscribe, BorrowOf
<1>11. ASSUME RetainRetry(t) PROVE (weak' => WeakFlagOf(t)')
  BY <1>11 DEF RetainRetry, RetainLoop
<1>12. ASSUME WeakLoaded(t) PROVE (weak' => WeakFlagOf(t)')
  BY <1>12 DEF WeakLoaded
<1>13. ASSUME Release(t) PROVE (weak' => WeakFlagOf(t)')
  BY <1>13 DEF Release
<1>14. ASSUME ReleaseRaw(t) PROVE (weak' => WeakFlagOf(t)')
  BY <1>14 DEF ReleaseRaw, SendDealloc
<1>15. ASSUME ReleaseSeesDeallocating(t) PROVE (weak' => WeakFlagOf(t)')
  BY <1>15 DEF ReleaseSeesDeallocating
<1>16. ASSUME ReleaseInline(t) PROVE (weak' => WeakFlagOf(t)')
  BY <1>16 DEF ReleaseInline, ReleaseLoop
<1>17. ASSUME ReleaseUnderflow(t) PROVE (weak' => WeakFlagOf(t)')
  BY <1>17 DEF ReleaseUnderflow, ReleaseLoop
<1>18. ASSUME ReleaseLock(t) PROVE (weak' => WeakFlagOf(t)')
  BY <1>18 DEF ReleaseLock, ReleaseLoop
<1>19. ASSUME ReleaseBorrow(t) PROVE (weak' => WeakFlagOf(t)')
  BY <1>19 DEF ReleaseBorrow, ReleaseLoop
<1>20. ASSUME BorrowStore(t) PROVE (weak' => WeakFlagOf(t)')
  BY <1>20 DEF BorrowStore, StoreBorrowed, SetCount
<1>21. ASSUME BorrowFailed(t) PROVE (weak' => WeakFlagOf(t)')
  BY <1>21 DEF BorrowFailed
<1>22. ASSUME BorrowStoreAgain(t) PROVE (weak' => WeakFlagOf(t)')
  BY <1>22 DEF BorrowStoreAgain, StoreBorrowed, SetCount
<1>23. ASSUME BorrowFailedAgain(t) PROVE (weak' => WeakFlagOf(t)')
  BY <1>23 DEF BorrowFailedAgain
<1>24. ASSUME BorrowPutBack(t) PROVE (weak' => WeakFlagOf(t)')
  BY <1>24 DEF BorrowPutBack
<1>25. ASSUME BorrowStored(t) PROVE (weak' => WeakFlagOf(t)')
  BY <1>25 DEF BorrowStored, SendDealloc, BorrowOf, NoEntry
<1>26. ASSUME ReleaseRetry(t) PROVE (weak' => WeakFlagOf(t)')
  BY <1>26 DEF ReleaseRetry, ReleaseLoop
<1>27. ASSUME ReleaseDeallocate(t) PROVE (weak' => WeakFlagOf(t)')
  BY <1>27 DEF ReleaseDeallocate, SendDealloc
<1>28. ASSUME FastFree(t) PROVE (weak' => WeakFlagOf(t)')
  BY <1>28 DEF FastFree
<1>29. ASSUME Destruct(t) PROVE (weak' => WeakFlagOf(t)')
  BY <1>29 DEF Destruct
<1>30. ASSUME ClearRaw(t) PROVE (weak' => WeakFlagOf(t)')
  BY <1>30 DEF ClearRaw
<1>31. ASSUME ClearNonpointer(t) PROVE (weak' => WeakFlagOf(t)')
  BY <1>31 DEF ClearNonpointer
<1>32. ASSUME StoreWeak(t) PROVE (weak' => WeakFlagOf(t)')
  BY <1>32 DEF StoreWeak
<1>33. ASSUME setWeaklyReferenced_nolock(t) PROVE (weak' => WeakFlagOf(t)')
  BY <1>33, SetWeakFlag
<1>34. ASSUME StoreWeakRetry(t) PROVE (weak' => WeakFlagOf(t)')
  BY <1>34 DEF StoreWeakRetry
<1>35. ASSUME DestroyWeak(t) PROVE (weak' => WeakFlagOf(t)')
  BY <1>35 DEF DestroyWeak
<1>36. ASSUME SetAssociation(t) PROVE (weak' => WeakFlagOf(t)')
  BY <1>36 DEF SetAssociation
<1>37. ASSUME ClearAssociation(t) PROVE (weak' => WeakFlagOf(t)')
  BY <1>37 DEF ClearAssociation
<1>38. ASSUME setHasAssociatedObjects(t) PROVE (weak' => WeakFlagOf(t)')
  BY <1>38 DEF setHasAssociatedObjects, IsaWord
<1>39. ASSUME SetAssociationRetry(t) PROVE (weak' => WeakFlagOf(t)')
  BY <1>39 DEF SetAssociationRetry
<1>40. ASSUME NEW l \in {"change", "changeRaw"},
    SetClass(t, l) PROVE (weak' => WeakFlagOf(t)')
  BY <1>40 DEF SetClass
<1>41. ASSUME ChangeLock(t) PROVE (weak' => WeakFlagOf(t)')
  BY <1>41 DEF ChangeLock, Changing, ToRaw
<1>42. ASSUME ChangeStore(t) PROVE (weak' => WeakFlagOf(t)')
  BY <1>42 DEF ChangeStore, Changing, ToRaw, ChangedIsa
<1>43. ASSUME ChangeRetry(t) PROVE (weak' => WeakFlagOf(t)')
  BY <1>43 DEF ChangeRetry, Changing, ToRaw, ChangedIsa
<1>44. ASSUME ChangeMove(t) PROVE (weak' => WeakFlagOf(t)')
  BY <1>44 DEF ChangeMove, sidetable_moveExtraRC_nolock, SideOK, SplitOK
<1> QED
  BY <1>1, <1>2, <1>3, <1>4, <1>5, <1>6, <1>7, <1>8, <1>9, <1>10, <1>11,
      <1>12, <1>13, <1>14, <1>15, <1>16, <1>17, <1>18, <1>19, <1>20, <1>21,
      <1>22, <1>23, <1>24, <1>25, <1>26, <1>27, <1>28, <1>29, <1>30, <1>31,
      <1>32, <1>33, <1>34, <1>35, <1>36, <1>37, <1>38, <1>39, <1>40, <1>41,
      <1>42, <1>43, <1>44
  DEF Step, RetainStep, ReleaseStep, DeallocStep, FlagStep, ChangeStep

\* A weak variable is registered with the lock held.
LEMMA OnlyStoreWeakRegisters ==
    ASSUME NEW t \in Threads, Step(t), ~StoreWeak(t), weak'
    PROVE  weak
<1> USE DEF Side, Reload
<1>1. ASSUME Retain(t) PROVE weak
  BY <1>1 DEF Retain
<1>2. ASSUME LoadWeak(t) PROVE weak
  BY <1>2 DEF LoadWeak
<1>3. ASSUME TryRetainRaw(t) PROVE weak
  BY <1>3 DEF TryRetainRaw
<1>4. ASSUME RetainRaw(t) PROVE weak
  BY <1>4 DEF RetainRaw
<1>5. ASSUME RetainSeesDeallocating(t) PROVE weak
  BY <1>5 DEF RetainSeesDeallocating
<1>6. ASSUME RetainInline(t) PROVE weak
  BY <1>6 DEF RetainInline, RetainLoop
<1>7. ASSUME RetainOverflow(t) PROVE weak
  BY <1>7 DEF RetainOverflow, RetainLoop
<1>8. ASSUME RetainLock(t) PROVE weak
  BY <1>8 DEF RetainLock, RetainLoop
<1>9. ASSUME RetainSplit(t) PROVE weak
  BY <1>9 DEF RetainSplit, RetainLoop
<1>10. ASSUME RetainTranscribe(t) PROVE weak
  BY <1>10 DEF RetainTranscribe
<1>11. ASSUME RetainRetry(t) PROVE weak
  BY <1>11 DEF RetainRetry, RetainLoop
<1>12. ASSUME WeakLoaded(t) PROVE weak
  BY <1>12 DEF WeakLoaded
<1>13. ASSUME Release(t) PROVE weak
  BY <1>13 DEF Release
<1>14. ASSUME ReleaseRaw(t) PROVE weak
  BY <1>14 DEF ReleaseRaw, SendDealloc
<1>15. ASSUME ReleaseSeesDeallocating(t) PROVE weak
  BY <1>15 DEF ReleaseSeesDeallocating
<1>16. ASSUME ReleaseInline(t) PROVE weak
  BY <1>16 DEF ReleaseInline, ReleaseLoop
<1>17. ASSUME ReleaseUnderflow(t) PROVE weak
  BY <1>17 DEF ReleaseUnderflow, ReleaseLoop
<1>18. ASSUME ReleaseLock(t) PROVE weak
  BY <1>18 DEF ReleaseLock, ReleaseLoop
<1>19. ASSUME ReleaseBorrow(t) PROVE weak
  BY <1>19 DEF ReleaseBorrow, ReleaseLoop
<1>20. ASSUME BorrowStore(t) PROVE weak
  BY <1>20 DEF BorrowStore, StoreBorrowed
<1>21. ASSUME BorrowFailed(t) PROVE weak
  BY <1>21 DEF BorrowFailed
<1>22. ASSUME BorrowStoreAgain(t) PROVE weak
  BY <1>22 DEF BorrowStoreAgain, StoreBorrowed
<1>23. ASSUME BorrowFailedAgain(t) PROVE weak
  BY <1>23 DEF BorrowFailedAgain
<1>24. ASSUME BorrowPutBack(t) PROVE weak
  BY <1>24 DEF BorrowPutBack
<1>25. ASSUME BorrowStored(t) PROVE weak
  BY <1>25 DEF BorrowStored, SendDealloc
<1>26. ASSUME ReleaseRetry(t) PROVE weak
  BY <1>26 DEF ReleaseRetry, ReleaseLoop
<1>27. ASSUME ReleaseDeallocate(t) PROVE weak
  BY <1>27 DEF ReleaseDeallocate, SendDealloc
<1>28. ASSUME FastFree(t) PROVE weak
  BY <1>28 DEF FastFree
<1>29. ASSUME Destruct(t) PROVE weak
  BY <1>29 DEF Destruct
<1>30. ASSUME ClearRaw(t) PROVE weak
  BY <1>30 DEF ClearRaw
<1>31. ASSUME ClearNonpointer(t) PROVE weak
  BY <1>31 DEF ClearNonpointer
<1>32. ASSUME StoreWeak(t) PROVE weak
  BY <1>32 DEF StoreWeak
<1>33. ASSUME setWeaklyReferenced_nolock(t) PROVE weak
  BY <1>33 DEF setWeaklyReferenced_nolock
<1>34. ASSUME StoreWeakRetry(t) PROVE weak
  BY <1>34 DEF StoreWeakRetry
<1>35. ASSUME DestroyWeak(t) PROVE weak
  BY <1>35 DEF DestroyWeak
<1>36. ASSUME SetAssociation(t) PROVE weak
  BY <1>36 DEF SetAssociation
<1>37. ASSUME ClearAssociation(t) PROVE weak
  BY <1>37 DEF ClearAssociation
<1>38. ASSUME setHasAssociatedObjects(t) PROVE weak
  BY <1>38 DEF setHasAssociatedObjects
<1>39. ASSUME SetAssociationRetry(t) PROVE weak
  BY <1>39 DEF SetAssociationRetry
<1>40. ASSUME NEW l \in {"change", "changeRaw"}, SetClass(t, l) PROVE weak
  BY <1>40 DEF SetClass
<1>41. ASSUME ChangeLock(t) PROVE weak
  BY <1>41 DEF ChangeLock, Changing, ToRaw
<1>42. ASSUME ChangeStore(t) PROVE weak
  BY <1>42 DEF ChangeStore, Changing, ToRaw, ChangedIsa
<1>43. ASSUME ChangeRetry(t) PROVE weak
  BY <1>43 DEF ChangeRetry, Changing, ToRaw, ChangedIsa
<1>44. ASSUME ChangeMove(t) PROVE weak
  BY <1>44 DEF ChangeMove
<1> QED
  BY <1>1, <1>2, <1>3, <1>4, <1>5, <1>6, <1>7, <1>8, <1>9, <1>10, <1>11,
      <1>12, <1>13, <1>14, <1>15, <1>16, <1>17, <1>18, <1>19, <1>20, <1>21,
      <1>22, <1>23, <1>24, <1>25, <1>26, <1>27, <1>28, <1>29, <1>30, <1>31,
      <1>32, <1>33, <1>34, <1>35, <1>36, <1>37, <1>38, <1>39, <1>40, <1>41,
      <1>42, <1>43, <1>44
  DEF Step, RetainStep, ReleaseStep, DeallocStep, FlagStep, ChangeStep

\* The flag of an association is set, or about to be.
LEMMA AssocFlag ==
    ASSUME IInv, TypeOK', NEW t \in Threads, Step(t)
    PROVE  assoc' => \/ ~isa'.nonpointer \/ isa'.has_assoc
              \/ \E u \in Threads : pc'[u] = "setAssoc"
<1>h. /\ TypeOK /\ FramesOK /\ LockOK /\ SideOK /\ FlagsOK
      /\ BorrowOf(t) /\ OldIsaOf(t)
  BY DEF IInv, BorrowOK, OldIsaOK
<1>a. /\ pc[t] \in {"clearDealloc", "dealloc"} => \A u \in Threads : ~Holds(u)
      /\ \A u \in Threads : pc[u] \in {"setAssoc", "setWeak", "move"} => Holds(u)
      /\ \A u \in Threads : pc[u] = "clearDealloc" => ~Holds(t)
  <2>1. \A u \in Threads : pc[u] \in {"clearDealloc", "dealloc"} => Dying(u) BY DEF Dying
  <2>2. \A u, v \in Threads : Dying(u) => ~Holds(v) BY AliveFacts
  <2> QED BY <2>1, <2>2 DEF IInv, TokensOK
<1>u. \A u \in Threads \ {t} : /\ pc'[u] = pc[u] /\ oldisa'[u] = oldisa[u]
                               /\ tryRetain'[u] = tryRetain[u]
  BY OthersUntouched DEF IInv
<1>r. /\ ~isa.nonpointer => isa' = isa
      /\ isa'.nonpointer => /\ isa.weakly_referenced => isa'.weakly_referenced
                            /\ isa.has_assoc => isa'.has_assoc
  BY RawStaysRaw
<1> DEFINE G == assoc' => \/ ~isa'.nonpointer \/ isa'.has_assoc
              \/ \E u \in Threads : pc'[u] = "setAssoc"
<1> USE <1>h, <1>a, <1>u, <1>r, ConstantsAssumption DEF TypeOK, IsaWord,
    Entry, FramesOK, LockOK, HasLock, LockedPCs, SideOK, SplitOK, OldIsaOf,
    LoopPCs,
    Side, Find, NewEntry, NoEntry, FlagsOK, PCs, Goto, Load, Begin, End,
    Return, RRReturn, Reload, Lock, Unlock, UnlockIf, locals, SetCount,
    ChangedIsa
<1>1. ASSUME Retain(t) PROVE G
  BY <1>1 DEF Retain
<1>2. ASSUME LoadWeak(t) PROVE G
  BY <1>2 DEF LoadWeak
<1>3. ASSUME TryRetainRaw(t) PROVE G
  BY <1>3 DEF TryRetainRaw
<1>4. ASSUME RetainRaw(t) PROVE G
  BY <1>4 DEF RetainRaw
<1>5. ASSUME RetainSeesDeallocating(t) PROVE G
  BY <1>5 DEF RetainSeesDeallocating
<1>6. ASSUME RetainInline(t) PROVE G
  BY <1>6 DEF RetainInline, RetainLoop
<1>7. ASSUME RetainOverflow(t) PROVE G
  BY <1>7 DEF RetainOverflow, RetainLoop
<1>8. ASSUME RetainLock(t) PROVE G
  BY <1>8 DEF RetainLock, RetainLoop
<1>9. ASSUME RetainSplit(t) PROVE G
  BY <1>9 DEF RetainSplit, RetainLoop
<1>10. ASSUME RetainTranscribe(t) PROVE G
  BY <1>10 DEF RetainTranscribe
<1>11. ASSUME RetainRetry(t) PROVE G
  BY <1>11 DEF RetainRetry, RetainLoop
<1>12. ASSUME WeakLoaded(t) PROVE G
  BY <1>12 DEF WeakLoaded
<1>13. ASSUME Release(t) PROVE G
  BY <1>13 DEF Release
<1>14. ASSUME ReleaseRaw(t) PROVE G
  BY <1>14 DEF ReleaseRaw, SendDealloc
<1>15. ASSUME ReleaseSeesDeallocating(t) PROVE G
  BY <1>15 DEF ReleaseSeesDeallocating
<1>16. ASSUME ReleaseInline(t) PROVE G
  BY <1>16 DEF ReleaseInline, ReleaseLoop
<1>17. ASSUME ReleaseUnderflow(t) PROVE G
  BY <1>17 DEF ReleaseUnderflow, ReleaseLoop
<1>18. ASSUME ReleaseLock(t) PROVE G
  BY <1>18 DEF ReleaseLock, ReleaseLoop
<1>19. ASSUME ReleaseBorrow(t) PROVE G
  BY <1>19 DEF ReleaseBorrow, ReleaseLoop
<1>20. ASSUME BorrowStore(t) PROVE G
  BY <1>20 DEF BorrowStore, StoreBorrowed
<1>21. ASSUME BorrowFailed(t) PROVE G
  BY <1>21 DEF BorrowFailed
<1>22. ASSUME BorrowStoreAgain(t) PROVE G
  BY <1>22 DEF BorrowStoreAgain, StoreBorrowed
<1>23. ASSUME BorrowFailedAgain(t) PROVE G
  BY <1>23 DEF BorrowFailedAgain
<1>24. ASSUME BorrowPutBack(t) PROVE G
  BY <1>24 DEF BorrowPutBack
<1>25. ASSUME BorrowStored(t) PROVE G
  BY <1>25 DEF BorrowStored, SendDealloc
<1>26. ASSUME ReleaseRetry(t) PROVE G
  BY <1>26 DEF ReleaseRetry, ReleaseLoop
<1>27. ASSUME ReleaseDeallocate(t) PROVE G
  BY <1>27 DEF ReleaseDeallocate, SendDealloc
<1>28. ASSUME FastFree(t) PROVE G
  BY <1>28 DEF FastFree
<1>29. ASSUME Destruct(t) PROVE G
  BY <1>29 DEF Destruct
<1>30. ASSUME ClearRaw(t) PROVE G
  BY <1>30 DEF ClearRaw
<1>31. ASSUME ClearNonpointer(t) PROVE G
  BY <1>31 DEF ClearNonpointer
<1>32. ASSUME StoreWeak(t) PROVE G
  BY <1>32 DEF StoreWeak
<1>33. ASSUME setWeaklyReferenced_nolock(t) PROVE G
  BY <1>33 DEF setWeaklyReferenced_nolock
<1>34. ASSUME StoreWeakRetry(t) PROVE G
  BY <1>34 DEF StoreWeakRetry
<1>35. ASSUME DestroyWeak(t) PROVE G
  BY <1>35 DEF DestroyWeak
<1>36. ASSUME SetAssociation(t) PROVE G
  BY <1>36 DEF SetAssociation
<1>37. ASSUME ClearAssociation(t) PROVE G
  BY <1>37 DEF ClearAssociation
<1>38. ASSUME setHasAssociatedObjects(t) PROVE G
  BY <1>38 DEF setHasAssociatedObjects
<1>39. ASSUME SetAssociationRetry(t) PROVE G
  BY <1>39 DEF SetAssociationRetry
<1>40. ASSUME NEW l \in {"change", "changeRaw"}, SetClass(t, l) PROVE G
  BY <1>40 DEF SetClass
<1>41. ASSUME ChangeLock(t) PROVE G
  BY <1>41 DEF ChangeLock, Changing, ToRaw
<1>42. ASSUME ChangeStore(t) PROVE G
  BY <1>42 DEF ChangeStore, Changing, ToRaw, ChangedIsa
<1>43. ASSUME ChangeRetry(t) PROVE G
  BY <1>43 DEF ChangeRetry, Changing, ToRaw, ChangedIsa
<1>44. ASSUME ChangeMove(t) PROVE G
  BY <1>44 DEF ChangeMove
<1> QED
  BY <1>1, <1>2, <1>3, <1>4, <1>5, <1>6, <1>7, <1>8, <1>9, <1>10, <1>11,
      <1>12, <1>13, <1>14, <1>15, <1>16, <1>17, <1>18, <1>19, <1>20, <1>21,
      <1>22, <1>23, <1>24, <1>25, <1>26, <1>27, <1>28, <1>29, <1>30, <1>31,
      <1>32, <1>33, <1>34, <1>35, <1>36, <1>37, <1>38, <1>39, <1>40, <1>41,
      <1>42, <1>43, <1>44
  DEF Step, RetainStep, ReleaseStep, DeallocStep, FlagStep, ChangeStep

\* A weak variable that is being loaded stays registered.
LEMMA WeakWhileLoading ==
    ASSUME IInv, TypeOK', LockOK', NEW t \in Threads, Step(t)
    PROVE  \A u \in Threads : tryRetain'[u] => weak' 
<1>h. /\ TypeOK /\ FramesOK /\ LockOK /\ SideOK /\ FlagsOK
      /\ BorrowOf(t) /\ OldIsaOf(t)
  BY DEF IInv, BorrowOK, OldIsaOK
<1>a. /\ pc[t] \in {"clearDealloc", "dealloc"} => \A u \in Threads : ~Holds(u)
      /\ \A u \in Threads : pc[u] \in {"setAssoc", "setWeak", "move"} => Holds(u)
      /\ \A u \in Threads : pc[u] = "clearDealloc" => ~Holds(t)
  <2>1. \A u \in Threads : pc[u] \in {"clearDealloc", "dealloc"} => Dying(u) BY DEF Dying
  <2>2. \A u, v \in Threads : Dying(u) => ~Holds(v) BY AliveFacts
  <2> QED BY <2>1, <2>2 DEF IInv, TokensOK
<1>u. \A u \in Threads \ {t} : /\ pc'[u] = pc[u] /\ oldisa'[u] = oldisa[u]
                               /\ tryRetain'[u] = tryRetain[u]
  BY OthersUntouched DEF IInv
<1>r. /\ ~isa.nonpointer => isa' = isa
      /\ isa'.nonpointer => /\ isa.weakly_referenced => isa'.weakly_referenced
                            /\ isa.has_assoc => isa'.has_assoc
  BY RawStaysRaw
<1> DEFINE G == \A u \in Threads : tryRetain'[u] => weak' 
<1> USE <1>h, <1>a, <1>u, <1>r, ConstantsAssumption DEF TypeOK, IsaWord,
    Entry, FramesOK, LockOK, HasLock, LockedPCs, SideOK, SplitOK, OldIsaOf,
    LoopPCs,
    Side, Find, NewEntry, NoEntry, FlagsOK, PCs, Goto, Load, Begin, End,
    Return, RRReturn, Reload, Lock, Unlock, UnlockIf, locals
<1>1. ASSUME Retain(t) PROVE G
  BY <1>1 DEF Retain
<1>2. ASSUME LoadWeak(t) PROVE G
  BY <1>2 DEF LoadWeak
<1>3. ASSUME TryRetainRaw(t) PROVE G
  BY <1>3 DEF TryRetainRaw
<1>4. ASSUME RetainRaw(t) PROVE G
  BY <1>4 DEF RetainRaw
<1>5. ASSUME RetainSeesDeallocating(t) PROVE G
  BY <1>5 DEF RetainSeesDeallocating
<1>6. ASSUME RetainInline(t) PROVE G
  BY <1>6 DEF RetainInline, RetainLoop
<1>7. ASSUME RetainOverflow(t) PROVE G
  BY <1>7 DEF RetainOverflow, RetainLoop
<1>8. ASSUME RetainLock(t) PROVE G
  BY <1>8 DEF RetainLock, RetainLoop
<1>9. ASSUME RetainSplit(t) PROVE G
  BY <1>9 DEF RetainSplit, RetainLoop
<1>10. ASSUME RetainTranscribe(t) PROVE G
  BY <1>10 DEF RetainTranscribe
<1>11. ASSUME RetainRetry(t) PROVE G
  BY <1>11 DEF RetainRetry, RetainLoop
<1>12. ASSUME WeakLoaded(t) PROVE G
  BY <1>12 DEF WeakLoaded
<1>13. ASSUME Release(t) PROVE G
  BY <1>13 DEF Release
<1>14. ASSUME ReleaseRaw(t) PROVE G
  BY <1>14 DEF ReleaseRaw, SendDealloc
<1>15. ASSUME ReleaseSeesDeallocating(t) PROVE G
  BY <1>15 DEF ReleaseSeesDeallocating
<1>16. ASSUME ReleaseInline(t) PROVE G
  BY <1>16 DEF ReleaseInline, ReleaseLoop
<1>17. ASSUME ReleaseUnderflow(t) PROVE G
  BY <1>17 DEF ReleaseUnderflow, ReleaseLoop
<1>18. ASSUME ReleaseLock(t) PROVE G
  BY <1>18 DEF ReleaseLock, ReleaseLoop
<1>19. ASSUME ReleaseBorrow(t) PROVE G
  BY <1>19 DEF ReleaseBorrow, ReleaseLoop
<1>20. ASSUME BorrowStore(t) PROVE G
  BY <1>20 DEF BorrowStore, StoreBorrowed
<1>21. ASSUME BorrowFailed(t) PROVE G
  BY <1>21 DEF BorrowFailed
<1>22. ASSUME BorrowStoreAgain(t) PROVE G
  BY <1>22 DEF BorrowStoreAgain, StoreBorrowed
<1>23. ASSUME BorrowFailedAgain(t) PROVE G
  BY <1>23 DEF BorrowFailedAgain
<1>24. ASSUME BorrowPutBack(t) PROVE G
  BY <1>24 DEF BorrowPutBack
<1>25. ASSUME BorrowStored(t) PROVE G
  BY <1>25 DEF BorrowStored, SendDealloc
<1>26. ASSUME ReleaseRetry(t) PROVE G
  BY <1>26 DEF ReleaseRetry, ReleaseLoop
<1>27. ASSUME ReleaseDeallocate(t) PROVE G
  BY <1>27 DEF ReleaseDeallocate, SendDealloc
<1>28. ASSUME FastFree(t) PROVE G
  BY <1>28 DEF FastFree
<1>29. ASSUME Destruct(t) PROVE G
  BY <1>29 DEF Destruct
<1>30. ASSUME ClearRaw(t) PROVE G
  BY <1>30 DEF ClearRaw
<1>31. ASSUME ClearNonpointer(t) PROVE G
  BY <1>31 DEF ClearNonpointer
<1>32. ASSUME StoreWeak(t) PROVE G
  BY <1>32 DEF StoreWeak
<1>33. ASSUME setWeaklyReferenced_nolock(t) PROVE G
  BY <1>33 DEF setWeaklyReferenced_nolock
<1>34. ASSUME StoreWeakRetry(t) PROVE G
  BY <1>34 DEF StoreWeakRetry
<1>35. ASSUME DestroyWeak(t) PROVE G
  BY <1>35 DEF DestroyWeak
<1>36. ASSUME SetAssociation(t) PROVE G
  BY <1>36 DEF SetAssociation
<1>37. ASSUME ClearAssociation(t) PROVE G
  BY <1>37 DEF ClearAssociation
<1>38. ASSUME setHasAssociatedObjects(t) PROVE G
  BY <1>38 DEF setHasAssociatedObjects
<1>39. ASSUME SetAssociationRetry(t) PROVE G
  BY <1>39 DEF SetAssociationRetry
<1>40. ASSUME NEW l \in {"change", "changeRaw"}, SetClass(t, l) PROVE G
  BY <1>40 DEF SetClass
<1>41. ASSUME ChangeLock(t) PROVE G
  BY <1>41 DEF ChangeLock, Changing, ToRaw
<1>42. ASSUME ChangeStore(t) PROVE G
  BY <1>42 DEF ChangeStore, Changing, ToRaw, ChangedIsa
<1>43. ASSUME ChangeRetry(t) PROVE G
  BY <1>43 DEF ChangeRetry, Changing, ToRaw, ChangedIsa
<1>44. ASSUME ChangeMove(t) PROVE G
  BY <1>44 DEF ChangeMove
<1> QED
  BY <1>1, <1>2, <1>3, <1>4, <1>5, <1>6, <1>7, <1>8, <1>9, <1>10, <1>11,
      <1>12, <1>13, <1>14, <1>15, <1>16, <1>17, <1>18, <1>19, <1>20, <1>21,
      <1>22, <1>23, <1>24, <1>25, <1>26, <1>27, <1>28, <1>29, <1>30, <1>31,
      <1>32, <1>33, <1>34, <1>35, <1>36, <1>37, <1>38, <1>39, <1>40, <1>41,
      <1>42, <1>43, <1>44
  DEF Step, RetainStep, ReleaseStep, DeallocStep, FlagStep, ChangeStep

\* objc_destructInstance has removed the associations.
LEMMA AssocRemoved ==
    ASSUME IInv, TypeOK', NEW t \in Threads, Step(t)
    PROVE  \A u \in Threads : pc'[u] = "clearDealloc" => ~assoc' 
<1>h. /\ TypeOK /\ FramesOK /\ LockOK /\ SideOK /\ FlagsOK
      /\ BorrowOf(t) /\ OldIsaOf(t)
  BY DEF IInv, BorrowOK, OldIsaOK
<1>a. /\ pc[t] \in {"clearDealloc", "dealloc"} => \A u \in Threads : ~Holds(u)
      /\ \A u \in Threads : pc[u] \in {"setAssoc", "setWeak", "move"} => Holds(u)
      /\ \A u \in Threads : pc[u] = "clearDealloc" => ~Holds(t)
  <2>1. \A u \in Threads : pc[u] \in {"clearDealloc", "dealloc"} => Dying(u) BY DEF Dying
  <2>2. \A u, v \in Threads : Dying(u) => ~Holds(v) BY AliveFacts
  <2> QED BY <2>1, <2>2 DEF IInv, TokensOK
<1>u. \A u \in Threads \ {t} : /\ pc'[u] = pc[u] /\ oldisa'[u] = oldisa[u]
                               /\ tryRetain'[u] = tryRetain[u]
  BY OthersUntouched DEF IInv
<1>r. /\ ~isa.nonpointer => isa' = isa
      /\ isa'.nonpointer => /\ isa.weakly_referenced => isa'.weakly_referenced
                            /\ isa.has_assoc => isa'.has_assoc
  BY RawStaysRaw
<1> DEFINE G == \A u \in Threads : pc'[u] = "clearDealloc" => ~assoc' 
<1> USE <1>h, <1>a, <1>u, <1>r, ConstantsAssumption DEF TypeOK, IsaWord,
    Entry, FramesOK, LockOK, HasLock, LockedPCs, SideOK, SplitOK, OldIsaOf,
    LoopPCs,
    Side, Find, NewEntry, NoEntry, FlagsOK, PCs, Goto, Load, Begin, End,
    Return, RRReturn, Reload, Lock, Unlock, UnlockIf, locals, Holds, Owns
<1>1. ASSUME Retain(t) PROVE G
  BY <1>1 DEF Retain
<1>2. ASSUME LoadWeak(t) PROVE G
  BY <1>2 DEF LoadWeak
<1>3. ASSUME TryRetainRaw(t) PROVE G
  BY <1>3 DEF TryRetainRaw
<1>4. ASSUME RetainRaw(t) PROVE G
  BY <1>4 DEF RetainRaw
<1>5. ASSUME RetainSeesDeallocating(t) PROVE G
  BY <1>5 DEF RetainSeesDeallocating
<1>6. ASSUME RetainInline(t) PROVE G
  BY <1>6 DEF RetainInline, RetainLoop
<1>7. ASSUME RetainOverflow(t) PROVE G
  BY <1>7 DEF RetainOverflow, RetainLoop
<1>8. ASSUME RetainLock(t) PROVE G
  BY <1>8 DEF RetainLock, RetainLoop
<1>9. ASSUME RetainSplit(t) PROVE G
  BY <1>9 DEF RetainSplit, RetainLoop
<1>10. ASSUME RetainTranscribe(t) PROVE G
  BY <1>10 DEF RetainTranscribe
<1>11. ASSUME RetainRetry(t) PROVE G
  BY <1>11 DEF RetainRetry, RetainLoop
<1>12. ASSUME WeakLoaded(t) PROVE G
  BY <1>12 DEF WeakLoaded
<1>13. ASSUME Release(t) PROVE G
  BY <1>13 DEF Release
<1>14. ASSUME ReleaseRaw(t) PROVE G
  BY <1>14 DEF ReleaseRaw, SendDealloc
<1>15. ASSUME ReleaseSeesDeallocating(t) PROVE G
  BY <1>15 DEF ReleaseSeesDeallocating
<1>16. ASSUME ReleaseInline(t) PROVE G
  BY <1>16 DEF ReleaseInline, ReleaseLoop
<1>17. ASSUME ReleaseUnderflow(t) PROVE G
  BY <1>17 DEF ReleaseUnderflow, ReleaseLoop
<1>18. ASSUME ReleaseLock(t) PROVE G
  BY <1>18 DEF ReleaseLock, ReleaseLoop
<1>19. ASSUME ReleaseBorrow(t) PROVE G
  BY <1>19 DEF ReleaseBorrow, ReleaseLoop
<1>20. ASSUME BorrowStore(t) PROVE G
  BY <1>20 DEF BorrowStore, StoreBorrowed
<1>21. ASSUME BorrowFailed(t) PROVE G
  BY <1>21 DEF BorrowFailed
<1>22. ASSUME BorrowStoreAgain(t) PROVE G
  BY <1>22 DEF BorrowStoreAgain, StoreBorrowed
<1>23. ASSUME BorrowFailedAgain(t) PROVE G
  BY <1>23 DEF BorrowFailedAgain
<1>24. ASSUME BorrowPutBack(t) PROVE G
  BY <1>24 DEF BorrowPutBack
<1>25. ASSUME BorrowStored(t) PROVE G
  BY <1>25 DEF BorrowStored, SendDealloc
<1>26. ASSUME ReleaseRetry(t) PROVE G
  BY <1>26 DEF ReleaseRetry, ReleaseLoop
<1>27. ASSUME ReleaseDeallocate(t) PROVE G
  BY <1>27 DEF ReleaseDeallocate, SendDealloc
<1>28. ASSUME FastFree(t) PROVE G
  BY <1>28 DEF FastFree
<1>29. ASSUME Destruct(t) PROVE G
  BY <1>29 DEF Destruct
<1>30. ASSUME ClearRaw(t) PROVE G
  BY <1>30 DEF ClearRaw
<1>31. ASSUME ClearNonpointer(t) PROVE G
  BY <1>31 DEF ClearNonpointer
<1>32. ASSUME StoreWeak(t) PROVE G
  BY <1>32 DEF StoreWeak
<1>33. ASSUME setWeaklyReferenced_nolock(t) PROVE G
  BY <1>33 DEF setWeaklyReferenced_nolock
<1>34. ASSUME StoreWeakRetry(t) PROVE G
  BY <1>34 DEF StoreWeakRetry
<1>35. ASSUME DestroyWeak(t) PROVE G
  BY <1>35 DEF DestroyWeak
<1>36. ASSUME SetAssociation(t) PROVE G
  BY <1>36 DEF SetAssociation
<1>37. ASSUME ClearAssociation(t) PROVE G
  BY <1>37 DEF ClearAssociation
<1>38. ASSUME setHasAssociatedObjects(t) PROVE G
  BY <1>38 DEF setHasAssociatedObjects
<1>39. ASSUME SetAssociationRetry(t) PROVE G
  BY <1>39 DEF SetAssociationRetry
<1>40. ASSUME NEW l \in {"change", "changeRaw"}, SetClass(t, l) PROVE G
  BY <1>40 DEF SetClass
<1>41. ASSUME ChangeLock(t) PROVE G
  BY <1>41 DEF ChangeLock, Changing, ToRaw
<1>42. ASSUME ChangeStore(t) PROVE G
  BY <1>42 DEF ChangeStore, Changing, ToRaw, ChangedIsa
<1>43. ASSUME ChangeRetry(t) PROVE G
  BY <1>43 DEF ChangeRetry, Changing, ToRaw, ChangedIsa
<1>44. ASSUME ChangeMove(t) PROVE G
  BY <1>44 DEF ChangeMove
<1> QED
  BY <1>1, <1>2, <1>3, <1>4, <1>5, <1>6, <1>7, <1>8, <1>9, <1>10, <1>11,
      <1>12, <1>13, <1>14, <1>15, <1>16, <1>17, <1>18, <1>19, <1>20, <1>21,
      <1>22, <1>23, <1>24, <1>25, <1>26, <1>27, <1>28, <1>29, <1>30, <1>31,
      <1>32, <1>33, <1>34, <1>35, <1>36, <1>37, <1>38, <1>39, <1>40, <1>41,
      <1>42, <1>43, <1>44
  DEF Step, RetainStep, ReleaseStep, DeallocStep, FlagStep, ChangeStep

\* Every step leaves weak variables and associations flagged where -dealloc looks.
LEMMA FlagsStep ==
    ASSUME IInv, TypeOK', LockOK', NEW t \in Threads, Step(t)
    PROVE  FlagsOK'
<1>h. TypeOK /\ LockOK /\ FlagsOK BY DEF IInv
<1> DEFINE W == \/ isa.nonpointer /\ isa.weakly_referenced
                \/ ~isa.nonpointer /\ refcnts.weakly_referenced
                \/ lock # NoThread /\ pc[lock] = "setWeak"
                \/ lock # NoThread /\ pc[lock] = "move"
                      /\ oldisa[lock].weakly_referenced
<1>1. CASE lock \in {t, NoThread}
  <2> SUFFICES ASSUME weak' PROVE W'
    BY AssocFlag, WeakWhileLoading, AssocRemoved DEF FlagsOK
  <2>1. WeakFlagOf(t)' BY <1>1, WeakFlagSelf
  <2>2. pc'[t] \in {"setWeak", "move"} => lock' = t BY DEF LockOK, HasLock,
      LockedPCs
  <2> QED BY <2>1, <2>2, ConstantsAssumption DEF WeakFlagOf
<1>2. CASE lock \notin {t, NoThread}
  <2> SUFFICES ASSUME weak' PROVE W'
    BY AssocFlag, WeakWhileLoading, AssocRemoved DEF FlagsOK
  <2>1. lock \in Threads /\ lock # t BY <1>h, <1>2 DEF TypeOK
  <2>2. weak BY <2>1, OnlyStoreWeakRegisters,
      ConstantsAssumption DEF StoreWeak, Lock
  <2>3. W BY <1>h, <2>2 DEF FlagsOK
  <2>4. lock' = lock /\ refcnts' = refcnts /\ isa'.nonpointer = isa.nonpointer
    BY <2>1, HolderSees
  <2>5. pc'[lock] = pc[lock] /\ oldisa'[lock] = oldisa[lock]
    BY <1>h, <2>1, OthersUntouched
  <2>6. isa'.nonpointer => (isa.weakly_referenced => isa'.weakly_referenced)
    BY RawStaysRaw
  <2> QED BY <2>3, <2>4, <2>5, <2>6
<1> QED BY <1>1, <1>2

-----------------------------------------------------------------------------
(* free().                                                                 *)

\* An association is made by objc_setAssociatedObject only.
LEMMA OnlySetAssociationAssociates ==
    ASSUME NEW t \in Threads, Step(t), ~SetAssociation(t), assoc'
    PROVE  assoc
<1> USE DEF Side, Reload
<1>1. ASSUME Retain(t) PROVE assoc
  BY <1>1 DEF Retain
<1>2. ASSUME LoadWeak(t) PROVE assoc
  BY <1>2 DEF LoadWeak
<1>3. ASSUME TryRetainRaw(t) PROVE assoc
  BY <1>3 DEF TryRetainRaw
<1>4. ASSUME RetainRaw(t) PROVE assoc
  BY <1>4 DEF RetainRaw
<1>5. ASSUME RetainSeesDeallocating(t) PROVE assoc
  BY <1>5 DEF RetainSeesDeallocating
<1>6. ASSUME RetainInline(t) PROVE assoc
  BY <1>6 DEF RetainInline, RetainLoop
<1>7. ASSUME RetainOverflow(t) PROVE assoc
  BY <1>7 DEF RetainOverflow, RetainLoop
<1>8. ASSUME RetainLock(t) PROVE assoc
  BY <1>8 DEF RetainLock, RetainLoop
<1>9. ASSUME RetainSplit(t) PROVE assoc
  BY <1>9 DEF RetainSplit, RetainLoop
<1>10. ASSUME RetainTranscribe(t) PROVE assoc
  BY <1>10 DEF RetainTranscribe
<1>11. ASSUME RetainRetry(t) PROVE assoc
  BY <1>11 DEF RetainRetry, RetainLoop
<1>12. ASSUME WeakLoaded(t) PROVE assoc
  BY <1>12 DEF WeakLoaded
<1>13. ASSUME Release(t) PROVE assoc
  BY <1>13 DEF Release
<1>14. ASSUME ReleaseRaw(t) PROVE assoc
  BY <1>14 DEF ReleaseRaw, SendDealloc
<1>15. ASSUME ReleaseSeesDeallocating(t) PROVE assoc
  BY <1>15 DEF ReleaseSeesDeallocating
<1>16. ASSUME ReleaseInline(t) PROVE assoc
  BY <1>16 DEF ReleaseInline, ReleaseLoop
<1>17. ASSUME ReleaseUnderflow(t) PROVE assoc
  BY <1>17 DEF ReleaseUnderflow, ReleaseLoop
<1>18. ASSUME ReleaseLock(t) PROVE assoc
  BY <1>18 DEF ReleaseLock, ReleaseLoop
<1>19. ASSUME ReleaseBorrow(t) PROVE assoc
  BY <1>19 DEF ReleaseBorrow, ReleaseLoop
<1>20. ASSUME BorrowStore(t) PROVE assoc
  BY <1>20 DEF BorrowStore, StoreBorrowed
<1>21. ASSUME BorrowFailed(t) PROVE assoc
  BY <1>21 DEF BorrowFailed
<1>22. ASSUME BorrowStoreAgain(t) PROVE assoc
  BY <1>22 DEF BorrowStoreAgain, StoreBorrowed
<1>23. ASSUME BorrowFailedAgain(t) PROVE assoc
  BY <1>23 DEF BorrowFailedAgain
<1>24. ASSUME BorrowPutBack(t) PROVE assoc
  BY <1>24 DEF BorrowPutBack
<1>25. ASSUME BorrowStored(t) PROVE assoc
  BY <1>25 DEF BorrowStored, SendDealloc
<1>26. ASSUME ReleaseRetry(t) PROVE assoc
  BY <1>26 DEF ReleaseRetry, ReleaseLoop
<1>27. ASSUME ReleaseDeallocate(t) PROVE assoc
  BY <1>27 DEF ReleaseDeallocate, SendDealloc
<1>28. ASSUME FastFree(t) PROVE assoc
  BY <1>28 DEF FastFree
<1>29. ASSUME Destruct(t) PROVE assoc
  BY <1>29 DEF Destruct
<1>30. ASSUME ClearRaw(t) PROVE assoc
  BY <1>30 DEF ClearRaw
<1>31. ASSUME ClearNonpointer(t) PROVE assoc
  BY <1>31 DEF ClearNonpointer
<1>32. ASSUME StoreWeak(t) PROVE assoc
  BY <1>32 DEF StoreWeak
<1>33. ASSUME setWeaklyReferenced_nolock(t) PROVE assoc
  BY <1>33 DEF setWeaklyReferenced_nolock
<1>34. ASSUME StoreWeakRetry(t) PROVE assoc
  BY <1>34 DEF StoreWeakRetry
<1>35. ASSUME DestroyWeak(t) PROVE assoc
  BY <1>35 DEF DestroyWeak
<1>36. ASSUME SetAssociation(t) PROVE assoc
  BY <1>36 DEF SetAssociation
<1>37. ASSUME ClearAssociation(t) PROVE assoc
  BY <1>37 DEF ClearAssociation
<1>38. ASSUME setHasAssociatedObjects(t) PROVE assoc
  BY <1>38 DEF setHasAssociatedObjects
<1>39. ASSUME SetAssociationRetry(t) PROVE assoc
  BY <1>39 DEF SetAssociationRetry
<1>40. ASSUME NEW l \in {"change", "changeRaw"}, SetClass(t, l) PROVE assoc
  BY <1>40 DEF SetClass
<1>41. ASSUME ChangeLock(t) PROVE assoc
  BY <1>41 DEF ChangeLock, Changing, ToRaw
<1>42. ASSUME ChangeStore(t) PROVE assoc
  BY <1>42 DEF ChangeStore, Changing, ToRaw, ChangedIsa
<1>43. ASSUME ChangeRetry(t) PROVE assoc
  BY <1>43 DEF ChangeRetry, Changing, ToRaw, ChangedIsa
<1>44. ASSUME ChangeMove(t) PROVE assoc
  BY <1>44 DEF ChangeMove
<1> QED
  BY <1>1, <1>2, <1>3, <1>4, <1>5, <1>6, <1>7, <1>8, <1>9, <1>10, <1>11,
      <1>12, <1>13, <1>14, <1>15, <1>16, <1>17, <1>18, <1>19, <1>20, <1>21,
      <1>22, <1>23, <1>24, <1>25, <1>26, <1>27, <1>28, <1>29, <1>30, <1>31,
      <1>32, <1>33, <1>34, <1>35, <1>36, <1>37, <1>38, <1>39, <1>40, <1>41,
      <1>42, <1>43, <1>44
  DEF Step, RetainStep, ReleaseStep, DeallocStep, FlagStep, ChangeStep

\* These three steps end in free().
LEMMA OnlyTheseFree ==
    ASSUME NEW t \in Threads, Step(t), freed', ~freed
    PROVE  FastFree(t) \/ ClearRaw(t) \/ ClearNonpointer(t)
<1> DEFINE G == FastFree(t) \/ ClearRaw(t) \/ ClearNonpointer(t)
<1> USE DEF Fate, Reload
<1>1. ASSUME Retain(t) PROVE G
  BY <1>1 DEF Retain
<1>2. ASSUME LoadWeak(t) PROVE G
  BY <1>2 DEF LoadWeak
<1>3. ASSUME TryRetainRaw(t) PROVE G
  BY <1>3 DEF TryRetainRaw
<1>4. ASSUME RetainRaw(t) PROVE G
  BY <1>4 DEF RetainRaw
<1>5. ASSUME RetainSeesDeallocating(t) PROVE G
  BY <1>5 DEF RetainSeesDeallocating
<1>6. ASSUME RetainInline(t) PROVE G
  BY <1>6 DEF RetainInline, RetainLoop
<1>7. ASSUME RetainOverflow(t) PROVE G
  BY <1>7 DEF RetainOverflow, RetainLoop
<1>8. ASSUME RetainLock(t) PROVE G
  BY <1>8 DEF RetainLock, RetainLoop
<1>9. ASSUME RetainSplit(t) PROVE G
  BY <1>9 DEF RetainSplit, RetainLoop
<1>10. ASSUME RetainTranscribe(t) PROVE G
  BY <1>10 DEF RetainTranscribe
<1>11. ASSUME RetainRetry(t) PROVE G
  BY <1>11 DEF RetainRetry, RetainLoop
<1>12. ASSUME WeakLoaded(t) PROVE G
  BY <1>12 DEF WeakLoaded
<1>13. ASSUME Release(t) PROVE G
  BY <1>13 DEF Release
<1>14. ASSUME ReleaseRaw(t) PROVE G
  BY <1>14 DEF ReleaseRaw, SendDealloc
<1>15. ASSUME ReleaseSeesDeallocating(t) PROVE G
  BY <1>15 DEF ReleaseSeesDeallocating
<1>16. ASSUME ReleaseInline(t) PROVE G
  BY <1>16 DEF ReleaseInline, ReleaseLoop
<1>17. ASSUME ReleaseUnderflow(t) PROVE G
  BY <1>17 DEF ReleaseUnderflow, ReleaseLoop
<1>18. ASSUME ReleaseLock(t) PROVE G
  BY <1>18 DEF ReleaseLock, ReleaseLoop
<1>19. ASSUME ReleaseBorrow(t) PROVE G
  BY <1>19 DEF ReleaseBorrow, ReleaseLoop
<1>20. ASSUME BorrowStore(t) PROVE G
  BY <1>20 DEF BorrowStore, StoreBorrowed
<1>21. ASSUME BorrowFailed(t) PROVE G
  BY <1>21 DEF BorrowFailed
<1>22. ASSUME BorrowStoreAgain(t) PROVE G
  BY <1>22 DEF BorrowStoreAgain, StoreBorrowed
<1>23. ASSUME BorrowFailedAgain(t) PROVE G
  BY <1>23 DEF BorrowFailedAgain
<1>24. ASSUME BorrowPutBack(t) PROVE G
  BY <1>24 DEF BorrowPutBack
<1>25. ASSUME BorrowStored(t) PROVE G
  BY <1>25 DEF BorrowStored, SendDealloc
<1>26. ASSUME ReleaseRetry(t) PROVE G
  BY <1>26 DEF ReleaseRetry, ReleaseLoop
<1>27. ASSUME ReleaseDeallocate(t) PROVE G
  BY <1>27 DEF ReleaseDeallocate, SendDealloc
<1>28. ASSUME FastFree(t) PROVE G
  BY <1>28 DEF FastFree
<1>29. ASSUME Destruct(t) PROVE G
  BY <1>29 DEF Destruct
<1>30. ASSUME ClearRaw(t) PROVE G
  BY <1>30 DEF ClearRaw
<1>31. ASSUME ClearNonpointer(t) PROVE G
  BY <1>31 DEF ClearNonpointer
<1>32. ASSUME StoreWeak(t) PROVE G
  BY <1>32 DEF StoreWeak
<1>33. ASSUME setWeaklyReferenced_nolock(t) PROVE G
  BY <1>33 DEF setWeaklyReferenced_nolock
<1>34. ASSUME StoreWeakRetry(t) PROVE G
  BY <1>34 DEF StoreWeakRetry
<1>35. ASSUME DestroyWeak(t) PROVE G
  BY <1>35 DEF DestroyWeak
<1>36. ASSUME SetAssociation(t) PROVE G
  BY <1>36 DEF SetAssociation
<1>37. ASSUME ClearAssociation(t) PROVE G
  BY <1>37 DEF ClearAssociation
<1>38. ASSUME setHasAssociatedObjects(t) PROVE G
  BY <1>38 DEF setHasAssociatedObjects
<1>39. ASSUME SetAssociationRetry(t) PROVE G
  BY <1>39 DEF SetAssociationRetry
<1>40. ASSUME NEW l \in {"change", "changeRaw"}, SetClass(t, l) PROVE G
  BY <1>40 DEF SetClass
<1>41. ASSUME ChangeLock(t) PROVE G
  BY <1>41 DEF ChangeLock, Changing, ToRaw
<1>42. ASSUME ChangeStore(t) PROVE G
  BY <1>42 DEF ChangeStore, Changing, ToRaw, ChangedIsa
<1>43. ASSUME ChangeRetry(t) PROVE G
  BY <1>43 DEF ChangeRetry, Changing, ToRaw, ChangedIsa
<1>44. ASSUME ChangeMove(t) PROVE G
  BY <1>44 DEF ChangeMove
<1> QED
  BY <1>1, <1>2, <1>3, <1>4, <1>5, <1>6, <1>7, <1>8, <1>9, <1>10, <1>11,
      <1>12, <1>13, <1>14, <1>15, <1>16, <1>17, <1>18, <1>19, <1>20, <1>21,
      <1>22, <1>23, <1>24, <1>25, <1>26, <1>27, <1>28, <1>29, <1>30, <1>31,
      <1>32, <1>33, <1>34, <1>35, <1>36, <1>37, <1>38, <1>39, <1>40, <1>41,
      <1>42, <1>43, <1>44
  DEF Step, RetainStep, ReleaseStep, DeallocStep, FlagStep, ChangeStep

\* When the object is freed and after, nothing is left under its address.
LEMMA NothingLeftStep ==
    ASSUME IInv, TypeOK', SideOK', NEW t \in Threads, Step(t)
    PROVE  NothingLeftBehind'
<1> SUFFICES ASSUME freed' PROVE ~weak' /\ ~assoc' /\ (lock' = NoThread => ~refcnts'.present)
  BY DEF NothingLeftBehind
<1>h. TypeOK /\ SideOK /\ FlagsOK /\ NothingLeftBehind /\ NoUseAfterFree BY DEF IInv
<1>1. lock' = NoThread => ~refcnts'.present
  <2>1. CASE ~isa'.nonpointer BY <2>1 DEF SideOK, SplitOK, NoEntry
  <2>2. CASE isa'.nonpointer
    <3>1. ~isa'.has_sidetable_rc /\ SplitOK' BY <2>2 DEF SideOK, SplitOK
    <3>2. ASSUME lock' = NoThread PROVE SideCount' = refcnts'.rc
      BY <3>2 DEF SideCount, TypeOK, Entry
    <3>3. refcnts'.rc \in Nat BY <2>2, <3>1, HalfFacts DEF SplitOK, TypeOK,
        Entry
    <3> QED BY <2>2, <3>1, <3>2, <3>3 DEF SplitOK
  <2> QED BY <2>1, <2>2
<1>2. CASE freed
  <2>1. ~Holds(t) /\ ~weak /\ ~assoc /\ pc[t] \in NotTouching
    BY <1>h, <1>2, AliveFacts DEF NothingLeftBehind, NoUseAfterFree
  <2>2. ~weak' BY <2>1, OnlyStoreWeakRegisters DEF StoreWeak
  <2>3. ~assoc'
    <3>1. ~SetAssociation(t) BY <2>1 DEF SetAssociation
    <3> QED BY <2>1, <3>1, OnlySetAssociationAssociates
  <2> QED BY <1>1, <2>2, <2>3
<1>3. CASE ~freed
  <2>1. FastFree(t) \/ ClearRaw(t) \/ ClearNonpointer(t)
    BY <1>3, OnlyTheseFree
  <2>2. Dying(t) /\ pc[t] \in {"dealloc", "clearDealloc"}
    BY <2>1 DEF FastFree, ClearRaw, ClearNonpointer, Dying
  <2>3. \A u \in Threads : ~Holds(u)
    BY <2>2, AliveFacts
  <2>4. \A u \in Threads : pc[u] \notin {"setWeak", "setAssoc", "move"}
    BY <2>3 DEF IInv, TokensOK
  <2>5. weak => \/ isa.nonpointer /\ isa.weakly_referenced
                \/ ~isa.nonpointer /\ refcnts.weakly_referenced
    BY <1>h, <2>4 DEF FlagsOK, TypeOK
  <2>6. assoc => ~isa.nonpointer \/ isa.has_assoc BY <1>h, <2>4 DEF FlagsOK
  <2>7. ~weak' BY <2>1, <2>5 DEF FastFree, ClearRaw, ClearNonpointer, Side
  <2>8. ~assoc' BY <1>h, <2>1, <2>6 DEF FastFree, ClearRaw, ClearNonpointer,
      Side, FlagsOK
  <2> QED BY <1>1, <2>7, <2>8
<1> QED BY <1>2, <1>3

\* Who may still be in a call when the object is freed.
LEMMA UseStep ==
    ASSUME IInv, DeathOK', TokensOK', FramesOK', BorrowOK', FlagsOK', TypeOK',
           NothingLeftBehind'
    PROVE  NoUseAfterFree'
<1> SUFFICES ASSUME freed', NEW u \in Threads PROVE pc'[u] \in NotTouching
  BY DEF NoUseAfterFree
<1>1. Live' = {} /\ ~Dying(u)' BY DEF DeathOK
<1>2. ASSUME NEW r \in Refs PROVE owner'[r] # u BY <1>1,
    ConstantsAssumption DEF Live
<1>3. ~tryRetain'[u] BY DEF FlagsOK, NothingLeftBehind
<1> QED
  BY <1>1, <1>2, <1>3, ConstantsAssumption
  DEF TokensOK, Dying, FramesOK, BorrowOK, BorrowOf, NotTouching, TypeOK, PCs,
      Holds, Owns

-----------------------------------------------------------------------------
(* The invariant.                                                          *)

\* A step of a thread inside the runtime keeps every part.
LEMMA StepInv == ASSUME IInv, OneSetter, NEW t \in Threads, Step(t) PROVE IInv'
<1>1. TypeOK' BY TypeStep DEF IInv
<1>2. FramesOK' BY <1>1, FramesStep
<1>3. LockOK' BY <1>1, LockStep
<1>4. TokensOK' BY <1>1, TokensStep
<1>5. BorrowOK' BY BorrowStep
<1>6. OldIsaOK' BY <1>1, OldIsaStep
<1>7. SideOK' BY <1>1, SideStep
<1>8. CountMatchesReferences' BY <1>1, CountStep
<1>9. DeathOK' BY <1>1, <1>5, <1>7, <1>8, DeathStep
<1>10. FlagsOK' BY <1>1, <1>3, FlagsStep
<1>11. NothingLeftBehind' BY <1>1, <1>7, NothingLeftStep
<1>12. NoUseAfterFree'
  BY <1>1, <1>2, <1>4, <1>5, <1>9, <1>10, <1>11, UseStep
<1> QED
  BY <1>1, <1>2, <1>3, <1>4, <1>5, <1>6, <1>7, <1>8, <1>9, <1>10, <1>11, <1>12
  DEF IInv

\* So does the program when it hands a reference to another thread.
LEMMA HandoffInv ==
    ASSUME IInv, NEW t \in Threads, NEW u \in Threads \ {t}, Handoff(t, u),
    TypeOK'
    PROVE  IInv'
<1>u. UNCHANGED <<isa, lock, refcnts, weak, assoc, pc, tryRetain, full, locked,
                  oldisa, newisa, ref, deallocs, freed, crashed>>
  BY DEF Handoff, Side, locals, Fate
<1>t. TypeOK BY DEF IInv
<1>1. PICK r \in Refs : Owns(t, r) /\ owner' = [owner EXCEPT ![r] = u]
  BY DEF Handoff
<1>2. Live' = Live BY <1>t, <1>1, ConstantsAssumption DEF Live, Owns, TypeOK
<1>3. FramesOK' BY <1>u DEF IInv, FramesOK
<1>4. LockOK' BY <1>u DEF IInv, LockOK, HasLock
<1>5. TokensOK'
  <2>1. pc[t] = "idle" /\ owner[r] = t BY <1>1 DEF Handoff, Owns
  <2>2. ASSUME NEW v \in Threads, v # t, Holds(v) PROVE Holds(v)'
    BY <1>t, <1>1, <2>1, <2>2 DEF Holds, Owns, TypeOK
  <2>3. ASSUME NEW q \in Refs, q # r PROVE owner'[q] = owner[q]
    BY <1>t, <1>1, <2>3 DEF TypeOK
  <2>4. \A v \in Threads : ref[v] # NoRef => ref[v] \in Refs BY <1>t DEF TypeOK
  <2> QED
    BY <1>u, <2>1, <2>2, <2>3, <2>4, ConstantsAssumption DEF IInv, TokensOK
<1>6. DeathOK' BY <1>u, <1>2 DEF IInv, DeathOK, Dying, Pinned
<1>7. OldIsaOK' BY <1>u DEF IInv, OldIsaOK, OldIsaOf, Fresh, HasLock
<1>8. BorrowOK' BY <1>u DEF IInv, BorrowOK, BorrowOf
<1>9. SideCount' = SideCount /\ (Moving' <=> Moving)
  BY <1>u DEF SideCount, Moving, InFlight
<1>10. SideOK' BY <1>u, <1>9 DEF IInv, SideOK, SplitOK
<1>11. FlagsOK' BY <1>u DEF IInv, FlagsOK
<1>12. CountMatchesReferences'
  <2>1. RetainCount' = RetainCount BY <1>u, <1>9 DEF RetainCount
  <2> QED BY <1>u, <1>2, <2>1 DEF IInv, CountMatchesReferences, Pinned
<1>13. NoUseAfterFree' /\ NothingLeftBehind'
  BY <1>u DEF IInv, NoUseAfterFree, NothingLeftBehind
<1> QED
  BY <1>3, <1>4, <1>5, <1>6, <1>7, <1>8, <1>10, <1>11, <1>12, <1>13 DEF IInv

\* A new object satisfies it.
LEMMA InitInv == Init => IInv
<1> SUFFICES ASSUME Init PROVE IInv OBVIOUS
<1>1. TypeOK BY TypeInit
<1>2. PICK r \in Refs, t \in Threads :
         owner = [q \in Refs |-> IF q = r THEN t ELSE NoThread]
  BY DEF Init
<1>3. Live = {r} BY <1>2, ConstantsAssumption DEF Live
<1>4. Cardinality(Live) = 1 BY <1>3, FS_Singleton
<1>5. SideCount = 0 /\ ~Moving
  BY ConstantsAssumption DEF Init, SideCount, Moving, NoEntry
<1>6. FramesOK /\ LockOK /\ BorrowOK
  BY DEF Init, FramesOK, LockOK, HasLock, LockedPCs, BorrowOK, BorrowOf
<1>7. OldIsaOK BY DEF Init, OldIsaOK, OldIsaOf, Fresh, LoopPCs, HasLock
<1>8. TokensOK /\ DeathOK
  <2>1. TokensOK BY DEF Init, TokensOK
  <2>2. DeathOK BY <1>3 DEF Init, DeathOK, Dying
  <2> QED BY <2>1, <2>2
<1>9. SideOK
  BY <1>5, HalfFacts DEF Init, SideOK, SplitOK, NoEntry, InitIsa, RawIsa
<1>10. FlagsOK /\ NoUseAfterFree /\ NothingLeftBehind
  BY DEF Init, FlagsOK, NoUseAfterFree, NothingLeftBehind
<1>11. RetainCount = 1
  BY <1>5 DEF Init, RetainCount, InitIsa, RawIsa, NoEntry
<1>12. CountMatchesReferences BY <1>4, <1>11 DEF CountMatchesReferences
<1> QED BY <1>1, <1>6, <1>7, <1>8, <1>9, <1>10, <1>12 DEF IInv

\* So every step keeps it.
LEMMA NextInv == OneSetter /\ IInv /\ [Next]_vars => IInv'
<1> SUFFICES ASSUME OneSetter, IInv, [Next]_vars PROVE IInv' OBVIOUS
<1>1. CASE UNCHANGED vars
  <2> USE <1>1 DEF vars, locals
  <2>1. TypeOK' /\ FramesOK' /\ LockOK' /\ TokensOK' /\ BorrowOK'
    BY DEF IInv, TypeOK, FramesOK, LockOK, HasLock, TokensOK, Holds, Owns,
        BorrowOK, BorrowOf
  <2>2. OldIsaOK' BY DEF IInv, OldIsaOK, OldIsaOf, Fresh, HasLock
  <2>3. Live' = Live BY DEF Live
  <2>4. DeathOK' BY <2>3 DEF IInv, DeathOK, Dying, Pinned
  <2>5. SideCount' = SideCount /\ (Moving' <=> Moving)
    BY DEF SideCount, Moving, InFlight
  <2>6. SideOK' /\ FlagsOK' BY <2>5 DEF IInv, SideOK, SplitOK, FlagsOK
  <2>7. RetainCount' = RetainCount BY <2>5 DEF RetainCount
  <2>8. CountMatchesReferences'
    BY <2>3, <2>7 DEF IInv, CountMatchesReferences, Pinned
  <2>9. NoUseAfterFree' /\ NothingLeftBehind'
    BY DEF IInv, NoUseAfterFree, NothingLeftBehind
  <2> QED BY <2>1, <2>2, <2>4, <2>6, <2>8, <2>9 DEF IInv
<1>2. ASSUME NEW t \in Threads, Step(t) PROVE IInv' BY <1>2, StepInv
<1>3. ASSUME NEW t \in Threads, NEW u \in Threads \ {t},
    Handoff(t, u) PROVE IInv'
  <2>1. TypeOK' BY TypeNext, <1>3 DEF IInv, Next
  <2> QED BY <1>3, <2>1, HandoffInv
<1> QED BY <1>1, <1>2, <1>3 DEF Next

\* What the parts say together about the runs' properties.
LEMMA InvImplies == IInv => CountsSound /\ DeallocOnce /\ NoUseAfterFree /\ NothingLeftBehind
<1> SUFFICES ASSUME IInv
             PROVE  CountsSound /\ DeallocOnce /\ NoUseAfterFree /\ NothingLeftBehind
  OBVIOUS
<1>1. CountsSound BY BorrowHasCounts DEF CountsSound
<1>2. DeallocOnce
  <2>1. deallocs <= 1 BY DEF IInv, DeathOK
  <2>2. deallocs = 1 => Live = {} BY DEF IInv, DeathOK
  <2> QED BY <2>1, <2>2 DEF DeallocOnce
<1> QED BY <1>1, <1>2 DEF IInv

-----------------------------------------------------------------------------
(* The theorems.                                                           *)

\* If at most one thread calls object_setClass on the object, the inductive
\* invariant holds, and with it: rootRetain, rootRelease and changeIsa never
\* lose a reference or count one twice, wherever the counts are (inline, in
\* the side table, or on the way between them), and an underflow that has the
\* lock always finds counts to borrow.
THEOREM CountsAreSound == ASSUME OneSetter PROVE Spec => []CountsSound
<1>1. Init => IInv BY InitInv
<1>2. IInv /\ [Next]_vars => IInv' BY NextInv
<1>3. IInv => CountsSound BY InvImplies
<1> QED BY <1>1, <1>2, <1>3, PTL DEF Spec

\* However releases, weak loads and -dealloc's own retains race, -dealloc is
\* sent at most once, and only to an object nobody owns.
THEOREM DeallocatedOnce == ASSUME OneSetter PROVE Spec => []DeallocOnce
<1>1. Init => IInv BY InitInv
<1>2. IInv /\ [Next]_vars => IInv' BY NextInv
<1>3. IInv => DeallocOnce BY InvImplies
<1> QED BY <1>1, <1>2, <1>3, PTL DEF Spec

\* When rootDealloc or object_dispose frees the object, no thread is in a
\* call that still reads or writes its isa.
THEOREM NobodyUsesFreed == ASSUME OneSetter PROVE Spec => []NoUseAfterFree
<1>1. Init => IInv BY InitInv
<1>2. IInv /\ [Next]_vars => IInv' BY NextInv
<1>3. IInv => NoUseAfterFree BY InvImplies
<1> QED BY <1>1, <1>2, <1>3, PTL DEF Spec

\* A freed object leaves no weak variable registered, no association and no
\* side table entry under its address.
THEOREM FreedLeavesNothing == ASSUME OneSetter PROVE Spec => []NothingLeftBehind
<1>1. Init => IInv BY InitInv
<1>2. IInv /\ [Next]_vars => IInv' BY NextInv
<1>3. IInv => NothingLeftBehind BY InvImplies
<1> QED BY <1>1, <1>2, <1>3, PTL DEF Spec

-----------------------------------------------------------------------------
(* The two words implement the counter of AbstractRefCount.                *)

\* Without object_setClass an entry is pinned only by a release that -dealloc
\* makes of an object with a raw isa.
PinnedOK ==
    Pinned => refcnts.deallocating /\ Live = {} /\ \E u \in Threads : Dying(u)

\* Only sidetable_release lets the count wrap into the pinned bit.
LEMMA OnlyReleasePins ==
    ASSUME IInv, Setters = {}, NEW t \in Threads, Step(t),
           refcnts'.pinned, ~refcnts.pinned
    PROVE  ReleaseRaw(t)
<1>h. /\ TypeOK /\ FramesOK /\ (~refcnts.present => refcnts = NoEntry)
  BY DEF IInv, SideOK, SplitOK
<1> USE <1>h DEF TypeOK, Entry, FramesOK, Side, Find, NewEntry, NoEntry,
    sidetable_retain, sidetable_tryRetain, sidetable_addExtraRC_nolock,
    sidetable_subExtraRC_nolock, Reload
<1>1. ASSUME Retain(t) PROVE ReleaseRaw(t)
  BY <1>1 DEF Retain
<1>2. ASSUME LoadWeak(t) PROVE ReleaseRaw(t)
  BY <1>2 DEF LoadWeak
<1>3. ASSUME TryRetainRaw(t) PROVE ReleaseRaw(t)
  BY <1>3 DEF TryRetainRaw
<1>4. ASSUME RetainRaw(t) PROVE ReleaseRaw(t)
  BY <1>4 DEF RetainRaw
<1>5. ASSUME RetainSeesDeallocating(t) PROVE ReleaseRaw(t)
  BY <1>5 DEF RetainSeesDeallocating
<1>6. ASSUME RetainInline(t) PROVE ReleaseRaw(t)
  BY <1>6 DEF RetainInline, RetainLoop
<1>7. ASSUME RetainOverflow(t) PROVE ReleaseRaw(t)
  BY <1>7 DEF RetainOverflow, RetainLoop
<1>8. ASSUME RetainLock(t) PROVE ReleaseRaw(t)
  BY <1>8 DEF RetainLock, RetainLoop
<1>9. ASSUME RetainSplit(t) PROVE ReleaseRaw(t)
  BY <1>9 DEF RetainSplit, RetainLoop
<1>10. ASSUME RetainTranscribe(t) PROVE ReleaseRaw(t)
  BY <1>10 DEF RetainTranscribe
<1>11. ASSUME RetainRetry(t) PROVE ReleaseRaw(t)
  BY <1>11 DEF RetainRetry, RetainLoop
<1>12. ASSUME WeakLoaded(t) PROVE ReleaseRaw(t)
  BY <1>12 DEF WeakLoaded
<1>13. ASSUME Release(t) PROVE ReleaseRaw(t)
  BY <1>13 DEF Release
<1>14. ASSUME ReleaseRaw(t) PROVE ReleaseRaw(t)
  BY <1>14 DEF ReleaseRaw, SendDealloc
<1>15. ASSUME ReleaseSeesDeallocating(t) PROVE ReleaseRaw(t)
  BY <1>15 DEF ReleaseSeesDeallocating
<1>16. ASSUME ReleaseInline(t) PROVE ReleaseRaw(t)
  BY <1>16 DEF ReleaseInline, ReleaseLoop
<1>17. ASSUME ReleaseUnderflow(t) PROVE ReleaseRaw(t)
  BY <1>17 DEF ReleaseUnderflow, ReleaseLoop
<1>18. ASSUME ReleaseLock(t) PROVE ReleaseRaw(t)
  BY <1>18 DEF ReleaseLock, ReleaseLoop
<1>19. ASSUME ReleaseBorrow(t) PROVE ReleaseRaw(t)
  BY <1>19 DEF ReleaseBorrow, ReleaseLoop
<1>20. ASSUME BorrowStore(t) PROVE ReleaseRaw(t)
  BY <1>20 DEF BorrowStore, StoreBorrowed
<1>21. ASSUME BorrowFailed(t) PROVE ReleaseRaw(t)
  BY <1>21 DEF BorrowFailed
<1>22. ASSUME BorrowStoreAgain(t) PROVE ReleaseRaw(t)
  BY <1>22 DEF BorrowStoreAgain, StoreBorrowed
<1>23. ASSUME BorrowFailedAgain(t) PROVE ReleaseRaw(t)
  BY <1>23 DEF BorrowFailedAgain
<1>24. ASSUME BorrowPutBack(t) PROVE ReleaseRaw(t)
  BY <1>24 DEF BorrowPutBack
<1>25. ASSUME BorrowStored(t) PROVE ReleaseRaw(t)
  BY <1>25 DEF BorrowStored, SendDealloc
<1>26. ASSUME ReleaseRetry(t) PROVE ReleaseRaw(t)
  BY <1>26 DEF ReleaseRetry, ReleaseLoop
<1>27. ASSUME ReleaseDeallocate(t) PROVE ReleaseRaw(t)
  BY <1>27 DEF ReleaseDeallocate, SendDealloc
<1>28. ASSUME FastFree(t) PROVE ReleaseRaw(t)
  BY <1>28 DEF FastFree
<1>29. ASSUME Destruct(t) PROVE ReleaseRaw(t)
  BY <1>29 DEF Destruct
<1>30. ASSUME ClearRaw(t) PROVE ReleaseRaw(t)
  BY <1>30 DEF ClearRaw
<1>31. ASSUME ClearNonpointer(t) PROVE ReleaseRaw(t)
  BY <1>31 DEF ClearNonpointer
<1>32. ASSUME StoreWeak(t) PROVE ReleaseRaw(t)
  BY <1>32 DEF StoreWeak
<1>33. ASSUME setWeaklyReferenced_nolock(t) PROVE ReleaseRaw(t)
  BY <1>33 DEF setWeaklyReferenced_nolock
<1>34. ASSUME StoreWeakRetry(t) PROVE ReleaseRaw(t)
  BY <1>34 DEF StoreWeakRetry
<1>35. ASSUME DestroyWeak(t) PROVE ReleaseRaw(t)
  BY <1>35 DEF DestroyWeak
<1>36. ASSUME SetAssociation(t) PROVE ReleaseRaw(t)
  BY <1>36 DEF SetAssociation
<1>37. ASSUME ClearAssociation(t) PROVE ReleaseRaw(t)
  BY <1>37 DEF ClearAssociation
<1>38. ASSUME setHasAssociatedObjects(t) PROVE ReleaseRaw(t)
  BY <1>38 DEF setHasAssociatedObjects
<1>39. ASSUME SetAssociationRetry(t) PROVE ReleaseRaw(t)
  BY <1>39 DEF SetAssociationRetry
<1>40. ASSUME NEW l \in {"change", "changeRaw"},
    SetClass(t, l) PROVE ReleaseRaw(t)
  BY <1>40 DEF SetClass
<1>41. ASSUME ChangeLock(t) PROVE ReleaseRaw(t)
  BY <1>41 DEF ChangeLock, Changing, ToRaw
<1>42. ASSUME ChangeStore(t) PROVE ReleaseRaw(t)
  BY <1>42 DEF ChangeStore, Changing, ToRaw, ChangedIsa
<1>43. ASSUME ChangeRetry(t) PROVE ReleaseRaw(t)
  BY <1>43 DEF ChangeRetry, Changing, ToRaw, ChangedIsa
<1>44. ASSUME ChangeMove(t) PROVE ReleaseRaw(t)
  BY <1>44 DEF ChangeMove
<1> QED
  BY <1>1, <1>2, <1>3, <1>4, <1>5, <1>6, <1>7, <1>8, <1>9, <1>10, <1>11,
      <1>12, <1>13, <1>14, <1>15, <1>16, <1>17, <1>18, <1>19, <1>20, <1>21,
      <1>22, <1>23, <1>24, <1>25, <1>26, <1>27, <1>28, <1>29, <1>30, <1>31,
      <1>32, <1>33, <1>34, <1>35, <1>36, <1>37, <1>38, <1>39, <1>40, <1>41,
      <1>42, <1>43, <1>44
  DEF Step, RetainStep, ReleaseStep, DeallocStep, FlagStep, ChangeStep

\* Once dead, an entry with a raw isa stays marked, and somebody goes on
\* deallocating.
LEMMA ReleaseOfDying ==
    ASSUME IInv, NEW t \in Threads, Step(t), ReleaseRaw(t),
    refcnts.deallocating,
           NEW u \in Threads, Dying(u)
    PROVE  refcnts'.deallocating /\ \E v \in Threads : Dying(v)'
<1>h. TypeOK /\ FramesOK BY DEF IInv
<1>1. ~LastRelease(refcnts) /\ refcnts.present
  <2>1. refcnts.present BY DEF IInv, SideOK, SplitOK, NoEntry
  <2> QED BY <2>1 DEF LastRelease
<1>2. refcnts'.deallocating
  BY <1>h, <1>1 DEF ReleaseRaw, sidetable_release, TypeOK, Entry
<1>3. CASE u # t
  <2>1. Dying(u)' BY <1>h, <1>3, OthersUntouched DEF Dying
  <2> QED BY <1>2, <2>1
<1>4. CASE u = t
  <2>1. ref[t] = NoRef /\ ~tryRetain[t] BY <1>h, <1>4 DEF ReleaseRaw, Dying,
      FramesOK
  <2>2. RRReturn(t) BY <1>1 DEF ReleaseRaw
  <2>3. pc'[t] = "dealloc" BY <1>h, <2>1, <2>2 DEF RRReturn, Goto, TypeOK
  <2> QED BY <1>2, <2>3 DEF Dying
<1> QED BY <1>3, <1>4

\* A pinned count stays dead: no reference is made once it was pinned.
LEMMA PinnedStep ==
    ASSUME IInv, IInv', PinnedOK, Setters = {}, NEW t \in Threads, Step(t)
    PROVE  PinnedOK'
<1> SUFFICES ASSUME Pinned'
             PROVE  refcnts'.deallocating /\ Live' = {} /\ \E u \in Threads : Dying(u)'
  BY DEF PinnedOK
<1>h. TypeOK /\ FramesOK /\ OldIsaOf(t) BY DEF IInv, OldIsaOK
<1>1. ~isa'.nonpointer /\ ~isa.nonpointer BY OnlySettersChange DEF Pinned
<1>2. ~freed' BY <1>1 DEF IInv, SideOK, SplitOK, Pinned, NoEntry
<1>3. refcnts.deallocating /\ \E u \in Threads : Dying(u)
  <2>1. CASE Pinned BY <2>1 DEF PinnedOK
  <2>2. CASE ~Pinned
    <3>1. ReleaseRaw(t) BY <1>1, <2>2, OnlyReleasePins DEF Pinned
    <3>2. refcnts.deallocating /\ ~freed
      <4>1. ~LastRelease(refcnts)
        BY <1>h, <3>1 DEF Pinned, ReleaseRaw, sidetable_release, LastRelease,
            Find, NewEntry, TypeOK, Entry
      <4>2. refcnts.rc = 0
        BY <1>h, <1>1, <2>2, <3>1, <4>1 DEF Pinned, ReleaseRaw,
            sidetable_release, TypeOK, Entry
      <4>3. refcnts.deallocating BY <1>1, <2>2, <4>1, <4>2 DEF LastRelease,
          Pinned
      <4> QED BY <1>2, <3>1, <4>3 DEF ReleaseRaw
    <3>3. ~Moving BY <1>h, ConstantsAssumption DEF Moving, FramesOK, TypeOK
    <3>4. RetainCount = 0 BY <1>1, <3>2, <3>3 DEF RetainCount
    <3>5. Live = {}
      BY <2>2, <3>2, <3>4, LiveFacts DEF IInv, CountMatchesReferences
    <3> QED BY <2>2, <3>2, <3>5 DEF IInv, DeathOK
  <2> QED BY <2>1, <2>2
<1>4. PICK u \in Threads : Dying(u) BY <1>3
<1>5. Live' = {} BY <1>4, NotRevived
<1>6. CASE ReleaseRaw(t) BY <1>3, <1>4, <1>5, <1>6, ReleaseOfDying
<1>7. CASE ~ReleaseRaw(t)
  <2>1. ~ReleaseInline(t) /\ ~FastFree(t) /\ ~ClearRaw(t) /\ ~ClearNonpointer(t)
    BY <1>1, <1>2 DEF ReleaseInline, ReleaseLoop, FastFree, ClearRaw,
        ClearNonpointer
  <2>2. ~ReleaseBorrow(t)
    BY <1>h, <1>1 DEF ReleaseBorrow, ReleaseLoop, OldIsaOf, Fresh, LoopPCs,
        HasLock
  <2>3. DyingAsBefore(t) BY <1>7, <2>1, <2>2, DyingAs
  <2>4. refcnts'.deallocating BY <1>1, <1>3, <2>3 DEF DyingAsBefore
  <2>5. Dying(u)'
    <3>1. CASE u = t BY <1>4, <2>3, <3>1 DEF DyingAsBefore
    <3>2. CASE u # t BY <1>h, <1>4, <3>2, OthersUntouched DEF Dying
    <3> QED BY <3>1, <3>2
  <2> QED BY <1>5, <2>4, <2>5
<1> QED BY <1>6, <1>7

\* With no class change the count is always the number of references.
LEMMA CountIsLive ==
    ASSUME Setters = {}
    PROVE  IInv /\ PinnedOK => /\ ~freed => RetainCount = Cardinality(Live)
                               /\ freed => Live = {}
<1> SUFFICES ASSUME IInv, PinnedOK
             PROVE  /\ ~freed => RetainCount = Cardinality(Live)
                    /\ freed => Live = {}
  OBVIOUS
<1>1. freed => Live = {} BY DEF IInv, DeathOK
<1>2. CASE ~Pinned BY <1>1, <1>2 DEF IInv, CountMatchesReferences
<1>3. CASE Pinned
  <2>1. ~Moving BY ConstantsAssumption DEF Moving, IInv, FramesOK, TypeOK
  <2>2. RetainCount = 0 BY <1>3, <2>1 DEF RetainCount, Pinned, PinnedOK
  <2>3. Cardinality(Live) = 0 BY <1>3, LiveFacts DEF PinnedOK, IInv
  <2> QED BY <1>1, <2>2, <2>3
<1> QED BY <1>2, <1>3

\* The same of the next state.
LEMMA CountIsLiveNext ==
    ASSUME Setters = {}
    PROVE  (IInv /\ PinnedOK)' => (/\ ~freed => RetainCount = Cardinality(Live)
                                   /\ freed => Live = {})'
<1>1. IInv /\ PinnedOK => /\ ~freed => RetainCount = Cardinality(Live)
                          /\ freed => Live = {}
  BY CountIsLive
<1> QED BY <1>1, PTL

\* A step adds or removes one reference at most.
LEMMA OneAtATime ==
    ASSUME TypeOK, NEW t \in Threads, Step(t)
    PROVE  \/ owner' = owner
           \/ \E r \in Refs, o \in Threads \cup {NoThread} :
                 owner' = [owner EXCEPT ![r] = o]
<1>1. ASSUME Gain(t) \/ Drop(t) \/ owner' = owner
      PROVE  \/ owner' = owner
             \/ \E r \in Refs, o \in Threads \cup {NoThread} :
                   owner' = [owner EXCEPT ![r] = o]
  BY <1>1 DEF Gain, Drop, SetOwner, TypeOK
<1> DEFINE G == Gain(t) \/ Drop(t) \/ owner' = owner
<1>2. G
  <2> USE DEF Reload
  <2>1. ASSUME Retain(t) PROVE G
    BY <2>1 DEF Retain
  <2>2. ASSUME LoadWeak(t) PROVE G
    BY <2>2 DEF LoadWeak
  <2>3. ASSUME TryRetainRaw(t) PROVE G
    BY <2>3 DEF TryRetainRaw
  <2>4. ASSUME RetainRaw(t) PROVE G
    BY <2>4 DEF RetainRaw
  <2>5. ASSUME RetainSeesDeallocating(t) PROVE G
    BY <2>5 DEF RetainSeesDeallocating
  <2>6. ASSUME RetainInline(t) PROVE G
    BY <2>6 DEF RetainInline, RetainLoop
  <2>7. ASSUME RetainOverflow(t) PROVE G
    BY <2>7 DEF RetainOverflow, RetainLoop
  <2>8. ASSUME RetainLock(t) PROVE G
    BY <2>8 DEF RetainLock, RetainLoop
  <2>9. ASSUME RetainSplit(t) PROVE G
    BY <2>9 DEF RetainSplit, RetainLoop
  <2>10. ASSUME RetainTranscribe(t) PROVE G
    BY <2>10 DEF RetainTranscribe
  <2>11. ASSUME RetainRetry(t) PROVE G
    BY <2>11 DEF RetainRetry, RetainLoop
  <2>12. ASSUME WeakLoaded(t) PROVE G
    BY <2>12 DEF WeakLoaded
  <2>13. ASSUME Release(t) PROVE G
    BY <2>13 DEF Release
  <2>14. ASSUME ReleaseRaw(t) PROVE G
    BY <2>14 DEF ReleaseRaw, SendDealloc
  <2>15. ASSUME ReleaseSeesDeallocating(t) PROVE G
    BY <2>15 DEF ReleaseSeesDeallocating
  <2>16. ASSUME ReleaseInline(t) PROVE G
    BY <2>16 DEF ReleaseInline, ReleaseLoop
  <2>17. ASSUME ReleaseUnderflow(t) PROVE G
    BY <2>17 DEF ReleaseUnderflow, ReleaseLoop
  <2>18. ASSUME ReleaseLock(t) PROVE G
    BY <2>18 DEF ReleaseLock, ReleaseLoop
  <2>19. ASSUME ReleaseBorrow(t) PROVE G
    BY <2>19 DEF ReleaseBorrow, ReleaseLoop
  <2>20. ASSUME BorrowStore(t) PROVE G
    BY <2>20 DEF BorrowStore, StoreBorrowed
  <2>21. ASSUME BorrowFailed(t) PROVE G
    BY <2>21 DEF BorrowFailed
  <2>22. ASSUME BorrowStoreAgain(t) PROVE G
    BY <2>22 DEF BorrowStoreAgain, StoreBorrowed
  <2>23. ASSUME BorrowFailedAgain(t) PROVE G
    BY <2>23 DEF BorrowFailedAgain
  <2>24. ASSUME BorrowPutBack(t) PROVE G
    BY <2>24 DEF BorrowPutBack
  <2>25. ASSUME BorrowStored(t) PROVE G
    BY <2>25 DEF BorrowStored, SendDealloc
  <2>26. ASSUME ReleaseRetry(t) PROVE G
    BY <2>26 DEF ReleaseRetry, ReleaseLoop
  <2>27. ASSUME ReleaseDeallocate(t) PROVE G
    BY <2>27 DEF ReleaseDeallocate, SendDealloc
  <2>28. ASSUME FastFree(t) PROVE G
    BY <2>28 DEF FastFree
  <2>29. ASSUME Destruct(t) PROVE G
    BY <2>29 DEF Destruct
  <2>30. ASSUME ClearRaw(t) PROVE G
    BY <2>30 DEF ClearRaw
  <2>31. ASSUME ClearNonpointer(t) PROVE G
    BY <2>31 DEF ClearNonpointer
  <2>32. ASSUME StoreWeak(t) PROVE G
    BY <2>32 DEF StoreWeak
  <2>33. ASSUME setWeaklyReferenced_nolock(t) PROVE G
    BY <2>33 DEF setWeaklyReferenced_nolock
  <2>34. ASSUME StoreWeakRetry(t) PROVE G
    BY <2>34 DEF StoreWeakRetry
  <2>35. ASSUME DestroyWeak(t) PROVE G
    BY <2>35 DEF DestroyWeak
  <2>36. ASSUME SetAssociation(t) PROVE G
    BY <2>36 DEF SetAssociation
  <2>37. ASSUME ClearAssociation(t) PROVE G
    BY <2>37 DEF ClearAssociation
  <2>38. ASSUME setHasAssociatedObjects(t) PROVE G
    BY <2>38 DEF setHasAssociatedObjects
  <2>39. ASSUME SetAssociationRetry(t) PROVE G
    BY <2>39 DEF SetAssociationRetry
  <2>40. ASSUME NEW l \in {"change", "changeRaw"}, SetClass(t, l) PROVE G
    BY <2>40 DEF SetClass
  <2>41. ASSUME ChangeLock(t) PROVE G
    BY <2>41 DEF ChangeLock, Changing, ToRaw
  <2>42. ASSUME ChangeStore(t) PROVE G
    BY <2>42 DEF ChangeStore, Changing, ToRaw, ChangedIsa
  <2>43. ASSUME ChangeRetry(t) PROVE G
    BY <2>43 DEF ChangeRetry, Changing, ToRaw, ChangedIsa
  <2>44. ASSUME ChangeMove(t) PROVE G
    BY <2>44 DEF ChangeMove
  <2> QED
    BY <2>1, <2>2, <2>3, <2>4, <2>5, <2>6, <2>7, <2>8, <2>9, <2>10, <2>11,
        <2>12, <2>13, <2>14, <2>15, <2>16, <2>17, <2>18, <2>19, <2>20, <2>21,
        <2>22, <2>23, <2>24, <2>25, <2>26, <2>27, <2>28, <2>29, <2>30, <2>31,
        <2>32, <2>33, <2>34, <2>35, <2>36, <2>37, <2>38, <2>39, <2>40, <2>41,
        <2>42, <2>43, <2>44
    DEF Step, RetainStep, ReleaseStep, DeallocStep, FlagStep, ChangeStep
<1> QED BY <1>1, <1>2

\* A step makes one reference, drops one, or neither.
LEMMA LiveChange ==
    ASSUME TypeOK, NEW t \in Threads, Step(t)
    PROVE  \/ Live' = Live
           \/ \E r \in Refs : r \notin Live /\ Live' = Live \cup {r}
           \/ \E r \in Refs : r \in Live /\ Live' = Live \ {r}
<1>1. CASE owner' = owner BY <1>1 DEF Live
<1>2. CASE \E r \in Refs, o \in Threads \cup {NoThread} :
              owner' = [owner EXCEPT ![r] = o]
  <2>1. PICK r \in Refs, o \in Threads \cup {NoThread} :
           owner' = [owner EXCEPT ![r] = o]
    BY <1>2
  <2>2. \A q \in Refs : owner'[q] = IF q = r THEN o ELSE owner[q]
    BY <2>1 DEF TypeOK
  <2>3. CASE o = NoThread
    <3>1. Live' = Live \ {r} BY <2>2, <2>3 DEF Live
    <3> QED BY <3>1
  <2>4. CASE o # NoThread
    <3>1. Live' = Live \cup {r} BY <2>2, <2>4 DEF Live
    <3> QED BY <3>1
  <2> QED BY <2>3, <2>4
<1> QED BY <1>1, <1>2, OneAtATime

\* Every step is a step of the counter, or changes nothing it shows.
LEMMA CounterStep ==
    ASSUME IInv, PinnedOK, IInv', PinnedOK', Setters = {}, NEW t \in Threads,
    Step(t)
    PROVE  [Abstract!ANext]_(Abstract!avars)
<1> DEFINE n == Cardinality(Live)
           c == IF freed THEN 0 ELSE RetainCount
           p == IF freed THEN "freed" ELSE IF RetainCount = 0 THEN "dying" ELSE "live"
<1>h. TypeOK /\ TypeOK' BY DEF IInv
<1>0. /\ n \in Nat /\ n' \in Nat
      /\ n = 0 <=> Live = {}
      /\ n' = 0 <=> Live' = {}
      /\ IsFiniteSet(Live)
  BY <1>h, LiveFacts, LiveFactsNext
<1>1. /\ ~freed => RetainCount = n
      /\ freed => Live = {}
      /\ ~freed' => RetainCount' = n'
      /\ freed' => Live' = {}
  BY CountIsLive, CountIsLiveNext
<1>2. c = n /\ c' = n' BY <1>0, <1>1
<1>3. /\ p = IF freed THEN "freed" ELSE IF Live = {} THEN "dying" ELSE "live"
      /\ p' = IF freed' THEN "freed" ELSE IF Live' = {} THEN "dying" ELSE "live"
  BY <1>0, <1>1
<1>4. Live = {} => Live' = {}
  <2>1. Live = {} => freed \/ \E u \in Threads : Dying(u)
    BY DEF IInv, DeathOK, PinnedOK
  <2> QED BY <2>1, NotRevived
<1>5. freed => freed'
  <2>1. CASE ReleaseRaw(t) \/ ReleaseInline(t) \/ ReleaseBorrow(t) \/ FastFree(t)
             \/ ClearRaw(t) \/ ClearNonpointer(t)
    BY <2>1 DEF ReleaseRaw, ReleaseInline, ReleaseBorrow, FastFree, ClearRaw,
        ClearNonpointer, Fate
  <2>2. CASE ~(ReleaseRaw(t) \/ ReleaseInline(t) \/ ReleaseBorrow(t) \/ FastFree(t)
               \/ ClearRaw(t) \/ ClearNonpointer(t))
    BY <2>2, DyingAs DEF DyingAsBefore
  <2> QED BY <2>1, <2>2
<1>6. freed' /\ ~freed => Live' = Live
  <2>1. freed' /\ ~freed => owner' = owner
    BY OnlyTheseFree DEF FastFree, ClearRaw, ClearNonpointer
  <2> QED BY <2>1 DEF Live
<1> HIDE DEF n, c, p
<1>7. CASE Live' = Live
  <2>1. n' = n BY <1>7 DEF n
  <2>2. CASE freed' = freed
    <3>1. p' = p /\ c' = c BY <1>2, <1>3, <1>7, <2>1, <2>2
    <3> QED BY <1>7, <3>1 DEF Abstract!avars, p, c
  <2>3. CASE freed' # freed
    <3>1. ~freed /\ freed' BY <1>5, <2>3, <1>h DEF TypeOK
    <3>2. p = "dying" /\ p' = "freed" BY <1>1, <1>3, <1>7, <3>1
    <3>3. Abstract!AFree BY <1>2, <1>7, <2>1, <3>2 DEF Abstract!AFree, p, c
    <3> QED BY <3>3 DEF Abstract!ANext
  <2> QED BY <2>2, <2>3
<1>8. ASSUME NEW r \in Refs, r \notin Live, Live' = Live \cup {r}
      PROVE  Abstract!ARetain(r)
  <2>1. n' = n + 1 BY <1>0, <1>8, FS_AddElement DEF n
  <2>2. ~freed /\ ~freed' /\ Live # {} /\ Live' # {} BY <1>1, <1>4, <1>8
  <2>3. p = "live" /\ p' = "live" BY <1>3, <2>2
  <2> QED BY <1>2, <1>8, <2>1, <2>3 DEF Abstract!ARetain, p, c
<1>9. ASSUME NEW r \in Refs, r \in Live, Live' = Live \ {r}
      PROVE  Abstract!ARelease(r)
  <2>1. n' = n - 1 BY <1>0, <1>9, FS_RemoveElement DEF n
  <2>2. ~freed /\ ~freed' BY <1>1, <1>6, <1>9
  <2>3. p = "live" BY <1>3, <1>9, <2>2
  <2>4. p' = IF c = 1 THEN "dying" ELSE "live" BY <1>0, <1>2, <1>3, <2>1, <2>2
  <2> QED BY <1>2, <1>9, <2>1, <2>3, <2>4 DEF Abstract!ARelease, p, c
<1> QED BY <1>h, <1>7, <1>8, <1>9, LiveChange DEF Abstract!ANext

\* With nobody calling object_setClass, moving counts between the isa and the
\* side table is invisible: retain, release and weak loads implement a plain
\* counter of the references, for which dying is final.
THEOREM Refinement == ASSUME Setters = {} PROVE Spec => ImplementsCounter
<1>s. OneSetter BY DEF OneSetter
<1>1. Init => IInv /\ PinnedOK /\ Abstract!AInit
  <2> SUFFICES ASSUME Init PROVE IInv /\ PinnedOK /\ Abstract!AInit OBVIOUS
  <2>1. IInv BY InitInv
  <2>2. PinnedOK BY DEF Init, PinnedOK, Pinned, NoEntry
  <2>3. PICK r \in Refs, t \in Threads :
           owner = [q \in Refs |-> IF q = r THEN t ELSE NoThread]
    BY DEF Init
  <2>4. Live = {r} BY <2>3, ConstantsAssumption DEF Live
  <2>5. RetainCount = 1 /\ ~freed
    <3>1. SideCount = 0 /\ ~Moving
      BY ConstantsAssumption DEF Init, SideCount, Moving, NoEntry
    <3> QED BY <3>1 DEF Init, RetainCount, InitIsa, RawIsa, NoEntry
  <2> QED BY <2>1, <2>2, <2>4, <2>5 DEF Abstract!AInit
<1>2. IInv /\ PinnedOK /\ [Next]_vars
      => IInv' /\ PinnedOK' /\ [Abstract!ANext]_(Abstract!avars)
  <2> SUFFICES ASSUME IInv, PinnedOK, [Next]_vars
               PROVE  IInv' /\ PinnedOK' /\ [Abstract!ANext]_(Abstract!avars)
    OBVIOUS
  <2>1. IInv' BY <1>s, NextInv
  <2>2. ASSUME Live' = Live, UNCHANGED <<isa, lock, refcnts, pc, oldisa, ref,
      freed>>
        PROVE  PinnedOK' /\ UNCHANGED Abstract!avars
    <3>1. PinnedOK' BY <2>2 DEF PinnedOK, Pinned, Dying
    <3>2. SideCount' = SideCount /\ (Moving' <=> Moving)
      BY <2>2 DEF SideCount, Moving, InFlight
    <3>3. RetainCount' = RetainCount BY <2>2, <3>2 DEF RetainCount
    <3> QED BY <2>2, <3>1, <3>3 DEF Abstract!avars
  <2>3. CASE UNCHANGED vars
    <3>1. Live' = Live BY <2>3 DEF vars, Live
    <3> QED BY <2>1, <2>2, <2>3, <3>1 DEF vars, locals
  <2>4. ASSUME NEW t \in Threads, Step(t)
        PROVE  PinnedOK' /\ [Abstract!ANext]_(Abstract!avars)
    <3>1. PinnedOK' BY <2>1, <2>4, PinnedStep
    <3> QED BY <2>1, <2>4, <3>1, CounterStep
  <2>5. ASSUME NEW t \in Threads, NEW u \in Threads \ {t}, Handoff(t, u)
        PROVE  PinnedOK' /\ UNCHANGED Abstract!avars
    <3>1. PICK r \in Refs : Owns(t, r) /\ owner' = [owner EXCEPT ![r] = u]
      BY <2>5 DEF Handoff
    <3>2. Live' = Live BY <3>1, ConstantsAssumption DEF Live, Owns, IInv,
        TypeOK
    <3> QED BY <2>2, <2>5, <3>2 DEF Handoff, Side, locals, Fate
  <2> QED BY <2>1, <2>3, <2>2, <2>4, <2>5 DEF Next
<1> QED BY <1>1, <1>2, PTL DEF Spec, ImplementsCounter, Abstract!ASpec
====
