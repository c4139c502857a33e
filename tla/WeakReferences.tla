--------------------------- MODULE WeakReferences ----------------------------
(***************************************************************************)
(* __weak variables: storeWeak, objc_loadWeakRetained, objc_copyWeak and   *)
(* objc_moveWeak of runtime/NSObject.mm, called by several threads on      *)
(* shared variables, with the deallocation of the objects and the          *)
(* +initialize of their class.  A side table is a lock and, for each       *)
(* object, the variables registered with it: WeakTable models how          *)
(* objc-weak.mm stores them.  What happens between taking the locks and    *)
(* releasing them is one step; nothing it touches is written without them. *)
(***************************************************************************)
EXTENDS Integers, Sequences, FiniteSets

CONSTANTS
    Threads, NoThread,
    Objects,     \* the addresses objects can have
    nil,
    Locations,   \* the addresses of __weak variables
    Stripes,     \* the addresses of the side tables
    StripeOf,    \* SideTables()[address], of nil too
    MaxRefs,     \* bounds the references a thread loads
    MaxDepth     \*   and its nested calls

ASSUME WeakAssumption ==
    /\ nil \notin Objects /\ nil \notin Locations
    /\ NoThread \notin Threads
    /\ Stripes \subseteq Nat
    /\ StripeOf \in [Objects \cup {nil} -> Stripes]
    /\ MaxRefs \in Nat /\ MaxDepth \in Nat

VARIABLES
    location,    \* *location
    live,        \* the variable is initialized and not destroyed
    referrers,   \* weak_table: the variables registered with each object
    weaklyReferenced,  \* the bit in the isa or in refcnts
    life,        \* of each object
    refs,        \* the strong references each thread owns
    lock,        \* SideTable::slock: its owner
    cls,         \* how far the class of the objects is with +initialize
    stack,       \* the calls in progress in each thread
    weakError,   \* objc_weak_error() was called
    fatal        \* _objc_fatal() was called

vars == <<location, live, referrers, weaklyReferenced, life, refs, lock, cls,
          stack, weakError, fatal>>

\* A store or an init may be the variant that crashes if the object is being
\* deallocated or the ...OrNil one that stores nil: the two differ only then.
Ops == {"store", "init", "copyInit", "destroy", "load", "copy", "move",
        "message", "initialize", "dealloc"}

\* A call in progress: where it is, its arguments, `oldObj` (`obj` in the loads
\* and in objc_moveWeak), whether previouslyInitializedClass is the class, and
\* the side tables it has locked.
Frame ==
    [op : Ops,
     pc : {"read", "lock", "locked", "classInit", "running", "release", "free"},
     loc : Locations \cup {nil}, from : Locations \cup {nil},
     new : Objects \cup {nil}, old : Objects \cup {nil},
     known : BOOLEAN, held : SUBSET Stripes]

TypeOK ==
    /\ location \in [Locations -> Objects \cup {nil}]
    /\ live \in [Locations -> BOOLEAN]
    /\ referrers \in [Objects -> SUBSET Locations]
    /\ weaklyReferenced \in [Objects -> BOOLEAN]
    /\ life \in [Objects -> {"unallocated", "alive", "deallocating"}]
    /\ refs \in [Threads -> [Objects -> Nat]]
    /\ lock \in [Stripes -> Threads \cup {NoThread}]
    /\ cls \in {"uninitialized", "initializing", "initialized"}
    /\ stack \in [Threads -> Seq(Frame)]
    /\ weakError \in BOOLEAN
    /\ fatal \in BOOLEAN

Init ==
    /\ location = [v \in Locations |-> nil]
    /\ live = [v \in Locations |-> FALSE]
    /\ referrers = [o \in Objects |-> {}]
    /\ weaklyReferenced = [o \in Objects |-> FALSE]
    /\ life = [o \in Objects |-> "unallocated"]
    /\ refs = [t \in Threads |-> [o \in Objects |-> 0]]
    /\ lock = [s \in Stripes |-> NoThread]
    /\ cls \in {"uninitialized", "initialized"}
    /\ stack = [t \in Threads |-> <<>>]
    /\ weakError = FALSE
    /\ fatal = FALSE

Table == <<location, live, referrers, weaklyReferenced, weakError>>
Lives == <<life, refs>>

-----------------------------------------------------------------------------
(* Calls and the discipline of their callers. *)

Top(t) == stack[t][Len(stack[t])]
At(t, pc) == stack[t] # <<>> /\ Top(t).pc = pc

SetTop(t, f) == stack' = [stack EXCEPT ![t][Len(stack[t])] = f]
Push(t, f) == stack' = [stack EXCEPT ![t] = Append(@, f)]
Return(t) == stack' = [stack EXCEPT ![t] = SubSeq(@, 1, Len(@) - 1)]

Frames == UNION {{stack[t][i] : i \in DOMAIN stack[t]} : t \in Threads}

NewFrame(op, pc, loc, from, new) ==
    [op |-> op, pc |-> pc, loc |-> loc, from |-> from, new |-> new,
     old |-> nil, known |-> FALSE, held |-> {}]

haveOld(f) == f.op \in {"store", "destroy"}
haveNew(f) == f.op \in {"store", "init", "copyInit"}

Loads(f) == f.op \in {"load", "copy"}
Moves(f) == f.op = "move"

\* The code of the program runs: outside of these calls, in +initialize or
\* in -dealloc.  MaxDepth does not count +initialize, which runs once.
Running(t) ==
    /\ stack[t] # <<>> => Top(t).pc = "running"
    /\ \E n \in 0 .. MaxDepth - 1 :
        \/ Len(stack[t]) = n
        \/ /\ Len(stack[t]) = n + 1
           /\ \E i \in DOMAIN stack[t] : stack[t][i].op = "initialize"

\* An argument is kept alive by its caller, or is being deallocated by it.
Owns(t, o) ==
    \/ refs[t][o] > 0
    \/ \E i \in DOMAIN stack[t] :
        stack[t][i].op = "dealloc" /\ stack[t][i].new = o

\* Only objc_storeWeak and the loads "are thread-safe with respect to
\* concurrent modifications to the weak variable".
Modifies(f, v) == f.loc = v \/ (Moves(f) /\ f.from = v)

Initializable(v) == ~live[v] /\ \A f \in Frames : f.loc # v
Storable(v) == live[v] /\ \A f \in Frames : Modifies(f, v) => f.op = "store"
Loadable(v) == live[v] /\ \A f \in Frames : f.loc = v => f.op # "destroy"
Movable(v) == live[v] /\ \A f \in Frames : ~Modifies(f, v)
Destroyable(v) == Movable(v) /\ \A f \in Frames : f.from # v

Call(t, f) ==
    /\ Push(t, f)
    /\ UNCHANGED <<Table, Lives, lock, cls, fatal>>

\* objc_storeWeak and objc_storeWeakOrNil.
StoreWeak(t, v, o) ==
    /\ Storable(v)
    /\ o # nil => Owns(t, o)
    /\ Call(t, NewFrame("store", "read", v, nil, o))

\* objc_initWeak and objc_initWeakOrNil.
InitWeak(t, v, o) ==
    /\ Initializable(v)
    /\ Owns(t, o)
    /\ Call(t, NewFrame("init", "lock", v, nil, o))

InitWeakNil(t, v) ==
    /\ Initializable(v)
    /\ location' = [location EXCEPT ![v] = nil]
    /\ live' = [live EXCEPT ![v] = TRUE]
    /\ UNCHANGED <<referrers, weaklyReferenced, weakError, Lives, lock, cls,
                   stack, fatal>>

DestroyWeak(t, v) ==
    /\ Destroyable(v)
    /\ Call(t, NewFrame("destroy", "read", v, nil, nil))

\* objc_loadWeakRetained, or objc_loadWeak, whose pool releases the object.
LoadWeak(t, v) ==
    /\ Loadable(v)
    /\ \A o \in Objects : refs[t][o] < MaxRefs
    /\ Call(t, NewFrame("load", "read", nil, v, nil))

CopyWeak(t, dst, src) ==
    /\ Loadable(src) /\ Initializable(dst)
    /\ \A o \in Objects : refs[t][o] < MaxRefs
    /\ Call(t, NewFrame("copy", "read", dst, src, nil))

MoveWeak(t, dst, src) ==
    /\ Movable(src) /\ Initializable(dst)
    /\ Call(t, NewFrame("move", "read", dst, src, nil))

\* The first message to the class.
Message(t) ==
    /\ cls # "initialized"
    /\ Call(t, NewFrame("message", "classInit", nil, nil, nil))

-----------------------------------------------------------------------------
(* Reading the variable and locking. *)

\* The variable that must not change before the locks are taken.
Watched(f) == IF haveOld(f) THEN f.loc ELSE f.from
Reads(f) == haveOld(f) \/ Loads(f) \/ Moves(f)

\* *dst = nil, for an objc_copyWeak or objc_moveWeak that found nothing.
StoreNil(f) ==
    /\ location' = [location EXCEPT ![f.loc] = nil]
    /\ live' = [live EXCEPT ![f.loc] = TRUE]
    /\ UNCHANGED <<referrers, weaklyReferenced, weakError>>

\* A load that has found nil; objc_copyWeak goes on with objc_initWeak(dst, nil)
\* and objc_release(nil).
LoadedNil(f) == IF f.op = "load" THEN UNCHANGED Table ELSE StoreNil(f)

\* retry: the variable is read without a lock.
Read(t) ==
    /\ At(t, "read")
    /\ LET f == Top(t)
           obj == location[Watched(f)]
       IN  IF obj = nil /\ ~haveOld(f)
           THEN LoadedNil(f) /\ Return(t)
           ELSE SetTop(t, [f EXCEPT !.old = obj, !.pc = "lock"]) /\ UNCHANGED Table
    /\ UNCHANGED <<Lives, lock, cls, fatal>>

\* The side tables to lock.
Needed(f) ==
    (IF Reads(f) THEN {StripeOf[f.old]} ELSE {})
        \cup (IF haveNew(f) \/ f.op = "dealloc" THEN {StripeOf[f.new]} ELSE {})

\* Mutant: lockTwo in the order of its arguments.
Acquire_OldFirst(t) ==
    /\ At(t, "lock")
    /\ LET f == Top(t)
           wanted == Needed(f) \ f.held
       IN  \E s \in wanted :
            /\ lock[s] = NoThread
            /\ Reads(f) /\ StripeOf[f.old] \in wanted => s = StripeOf[f.old]
            /\ lock' = [lock EXCEPT ![s] = t]
            /\ SetTop(t, [f EXCEPT !.held = @ \cup {s},
                          !.pc = IF wanted = {s} THEN "locked" ELSE "lock"])
    /\ UNCHANGED <<Table, Lives, cls, fatal>>

\* lockTwo: the lower address first, and a table that is both only once.
Acquire(t) ==
    /\ At(t, "lock")
    /\ LET f == Top(t)
           wanted == Needed(f) \ f.held
       IN  \E s \in wanted :
            /\ lock[s] = NoThread
            /\ \A r \in wanted : s <= r
            /\ lock' = [lock EXCEPT ![s] = t]
            /\ SetTop(t, [f EXCEPT !.held = @ \cup {s},
                          !.pc = IF wanted = {s} THEN "locked" ELSE "lock"])
    /\ UNCHANGED <<Table, Lives, cls, fatal>>

\* Mutant: the variable is not looked at again.
Stale_NotChecked(f) == FALSE

Stale(f) == Reads(f) /\ location[Watched(f)] # f.old

Unlock(f) ==
    lock' = [s \in Stripes |-> IF s \in f.held THEN NoThread ELSE lock[s]]

Start(f) == IF Reads(f) THEN "read" ELSE "lock"

\* "Retry if the old value changes underneath us."
Retry(t) ==
    /\ At(t, "locked")
    /\ Stale(Top(t))
    /\ Unlock(Top(t))
    /\ SetTop(t, [Top(t) EXCEPT !.pc = "read", !.held = {}])
    /\ UNCHANGED <<Table, Lives, cls, fatal>>

-----------------------------------------------------------------------------
(* +initialize. *)

_thisThreadIsInitializingClass(t) ==
    \E i \in DOMAIN stack[t] : stack[t][i].op = "initialize"

MustInitialize(t, f) ==
    /\ cls # "initialized"
    /\ \/ haveNew(f) /\ f.new # nil /\ ~f.known
       \/ Loads(f) /\ ~_thisThreadIsInitializingClass(t)

LeaveToInitialize(t) ==
    /\ At(t, "locked")
    /\ ~Stale(Top(t)) /\ MustInitialize(t, Top(t))
    /\ Unlock(Top(t))
    /\ SetTop(t, [Top(t) EXCEPT !.pc = "classInit", !.held = {}])
    /\ UNCHANGED <<Table, Lives, cls, fatal>>

\* class_initialize: this thread sends +initialize.
BeginInitialize(t) ==
    /\ At(t, "classInit")
    /\ cls = "uninitialized"
    /\ cls' = "initializing"
    /\ Push(t, NewFrame("initialize", "running", nil, nil, nil))
    /\ UNCHANGED <<Table, Lives, lock, fatal>>

\* class_initialize returns; it waits for another thread's +initialize.
Initialized(t) ==
    /\ At(t, "classInit")
    /\ cls = "initialized" \/ _thisThreadIsInitializingClass(t)
    /\ IF Top(t).op = "message" THEN Return(t)
       ELSE SetTop(t, [Top(t) EXCEPT !.pc = Start(Top(t)), !.known = TRUE])
    /\ UNCHANGED <<Table, Lives, lock, cls, fatal>>

FinishInitialize(t) ==
    /\ At(t, "running") /\ Top(t).op = "initialize"
    /\ cls' = "initialized"
    /\ Return(t)
    /\ UNCHANGED <<Table, Lives, lock, fatal>>

-----------------------------------------------------------------------------
(* With the side tables locked. *)

Ready(t, ops) ==
    /\ At(t, "locked")
    /\ Top(t).op \in ops
    /\ ~Stale(Top(t)) /\ ~MustInitialize(t, Top(t))

\* weak_unregister_no_lock.
Unregister(rs, o, v) == IF o = nil THEN rs ELSE [rs EXCEPT ![o] = @ \ {v}]

\* remove_referrer: there is an entry for the object, but not this variable.
UnknownReferrer(o, v) == o # nil /\ referrers[o] # {} /\ v \notin referrers[o]

Register(rs, o, v) == IF o = nil THEN rs ELSE [rs EXCEPT ![o] = @ \cup {v}]

rootIsDeallocating(o) == o # nil /\ life[o] # "alive"

\* What weak_register_no_lock returns.
Registered(f) == IF rootIsDeallocating(f.new) THEN nil ELSE f.new

StoreOps == {"store", "init", "copyInit", "destroy"}

\* CrashIfDeallocating: "Cannot form weak reference to instance"
CannotForm(t) ==
    /\ Ready(t, StoreOps)
    /\ rootIsDeallocating(Top(t).new)
    /\ fatal' = TRUE
    /\ UNCHANGED <<Table, Lives, lock, cls, stack>>

\* Mutant: the store is rejected before the old value is cleaned up.
Store_KeepsOld(t) ==
    /\ Ready(t, StoreOps)
    /\ Top(t).op = "copyInit" => ~rootIsDeallocating(Top(t).new)
    /\ LET f == Top(t)
           newObj == Registered(f)
       IN  /\ referrers' = Register(referrers, newObj, f.loc)
           /\ weaklyReferenced' =
                IF newObj = nil THEN weaklyReferenced
                ELSE [weaklyReferenced EXCEPT ![newObj] = TRUE]
           /\ location' = IF haveNew(f) THEN [location EXCEPT ![f.loc] = newObj]
                          ELSE [location EXCEPT ![f.loc] = nil]
           /\ live' = [live EXCEPT ![f.loc] = haveNew(f)]
           /\ Unlock(f)
           /\ IF f.op = "copyInit"
              THEN SetTop(t, [f EXCEPT !.pc = "release", !.held = {}])
              ELSE Return(t)
    /\ UNCHANGED <<weakError, Lives, cls, fatal>>

\* Mutant: the object is not marked weakly referenced.
Store_NoFlag(t) ==
    /\ Ready(t, StoreOps)
    /\ Top(t).op = "copyInit" => ~rootIsDeallocating(Top(t).new)
    /\ LET f == Top(t)
           newObj == Registered(f)
       IN  /\ referrers' = Register(Unregister(referrers, f.old, f.loc),
                                    newObj, f.loc)
           /\ weakError' = (weakError \/ UnknownReferrer(f.old, f.loc))
           /\ location' = IF haveNew(f) THEN [location EXCEPT ![f.loc] = newObj]
                          ELSE [location EXCEPT ![f.loc] = nil]
           /\ live' = [live EXCEPT ![f.loc] = haveNew(f)]
           /\ Unlock(f)
           /\ IF f.op = "copyInit"
              THEN SetTop(t, [f EXCEPT !.pc = "release", !.held = {}])
              ELSE Return(t)
    /\ UNCHANGED <<weaklyReferenced, Lives, cls, fatal>>

\* The rest of storeWeak.  A destroy leaves the storage as it is; nobody reads it
\* before it is initialized again, so the model forgets what it held.
Store(t) ==
    /\ Ready(t, StoreOps)
    /\ Top(t).op = "copyInit" => ~rootIsDeallocating(Top(t).new)
    /\ LET f == Top(t)
           newObj == Registered(f)
       IN  /\ referrers' = Register(Unregister(referrers, f.old, f.loc),
                                    newObj, f.loc)
           /\ weakError' = (weakError \/ UnknownReferrer(f.old, f.loc))
           /\ weaklyReferenced' =
                IF newObj = nil THEN weaklyReferenced
                ELSE [weaklyReferenced EXCEPT ![newObj] = TRUE]
           /\ location' = IF haveNew(f) THEN [location EXCEPT ![f.loc] = newObj]
                          ELSE [location EXCEPT ![f.loc] = nil]
           /\ live' = [live EXCEPT ![f.loc] = haveNew(f)]
           /\ Unlock(f)
           /\ IF f.op = "copyInit"
              THEN SetTop(t, [f EXCEPT !.pc = "release", !.held = {}])
              ELSE Return(t)
    /\ UNCHANGED <<Lives, cls, fatal>>

\* Mutant: the object is not retained.
Load_NotRetained(t) ==
    /\ Ready(t, {"load", "copy"})
    /\ LET f == Top(t)
       IN  IF rootIsDeallocating(f.old)
           THEN /\ LoadedNil(f)
                /\ Return(t)
                /\ UNCHANGED refs
           ELSE /\ refs' = refs
                /\ IF f.op = "load" THEN Return(t)
                   ELSE SetTop(t, NewFrame("copyInit", "lock", f.loc, nil, f.old))
                /\ UNCHANGED Table
    /\ Unlock(Top(t))
    /\ UNCHANGED <<life, cls, fatal>>

\* The rest of objc_loadWeakRetained; objc_copyWeak goes on with objc_initWeak.
Load(t) ==
    /\ Ready(t, {"load", "copy"})
    /\ LET f == Top(t)
       IN  IF rootIsDeallocating(f.old)
           THEN /\ LoadedNil(f)
                /\ Return(t)
                /\ UNCHANGED refs
           ELSE /\ refs' = [refs EXCEPT ![t][f.old] = @ + 1]
                /\ IF f.op = "load" THEN Return(t)
                   ELSE SetTop(t, NewFrame("copyInit", "lock", f.loc, nil, f.old))
                /\ UNCHANGED Table
    /\ Unlock(Top(t))
    /\ UNCHANGED <<life, cls, fatal>>

\* The rest of objc_moveWeak, which does not check for deallocation.
Move(t) ==
    /\ Ready(t, {"move"})
    /\ LET f == Top(t)
       IN  /\ referrers' = Register(Unregister(referrers, f.old, f.from),
                                    f.old, f.loc)
           /\ weakError' = (weakError \/ UnknownReferrer(f.old, f.from))
           /\ location' = [location EXCEPT ![f.loc] = f.old, ![f.from] = nil]
           /\ live' = [live EXCEPT ![f.loc] = TRUE]
           /\ Unlock(f)
    /\ Return(t)
    /\ UNCHANGED <<weaklyReferenced, Lives, cls, fatal>>

-----------------------------------------------------------------------------
(* The objects. *)

\* An address may be used again.
Alloc(t, o) ==
    /\ life[o] = "unallocated"
    /\ life' = [life EXCEPT ![o] = "alive"]
    /\ refs' = [refs EXCEPT ![t][o] = 1]
    /\ UNCHANGED <<Table, lock, cls, stack, fatal>>

Last(t, o) == refs[t][o] = 1 /\ \A u \in Threads \ {t} : refs[u][o] = 0

DropRef(t, o) ==
    /\ refs' = [refs EXCEPT ![t][o] = @ - 1]
    /\ life' = IF Last(t, o) THEN [life EXCEPT ![o] = "deallocating"] ELSE life
    /\ UNCHANGED <<Table, lock, cls, fatal>>

\* objc_release by the program, not of an argument of a call in progress.
Release(t, o) ==
    /\ cls = "initialized" \/ _thisThreadIsInitializingClass(t)
    /\ refs[t][o] > 0
    /\ \A i \in DOMAIN stack[t] : haveNew(stack[t][i]) => stack[t][i].new # o
    /\ DropRef(t, o)
    /\ IF Last(t, o) THEN Push(t, NewFrame("dealloc", "running", nil, nil, o))
       ELSE UNCHANGED stack

\* The objc_release that ends objc_copyWeak.
CopyRelease(t) ==
    /\ At(t, "release")
    /\ LET o == Top(t).new
       IN  /\ DropRef(t, o)
           /\ IF Last(t, o)
              THEN SetTop(t, NewFrame("dealloc", "running", nil, nil, o))
              ELSE Return(t)

\* -dealloc is through: rootDealloc.
RootDealloc(t) ==
    /\ At(t, "running") /\ Top(t).op = "dealloc"
    /\ SetTop(t, [Top(t) EXCEPT !.pc = IF weaklyReferenced[Top(t).new]
                                       THEN "lock" ELSE "free"])
    /\ UNCHANGED <<Table, Lives, lock, cls, fatal>>

\* clearDeallocating and weak_clear_no_lock.
Clear(t) ==
    /\ Ready(t, {"dealloc"})
    /\ LET o == Top(t).new
       IN  /\ location' = [v \in Locations |->
                            IF v \in referrers[o] /\ location[v] = o THEN nil
                            ELSE location[v]]
           /\ weakError' = (weakError \/ \E v \in referrers[o] :
                                            location[v] \notin {o, nil})
           /\ referrers' = [referrers EXCEPT ![o] = {}]
    /\ Unlock(Top(t))
    /\ SetTop(t, [Top(t) EXCEPT !.pc = "free", !.held = {}])
    /\ UNCHANGED <<live, weaklyReferenced, Lives, cls, fatal>>

Free(t) ==
    /\ At(t, "free")
    /\ life' = [life EXCEPT ![Top(t).new] = "unallocated"]
    /\ weaklyReferenced' = [weaklyReferenced EXCEPT ![Top(t).new] = FALSE]
    /\ Return(t)
    /\ UNCHANGED <<location, live, referrers, weakError, refs, lock, cls, fatal>>

-----------------------------------------------------------------------------
Calls(t) ==
    \/ \E v \in Locations, o \in Objects \cup {nil} :
        StoreWeak(t, v, o)
    \/ \E v \in Locations, o \in Objects : InitWeak(t, v, o)
    \/ \E v \in Locations : InitWeakNil(t, v) \/ DestroyWeak(t, v) \/ LoadWeak(t, v)
    \/ \E dst, src \in Locations : CopyWeak(t, dst, src) \/ MoveWeak(t, dst, src)
    \/ Message(t)
    \/ \E o \in Objects : Alloc(t, o) \/ Release(t, o)

Steps(t) ==
    \/ Read(t) \/ Acquire(t) \/ Retry(t)
    \/ LeaveToInitialize(t) \/ BeginInitialize(t) \/ Initialized(t)
    \/ FinishInitialize(t)
    \/ CannotForm(t) \/ Store(t) \/ Load(t) \/ Move(t)
    \/ CopyRelease(t) \/ RootDealloc(t) \/ Clear(t) \/ Free(t)

\* Nothing happens after _objc_fatal.
Next == ~fatal /\ \E t \in Threads : (Running(t) /\ Calls(t)) \/ Steps(t)

Spec == Init /\ [][Next]_vars

-----------------------------------------------------------------------------
(* Properties. *)

\* A weak variable never holds an object that has been freed: whatever the
\* other threads store, move or copy while -dealloc runs, its clearing of the
\* variables misses none, and a load finds a live object or nil
\* (weak_clear_no_lock, storeWeak).
NoZombie ==
    \A v \in Locations :
        live[v] /\ location[v] # nil => life[location[v]] # "unallocated"

\* "a list of all locations where this address is currently being stored"
\* (objc-weak.h): exactly the variables that hold the object are registered
\* with it, so that none is missed and none is written to after its end.
RegistrationExact ==
    \A v \in Locations, o \in Objects :
        v \in referrers[o] <=> live[v] /\ location[v] = o

\* No use of the functions that their comments allow makes the runtime
\* complain of "incorrect use of objc_storeWeak() and objc_loadWeak()".
NoWeakError == ~weakError

\* objc_loadWeakRetained looks at the object's isa only while it is allocated,
\* although nothing but the side table lock keeps it so (NSObject.mm:558).
NoUseAfterFree ==
    \A t \in Threads :
        At(t, "locked") /\ Loads(Top(t)) /\ ~Stale(Top(t)) =>
            life[Top(t).old] # "unallocated"

\* What is registered with an object changes only in a thread that has locked its
\* side table, so that the code between the locks is one step for the others.
RegisteredUnderLock ==
    [][\A o \in Objects : referrers'[o] # referrers[o] =>
            \E t \in Threads : At(t, "locked") /\ lock[StripeOf[o]] = t]_vars

\* The threads that t waits for: the owner of the next side table it needs, or
\* the one that runs +initialize.
WaitsFor(t) ==
    CASE At(t, "lock") ->
            {lock[s] : s \in {s \in Needed(Top(t)) \ Top(t).held :
                \A r \in Needed(Top(t)) \ Top(t).held : s <= r}} \ {NoThread}
      [] At(t, "classInit") /\ cls = "initializing"
            /\ ~_thisThreadIsInitializingClass(t) ->
            {u \in Threads : _thisThreadIsInitializingClass(u)}
      [] OTHER -> {}

\* "Order by lock address to prevent lock ordering problems" and "Prevent a
\* deadlock between the weak reference machinery and the +initialize
\* machinery": the threads never wait for each other in a circle.
NoDeadlock ==
    \A S \in SUBSET Threads \ {{}} : \E t \in S : WaitsFor(t) \cap S = {}
-----------------------------------------------------------------------------
(* The inductive invariant.                                                *)

\* What a call's operation says of its arguments and of where it can be.
ArgumentsOK(f) ==
    /\ f.loc = nil <=> f.op \in {"load", "message", "initialize", "dealloc"}
    /\ f.from # nil <=> Loads(f) \/ Moves(f)
    /\ f.op = "destroy" => f.new = nil
    /\ f.op \in {"init", "copyInit", "dealloc"} => f.new # nil
    /\ ~Reads(f) => f.old = nil
    /\ (Loads(f) \/ Moves(f)) /\ f.pc # "read" => f.old # nil
    /\ f.pc = "read" => Reads(f)
    /\ f.pc = "release" => f.op = "copyInit"
    /\ f.pc = "running" => f.op \in {"initialize", "dealloc"}
    /\ f.pc = "free" => f.op = "dealloc"

\* What it says of the variables it was called with, as long as it lasts.
VariablesOK(f) ==
    /\ f.op \in {"store", "destroy"} => live[f.loc]
    /\ f.op \in {"init", "copy", "move"} => ~live[f.loc]
    /\ f.op = "copyInit" => (live[f.loc] <=> f.pc = "release")
    /\ Loads(f) \/ Moves(f) => live[f.from]

\* An object is in -dealloc until it is freed, and nothing is registered with it
\* when that happens.
DeallocOK(f) ==
    f.op = "dealloc" =>
        /\ life[f.new] = "deallocating"
        /\ f.pc = "free" => referrers[f.new] = {}

\* A thread owns the side tables its calls have locked, and all it needs before
\* it touches them.
TablesOK(t, f) ==
    /\ \A s \in f.held : lock[s] = t
    /\ f.pc = "locked" => Needed(f) \subseteq f.held

FrameOK(t, f) == ArgumentsOK(f) /\ VariablesOK(f) /\ DeallocOK(f) /\ TablesOK(t, f)

\* What the callers' discipline keeps apart: two calls in progress.
Apart(f, g) ==
    /\ f.loc = g.loc /\ f.loc # nil => f.op = "store" /\ g.op = "store"
    /\ f.op = "destroy" => g.from # f.loc
    /\ Moves(f) => f.from # g.loc /\ ~(Moves(g) /\ g.from = f.from)
    /\ f.op = "dealloc" /\ g.op = "dealloc" => f.new # g.new
    /\ f.held \cap g.held = {}

FramesOK == \A t \in Threads : \A i \in DOMAIN stack[t] : FrameOK(t, stack[t][i])

FramesApart ==
    \A t, u \in Threads : \A i \in DOMAIN stack[t], j \in DOMAIN stack[u] :
        t # u \/ i # j => Apart(stack[t][i], stack[u][j])

\* The references that objc_copyWeak has loaded and will release.
Copies(t, o) ==
    {i \in DOMAIN stack[t] : stack[t][i].op = "copyInit" /\ stack[t][i].new = o}

ReferencesOK ==
    \A t \in Threads, o \in Objects :
        /\ refs[t][o] > 0 => life[o] = "alive"
        /\ Cardinality(Copies(t, o)) <= refs[t][o]

\* Only what is marked has variables registered with it, and nothing free has.
MarkedOK ==
    \A o \in Objects :
        referrers[o] # {} => weaklyReferenced[o] /\ life[o] # "unallocated"

IInv ==
    /\ TypeOK
    /\ FramesOK
    /\ FramesApart
    /\ ReferencesOK
    /\ MarkedOK
    /\ RegistrationExact
    /\ NoWeakError

=============================================================================
