----------------------------- MODULE Initialize -----------------------------
(***************************************************************************)
(* +initialize (objc-initialize.mm): the first message to a class          *)
(* initializes its superclasses and then the class itself, once, on one    *)
(* thread; other threads that send it a message wait.  A class whose       *)
(* +initialize ends inside that of its superclass is marked initialized    *)
(* together with the superclass.  In the child of fork() the threads that  *)
(* were initializing are gone.                                             *)
(*                                                                         *)
(* What a +initialize method does is left open but for the classes it may  *)
(* message, Messages[c].  The unlocked reads of a class's state are steps  *)
(* of their own; what happens under classInitLock is one step.             *)
(***************************************************************************)
EXTENDS Naturals, FiniteSets, Sequences, SequencesExt

CONSTANTS
    Threads, Classes, nil,
    superclass,   \* [Classes -> Classes \cup {nil}]
    Messages,     \* [Classes -> SUBSET Classes]: whom c's +initialize messages
    Trivial,      \* classes whose +initialize is absent, empty or the root's
    Funcs,        \* the will-initialize callbacks
    MayFork,
    MaxSends,     \* bound: messages that one +initialize sends
    MaxCalls      \* bound: messages that a thread sends of its own

VARIABLES
    info,         \* [Classes -> {"new", "initializing", "initialized"}]
    pendingInitializeMap,  \* [Classes -> Seq(Classes)]: waiting for this superclass
    initializingClasses,   \* [Threads -> SUBSET Classes]
    stack,        \* [Threads -> Seq(frame)]: calls of initializeNonMetaClass
    willInitializeFuncs,   \* callbacks registered
    telling,      \* [Threads -> Funcs -> SUBSET Classes]: left to a registrar's loop
    told,         \* [Funcs -> [Classes -> Nat]]: callbacks made
    calls,        \* [Threads -> Nat]
    child,        \* MultithreadedForkChild
    alive,        \* the threads of this process
    halted        \* "no", "fork" (refused after fork) or "fatal"

vars == <<info, pendingInitializeMap, initializingClasses, stack, willInitializeFuncs,
          telling, told, calls, child, alive, halted>>

isInitialized(c) == info[c] = "initialized"
isInitializing(c) == info[c] = "initializing"

Frame(c) == [cls |-> c, pc |-> "super", sends |-> 0, funcs |-> {}]

Init ==
    /\ info = [c \in Classes |-> "new"]
    /\ pendingInitializeMap = [c \in Classes |-> <<>>]
    /\ initializingClasses = [t \in Threads |-> {}]
    /\ stack = [t \in Threads |-> <<>>]
    /\ willInitializeFuncs = {}
    /\ telling = [t \in Threads |-> [f \in Funcs |-> {}]]
    /\ told = [f \in Funcs |-> [c \in Classes |-> 0]]
    /\ calls = [t \in Threads |-> 0]
    /\ child = FALSE
    /\ alive = Threads
    /\ halted = "no"

----------------------------------------------------------------------------
(* A thread's innermost call, and what a step makes of it.                 *)

Running(t) == halted = "no" /\ stack[t] # <<>>
Top(t) == Last(stack[t])
At(t, pc) == Running(t) /\ Top(t).pc = pc
Goto(t, f) == stack' = [stack EXCEPT ![t] = Append(Front(@), f)]
ReturnFrom(t) == stack' = [stack EXCEPT ![t] = Front(@)]

(* lookUpImpOrForward and object_getClass users call                       *)
(* initializeNonMetaClass for a class that is not initialized.             *)
Call(t, c, below) == stack' = [stack EXCEPT ![t] = Append(below, Frame(c))]

(* A thread sends a message of its own.                                    *)
Message(t, c) ==
    /\ halted = "no" /\ t \in alive
    /\ stack[t] = <<>> /\ \A f \in Funcs : telling[t][f] = {}
    /\ calls[t] < MaxCalls /\ ~isInitialized(c)
    /\ calls' = [calls EXCEPT ![t] = @ + 1]
    /\ Call(t, c, <<>>)
    /\ UNCHANGED <<info, pendingInitializeMap, initializingClasses, willInitializeFuncs,
                   telling, told, child, alive, halted>>

(* Superclasses first: lines 501-505.                                      *)
InitializeSuper(t) ==
    /\ At(t, "super")
    /\ LET super == superclass[Top(t).cls]
           next == Append(Front(stack[t]), [Top(t) EXCEPT !.pc = "try"])
       IN  IF super # nil /\ ~isInitialized(super)
           THEN Call(t, super, next)
           ELSE stack' = [stack EXCEPT ![t] = next]
    /\ UNCHANGED <<info, pendingInitializeMap, initializingClasses, willInitializeFuncs,
                   telling, told, calls, child, alive, halted>>

(* setInitializing() under classInitLock, with a copy of the callbacks.    *)
SetInitializing(t) ==
    /\ At(t, "try")
    /\ LET c == Top(t).cls IN
       IF info[c] = "new"
       THEN /\ info' = [info EXCEPT ![c] = "initializing"]
            /\ Goto(t, [Top(t) EXCEPT !.pc = "mine", !.funcs = willInitializeFuncs])
       ELSE /\ Goto(t, [Top(t) EXCEPT !.pc = "check"])
            /\ UNCHANGED info
    /\ UNCHANGED <<pendingInitializeMap, initializingClasses, willInitializeFuncs,
                   telling, told, calls, child, alive, halted>>

(* _setThisThreadIsInitializingClass: fatal if it already is.              *)
_setThisThreadIsInitializingClass(t, c) ==
    /\ initializingClasses' = [initializingClasses EXCEPT ![t] = @ \cup {c}]
    /\ halted' = IF c \in initializingClasses[t] THEN "fatal" ELSE halted

Claim(t) ==
    /\ At(t, "mine")
    /\ _setThisThreadIsInitializingClass(t, Top(t).cls)
    /\ Goto(t, [Top(t) EXCEPT !.pc = IF child THEN "forked" ELSE "tell"])
    /\ UNCHANGED <<info, pendingInitializeMap, willInitializeFuncs, telling, told, calls,
                   child, alive>>

(* The callbacks, then callInitialize().                                   *)
WillInitialize(t) ==
    /\ At(t, "tell")
    /\ IF Top(t).funcs = {}
       THEN Goto(t, [Top(t) EXCEPT !.pc = "run", !.sends = MaxSends]) /\ UNCHANGED told
       ELSE \E f \in Top(t).funcs :
                /\ told' = [told EXCEPT ![f][Top(t).cls] = @ + 1]
                /\ Goto(t, [Top(t) EXCEPT !.funcs = @ \ {f}])
    /\ UNCHANGED <<info, pendingInitializeMap, initializingClasses, willInitializeFuncs,
                   telling, calls, child, alive, halted>>

(* +initialize sends a message; to its own class too, as the message       *)
(* +initialize itself does.  The messages of a callback of WillInitialize  *)
(* come at the same place, before the class is marked, and stand for the   *)
(* same: a root's +initialize may be empty, and subclasses still wait.     *)
callInitialize(t, d) ==
    /\ At(t, "run")
    /\ Top(t).sends > 0 /\ d \in Messages[Top(t).cls] /\ ~isInitialized(d)
    /\ Call(t, d, Append(Front(stack[t]), [Top(t) EXCEPT !.sends = @ - 1]))
    /\ UNCHANGED <<info, pendingInitializeMap, initializingClasses, willInitializeFuncs,
                   telling, told, calls, child, alive, halted>>

----------------------------------------------------------------------------
(* The end of a +initialize method, by return or by an exception.          *)

(* c and every class below it that waits in the pending lists for one that *)
(* is marked: the recursion of _finishInitializing.                        *)
Finished(c) ==
    LET upTo[n \in Nat] ==
            IF n = 0 THEN {c}
            ELSE upTo[n - 1] \cup UNION {Range(pendingInitializeMap[d]) : d \in upTo[n - 1]}
    IN  upTo[Cardinality(Classes)]

notifyAll_Forgotten(calling) == calling

(* notifyAll: every thread asleep in waitForInitializeToComplete looks     *)
(* again.                                                                  *)
notifyAll(calling) ==
    [u \in Threads |->
        IF calling[u] # <<>> /\ Last(calling[u]).pc = "asleep"
        THEN Append(Front(calling[u]), [Last(calling[u]) EXCEPT !.pc = "wait"])
        ELSE calling[u]]

(* _setThisThreadIsNotInitializingClass is fatal for a class that another  *)
(* thread is initializing.                                                 *)
_finishInitializing(t, c) ==
    LET done == Finished(c) IN
    /\ info' = [d \in Classes |-> IF d \in done THEN "initialized" ELSE info[d]]
    /\ stack' = notifyAll([stack EXCEPT ![t] = Front(@)])
    /\ initializingClasses' = [initializingClasses EXCEPT ![t] = @ \ done]
    /\ pendingInitializeMap' =
           [d \in Classes |-> IF d \in done THEN <<>> ELSE pendingInitializeMap[d]]
    /\ halted' = IF done \subseteq initializingClasses[t] THEN halted ELSE "fatal"

_finishInitializingAfter(t, c) ==
    /\ pendingInitializeMap' = [pendingInitializeMap EXCEPT ![superclass[c]] = <<c>> \o @]
    /\ ReturnFrom(t)
    /\ UNCHANGED <<info, initializingClasses, halted>>

lockAndFinishInitializing_NeverPending(t) ==
    /\ _finishInitializing(t, Top(t).cls)
    /\ UNCHANGED <<willInitializeFuncs, telling, told, calls, child, alive>>

lockAndFinishInitializing(t) ==
    LET c == Top(t).cls IN
    /\ IF superclass[c] = nil \/ isInitialized(superclass[c])
       THEN _finishInitializing(t, c)
       ELSE _finishInitializingAfter(t, c)
    /\ UNCHANGED <<willInitializeFuncs, telling, told, calls, child, alive>>

EndInitialize(t) == At(t, "run") /\ lockAndFinishInitializing(t)

(* In the child of fork() only a class with no +initialize of its own is   *)
(* marked; for any other the process halts.                                *)
performForkChildInitialize(t) ==
    /\ At(t, "forked")
    /\ \/ Top(t).cls \in Trivial /\ lockAndFinishInitializing(t)
       \/ /\ Top(t).cls \notin Trivial
          /\ halted' = "fork"
          /\ UNCHANGED <<info, pendingInitializeMap, initializingClasses, stack,
                         willInitializeFuncs, telling, told, calls, child, alive>>

----------------------------------------------------------------------------
(* The class was not new under the lock.  Its state is read again without  *)
(* it, once for each question.                                             *)

CheckInitializing_AnyThread(t) ==
    /\ At(t, "check")
    /\ IF isInitializing(Top(t).cls) THEN ReturnFrom(t) ELSE Goto(t, [Top(t) EXCEPT !.pc = "done"])
    /\ UNCHANGED <<info, pendingInitializeMap, initializingClasses, willInitializeFuncs, telling,
                   told, calls, child, alive, halted>>

CheckInitializing(t) ==
    LET c == Top(t).cls IN
    /\ At(t, "check")
    /\ \/ /\ isInitializing(c) /\ c \in initializingClasses[t]
          /\ ReturnFrom(t)
          /\ UNCHANGED <<initializingClasses, halted>>
       \/ /\ isInitializing(c) /\ c \notin initializingClasses[t] /\ ~child
          /\ Goto(t, [Top(t) EXCEPT !.pc = "wait"])
          /\ UNCHANGED <<initializingClasses, halted>>
       \/ /\ isInitializing(c) /\ c \notin initializingClasses[t] /\ child
          /\ _setThisThreadIsInitializingClass(t, c)
          /\ Goto(t, [Top(t) EXCEPT !.pc = "forked"])
       \/ /\ ~isInitializing(c)
          /\ Goto(t, [Top(t) EXCEPT !.pc = "done"])
          /\ UNCHANGED <<initializingClasses, halted>>
    /\ UNCHANGED <<info, pendingInitializeMap, willInitializeFuncs, telling, told, calls,
                   child, alive>>

CheckInitialized(t) ==
    /\ At(t, "done")
    /\ ReturnFrom(t)
    /\ halted' = IF isInitialized(Top(t).cls) THEN halted ELSE "fatal"
    /\ UNCHANGED <<info, pendingInitializeMap, initializingClasses, willInitializeFuncs,
                   telling, told, calls, child, alive>>

(* Under the monitor's lock: done, or asleep until notifyAll.              *)
waitForInitializeToComplete(t) ==
    /\ At(t, "wait")
    /\ IF isInitialized(Top(t).cls)
       THEN ReturnFrom(t)
       ELSE Goto(t, [Top(t) EXCEPT !.pc = "asleep"])
    /\ UNCHANGED <<info, pendingInitializeMap, initializingClasses, willInitializeFuncs,
                   telling, told, calls, child, alive, halted>>

----------------------------------------------------------------------------
(* _objc_addWillInitializeClassFunc: under classInitLock the classes that  *)
(* are initialized or on the way are noted and the callback is registered; *)
(* the callback is then made for the noted ones.                           *)
_objc_addWillInitializeClassFunc_SkipsInitializing(t, f) ==
    /\ halted = "no" /\ t \in alive /\ stack[t] = <<>>
    /\ f \notin willInitializeFuncs
    /\ telling' = [telling EXCEPT ![t][f] = {c \in Classes : isInitialized(c)}]
    /\ willInitializeFuncs' = willInitializeFuncs \cup {f}
    /\ UNCHANGED <<info, pendingInitializeMap, initializingClasses, stack, told, calls,
                   child, alive, halted>>

_objc_addWillInitializeClassFunc(t, f) ==
    /\ halted = "no" /\ t \in alive /\ stack[t] = <<>>
    /\ f \notin willInitializeFuncs
    /\ telling' = [telling EXCEPT ![t][f] = {c \in Classes : info[c] # "new"}]
    /\ willInitializeFuncs' = willInitializeFuncs \cup {f}
    /\ UNCHANGED <<info, pendingInitializeMap, initializingClasses, stack, told, calls,
                   child, alive, halted>>

TellInitialized(t, f) ==
    /\ halted = "no"
    /\ \E c \in telling[t][f] :
           /\ told' = [told EXCEPT ![f][c] = @ + 1]
           /\ telling' = [telling EXCEPT ![t][f] = @ \ {c}]
    /\ UNCHANGED <<info, pendingInitializeMap, initializingClasses, stack,
                   willInitializeFuncs, calls, child, alive, halted>>

(* fork(), by a thread of its own or inside +initialize.  The handlers     *)
(* hold classInitLock, so the child finds no step half done; it has only   *)
(* this thread.                                                            *)
fork(t) ==
    /\ MayFork /\ ~child /\ halted = "no"
    /\ stack[t] = <<>> \/ At(t, "run")
    /\ child' = TRUE
    /\ alive' = {t}
    /\ stack' = [u \in Threads |-> IF u = t THEN stack[t] ELSE <<>>]
    /\ telling' = [u \in Threads |-> IF u = t THEN telling[t] ELSE [f \in Funcs |-> {}]]
    /\ UNCHANGED <<info, pendingInitializeMap, initializingClasses, willInitializeFuncs,
                   told, calls, halted>>

----------------------------------------------------------------------------
Step(t) ==
    \/ InitializeSuper(t)
    \/ SetInitializing(t)
    \/ Claim(t)
    \/ WillInitialize(t)
    \/ EndInitialize(t)
    \/ performForkChildInitialize(t)
    \/ CheckInitializing(t)
    \/ CheckInitialized(t)
    \/ waitForInitializeToComplete(t)
    \/ \E f \in Funcs : TellInitialized(t, f)

Next ==
    \E t \in Threads :
        \/ Step(t)
        \/ \E c \in Classes : Message(t, c) \/ callInitialize(t, c)
        \/ \E f \in Funcs : _objc_addWillInitializeClassFunc(t, f)
        \/ fork(t)

Spec == Init /\ [][Next]_vars

(* Every thread runs, takes its turn at classInitLock, and every           *)
(* +initialize method comes to an end.                                     *)
Fairness == \A t \in Threads : WF_vars(Step(t))

FairSpec == Spec /\ Fairness

----------------------------------------------------------------------------
(* The part of the hierarchy that is initialized, or being so, is a        *)
(* connected one from the root (lines 88-93): a superclass is always       *)
(* further on than its subclass or being initialized by the same thread.   *)
(* Of the fatal errors only one is ever met: in the child of fork(), when  *)
(* a class is marked for which a subclass waits that a thread now gone had *)
(* brought to the end of its +initialize.                                  *)
PendingWasLost ==
    /\ child
    /\ \E u \in Threads \ alive :
           \E c \in initializingClasses[u] : superclass[c] # nil /\ isInitialized(c)

HierarchyInOrder ==
    /\ halted = "fatal" => PendingWasLost
    /\ \A c \in Classes :
           info[c] # "new" /\ superclass[c] # nil =>
               \/ isInitialized(superclass[c])
               \/ isInitializing(c) /\ isInitializing(superclass[c])
    /\ \A t \in Threads :
           \A k \in DOMAIN stack[t] :
               stack[t][k].pc \in {"tell", "run"} /\ superclass[stack[t][k].cls] # nil =>
                   \/ isInitialized(superclass[stack[t][k].cls])
                   \/ superclass[stack[t][k].cls] \in initializingClasses[t]

(* A message reaches a class only when it is initialized or its            *)
(* +initialize is under way on the very thread that sends the message.     *)
MessagesFindClassReady ==
    [][\A t \in Threads :
          t \in alive' /\ Len(stack'[t]) < Len(stack[t]) /\ halted' = "no" =>
              \/ info'[Top(t).cls] = "initialized"
              \/ Top(t).cls \in initializingClasses'[t]]_vars

(* Every registered callback is made exactly once for every class that     *)
(* starts +initialize before or after, however the registration races      *)
(* with it (a fork child calls none).                                      *)
ToldOnce ==
    \A f \in Funcs, c \in Classes :
        /\ told[f][c] <= 1
        /\ (/\ f \in willInitializeFuncs /\ info[c] # "new" /\ ~child
            /\ \A t \in Threads :
                   /\ c \notin telling[t][f]
                   /\ \A k \in DOMAIN stack[t] :
                          stack[t][k].cls = c => stack[t][k].pc \notin {"mine", "tell"})
           => told[f][c] = 1

(* If +initialize methods message only their own superclasses and          *)
(* subclasses, every message is delivered: no two threads initializing     *)
(* from opposite ends of the hierarchy wait for each other, and no wakeup  *)
(* is lost.  Only a child of fork() stops before: where it refuses a       *)
(* +initialize, or in the state that HierarchyInOrder describes.           *)
EveryMessageDelivered ==
    \A t \in Threads :
        (stack[t] # <<>>) ~> (stack[t] = <<>> \/ halted # "no")

(* objc-initialize.mm, lines 435-438, of the child of fork(): "If the      *)
(* class has some +initialize implementation, we halt.  If the class has   *)
(* no +initialize implementation of its own, we continue.  Root class      *)
(* +initialize is assumed to be empty if it exists."                       *)
ForkChildContinues == child => halted # "fatal"

=============================================================================
