----------------------------- MODULE WinMonitor ------------------------------
(***************************************************************************)
(* The monitor of the Windows port: a condition variable made of a mutex,  *)
(* a semaphore on which the waiters sleep, and an event by which the last  *)
(* of them tells a broadcaster that all are awake.  It is built by the     *)
(* first thread that enters it.  Threads use it the way the runtime does:  *)
(* a waiter waits until there is something to take, a notifier gives.      *)
(***************************************************************************)
EXTENDS Integers, FiniteSets

CONSTANTS Threads, MaxGifts

VARIABLES
    installed,      \* c->mutex is set
    built,          \* the other fields are
    mutex,          \* the mutex's owner, or None
    waiters,        \* the semaphore's count
    waitersDone,    \* the event is signalled
    waitCount, didBroadcast,
    gifts, given,   \* what there is to take; how often something was given
    pc, role, last

vars == <<installed, built, mutex, waiters, waitersDone, waitCount, didBroadcast, gifts, given, pc, role, last>>
fields == <<waiters, waitersDone, waitCount, didBroadcast>>
None == "none"

Goto(t, where) == pc' = [pc EXCEPT ![t] = where]

----------------------------------------------------------------------------
begin(t) ==
    /\ pc[t] = "idle"
    /\ \E r \in {"wait", "notify", "notifyAll"} :
           /\ r # "wait" => given < MaxGifts
           /\ role' = [role EXCEPT ![t] = r]
    /\ Goto(t, IF installed THEN "acquire" ELSE "init")
    /\ UNCHANGED <<installed, built, mutex, fields, gifts, given, last>>

(* monitor_init: a mutex that its maker owns is put in place; whoever      *)
(* succeeds builds the rest before he lets go of it.                       *)
monitor_init_Unowned(t) ==
    /\ pc[t] = "init"
    /\ IF installed
       THEN Goto(t, "acquire") /\ UNCHANGED <<installed, mutex>>
       ELSE installed' = TRUE /\ Goto(t, "build") /\ UNCHANGED mutex
    /\ UNCHANGED <<built, fields, gifts, given, role, last>>

monitor_init(t) ==
    /\ pc[t] = "init"
    /\ IF installed
       THEN Goto(t, "acquire") /\ UNCHANGED <<installed, mutex>>
       ELSE installed' = TRUE /\ mutex' = t /\ Goto(t, "build")
    /\ UNCHANGED <<built, fields, gifts, given, role, last>>

monitor_build(t) ==
    /\ pc[t] = "build"
    /\ waiters' = 0 /\ waitersDone' = FALSE /\ waitCount' = 0 /\ didBroadcast' = FALSE
    /\ built' = TRUE /\ mutex' = None /\ Goto(t, "acquire")
    /\ UNCHANGED <<installed, gifts, given, role, last>>

(* _monitor_enter_nodebug, and what the caller does inside.                *)
monitor_enter(t) ==
    /\ pc[t] = "acquire" /\ mutex = None
    /\ mutex' = t
    /\ Goto(t, role[t])
    /\ UNCHANGED <<installed, built, fields, gifts, given, role, last>>

monitor_leave(t) ==
    /\ pc[t] = "leave"
    /\ mutex' = None /\ Goto(t, "idle")
    /\ UNCHANGED <<installed, built, fields, gifts, given, role, last>>

----------------------------------------------------------------------------
(* _monitor_wait_nodebug, in the loop of its caller.                       *)
wait_count(t) ==
    /\ pc[t] = "wait"
    /\ IF gifts > 0
       THEN gifts' = gifts - 1 /\ Goto(t, "leave") /\ UNCHANGED waitCount
       ELSE waitCount' = waitCount + 1 /\ Goto(t, "signal") /\ UNCHANGED gifts
    /\ UNCHANGED <<installed, built, mutex, waiters, waitersDone, didBroadcast, given, role, last>>

wait_signal(t) ==                   \* SignalObjectAndWait leaves the mutex ...
    /\ pc[t] = "signal"
    /\ mutex' = None /\ Goto(t, "asleep")
    /\ UNCHANGED <<installed, built, fields, gifts, given, role, last>>

wait_wake(t) ==                     \* ... and takes one of the semaphore
    /\ pc[t] = "asleep" /\ waiters > 0
    /\ waiters' = waiters - 1 /\ Goto(t, "awake")
    /\ UNCHANGED <<installed, built, mutex, waitersDone, waitCount, didBroadcast, gifts, given, role, last>>

wait_awake_AlwaysLast(t) ==
    /\ pc[t] = "awake"
    /\ waitCount' = waitCount - 1
    /\ last' = [last EXCEPT ![t] = didBroadcast]
    /\ Goto(t, "awaken")
    /\ UNCHANGED <<installed, built, mutex, waiters, waitersDone, didBroadcast, gifts, given, role>>

wait_awake(t) ==
    /\ pc[t] = "awake"
    /\ waitCount' = waitCount - 1
    /\ last' = [last EXCEPT ![t] = didBroadcast /\ waitCount = 1]
    /\ Goto(t, "awaken")
    /\ UNCHANGED <<installed, built, mutex, waiters, waitersDone, didBroadcast, gifts, given, role>>

wait_done(t) ==
    /\ pc[t] = "awaken"
    /\ waitersDone' = (waitersDone \/ last[t])
    /\ last' = [last EXCEPT ![t] = FALSE]
    /\ Goto(t, "acquire")
    /\ UNCHANGED <<installed, built, mutex, waiters, waitCount, didBroadcast, gifts, given, role>>

----------------------------------------------------------------------------
(* monitor_notify and monitor_notifyAll, inside the monitor.               *)
monitor_notify(t) ==
    /\ pc[t] = "notify"
    /\ gifts' = gifts + 1 /\ given' = given + 1
    /\ Goto(t, IF waitCount > 0 THEN "release" ELSE "leave")
    /\ UNCHANGED <<installed, built, mutex, fields, role, last>>

notify_release(t) ==
    /\ pc[t] = "release"
    /\ waiters' = waiters + 1 /\ Goto(t, "leave")
    /\ UNCHANGED <<installed, built, mutex, waitersDone, waitCount, didBroadcast, gifts, given, role, last>>

monitor_notifyAll(t) ==
    /\ pc[t] = "notifyAll"
    /\ gifts' = Cardinality(Threads) /\ given' = given + 1
    /\ IF waitCount = 0
       THEN Goto(t, "leave") /\ UNCHANGED <<didBroadcast, waiters>>
       ELSE didBroadcast' = TRUE /\ waiters' = waiters + waitCount /\ Goto(t, "broadcast")
    /\ UNCHANGED <<installed, built, mutex, waitersDone, waitCount, role, last>>

notifyAll_done(t) ==                \* the event resets itself
    /\ pc[t] = "broadcast" /\ waitersDone
    /\ waitersDone' = FALSE /\ didBroadcast' = FALSE /\ Goto(t, "leave")
    /\ UNCHANGED <<installed, built, mutex, waiters, waitCount, gifts, given, role, last>>

Init ==
    /\ installed = FALSE /\ built = FALSE /\ mutex = None
    /\ waiters = 0 /\ waitersDone = FALSE /\ waitCount = 0 /\ didBroadcast = FALSE
    /\ gifts = 0 /\ given = 0
    /\ pc = [t \in Threads |-> "idle"] /\ role = [t \in Threads |-> "wait"]
    /\ last = [t \in Threads |-> FALSE]

Next ==
    \E t \in Threads :
        \/ begin(t) \/ monitor_init(t) \/ monitor_build(t) \/ monitor_enter(t) \/ monitor_leave(t)
        \/ wait_count(t) \/ wait_signal(t) \/ wait_wake(t) \/ wait_awake(t) \/ wait_done(t)
        \/ monitor_notify(t) \/ notify_release(t) \/ monitor_notifyAll(t) \/ notifyAll_done(t)

----------------------------------------------------------------------------
(* One thread at a time is inside, and only once the monitor is built.  A  *)
(* broadcast is over only when nobody sleeps, and does not wait for ever.  *)
(* Nobody sleeps beside a gift unless somebody is up who will see to it.   *)
Inside == {"wait", "signal", "notify", "release", "notifyAll", "broadcast", "leave"}
Moves(t) ==
    CASE pc[t] = "idle" -> FALSE
      [] pc[t] = "acquire" -> mutex = None
      [] pc[t] = "asleep" -> waiters > 0
      [] pc[t] = "broadcast" -> waitersDone
      [] OTHER -> TRUE
NoLostWakeup ==
    /\ \A t \in Threads : pc[t] \in Inside => built /\ mutex = t
    /\ \A t, u \in Threads : (role[t] = "notifyAll" /\ pc[t] = "leave") => pc[u] # "asleep"
    /\ (\E t \in Threads : pc[t] \notin {"idle", "asleep"}) => \E t \in Threads : Moves(t)
    /\ (gifts > 0 /\ \E t \in Threads : pc[t] = "asleep") => \E t \in Threads : Moves(t)

=============================================================================
