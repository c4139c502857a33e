--------------------------- MODULE OptimizedReturn ---------------------------
(***************************************************************************)
(* The optimized return of an autoreleased value (objc-object.h:1209-1450, *)
(* NSObject.mm:2136-2175): a callee that sees an optimized caller leaves   *)
(* the object out of the autorelease pool and says in thread-local storage *)
(* with which retain count it returns it; the caller adjusts the count.    *)
(*                                                                         *)
(* One thread, one object, and functions that return it to each other.     *)
(***************************************************************************)
EXTENDS Naturals, Sequences

CONSTANTS MaxDepth, MaxCount     \* bounds: nesting of calls, retain count

VARIABLES
    rc,       \* retain count
    pool,     \* autoreleases pending
    tls,      \* the return disposition: "plus0" or "plus1"
    stack,    \* functions that run: what the caller does with the result, and
              \* how many counts the function owns
    coming    \* what the caller is about to do with a result, or "none"

vars == <<rc, pool, tls, stack, coming>>

(* The three callers: objc_retainAutoreleasedReturnValue follows the call, *)
(* objc_unsafeClaimAutoreleasedReturnValue does, or neither.               *)
Callers == {"retain", "claim", "plain"}
Function(caller) == [caller |-> caller, owns |-> 0]

Top == stack[Len(stack)]
Below == SubSeq(stack, 1, Len(stack) - 1)
Owns(n) == stack' = Append(Below, [Top EXCEPT !.owns = n])

Init == rc = 1 /\ pool = 0 /\ tls = "plus0" /\ coming = "none"
        /\ stack = <<[Function("plain") EXCEPT !.owns = 1]>>

(* callerAcceptsOptimizedReturn looks at the instructions at the return    *)
(* address: that of the function that returns the object, if it jumps to   *)
(* the runtime's function, and else an address inside that function.       *)
callerAcceptsOptimizedReturn(tail) == tail /\ Top.caller \in {"retain", "claim"}

prepareOptimizedReturn(disposition) == tls' = IF disposition = "plus1" THEN "plus1" ELSE tls

Running == coming = "none" /\ stack # <<>>
Return == stack' = Below /\ coming' = Top.caller

----------------------------------------------------------------------------
Call(caller) ==
    /\ Running /\ Len(stack) < MaxDepth
    /\ stack' = Append(stack, Function(caller))
    /\ UNCHANGED <<rc, pool, tls, coming>>

objc_retain ==
    /\ Running /\ rc \in 1 .. MaxCount - 1
    /\ rc' = rc + 1 /\ Owns(Top.owns + 1)
    /\ UNCHANGED <<pool, tls, coming>>

objc_release ==
    /\ Running /\ Top.owns > 0
    /\ rc' = rc - 1 /\ Owns(Top.owns - 1)
    /\ UNCHANGED <<pool, tls, coming>>

(* The function owns one count and returns it.                             *)
objc_autoreleaseReturnValue(tail) ==
    /\ Running /\ Len(stack) > 1 /\ Top.owns = 1
    /\ IF callerAcceptsOptimizedReturn(tail)
       THEN prepareOptimizedReturn("plus1") /\ UNCHANGED pool
       ELSE pool' = pool + 1 /\ UNCHANGED tls
    /\ Return
    /\ UNCHANGED rc

(* It returns an object that others own.                                   *)
objc_retainAutoreleaseReturnValue(tail) ==
    /\ Running /\ Len(stack) > 1 /\ Top.owns = 0 /\ rc \in 1 .. MaxCount - 1
    /\ IF callerAcceptsOptimizedReturn(tail)
       THEN prepareOptimizedReturn("plus0") /\ UNCHANGED <<rc, pool>>
       ELSE rc' = rc + 1 /\ pool' = pool + 1 /\ UNCHANGED tls
    /\ Return

(* It was compiled without the protocol, and returns the object as it is.  *)
ReturnUnowned ==
    /\ Running /\ Len(stack) > 1 /\ Top.owns = 0 /\ rc > 0
    /\ Return
    /\ UNCHANGED <<rc, pool, tls>>

----------------------------------------------------------------------------
(* The caller's next instruction.  acceptOptimizedReturn takes the         *)
(* disposition and resets it.                                              *)
acceptOptimizedReturn_NotReset == UNCHANGED tls
acceptOptimizedReturn == tls' = "plus0"

objc_retainAutoreleasedReturnValue ==
    /\ coming = "retain" /\ (tls = "plus1" \/ rc < MaxCount)
    /\ acceptOptimizedReturn
    /\ rc' = IF tls = "plus1" THEN rc ELSE rc + 1
    /\ Owns(Top.owns + 1)
    /\ coming' = "none" /\ UNCHANGED pool

objc_unsafeClaimAutoreleasedReturnValue ==
    /\ coming = "claim"
    /\ acceptOptimizedReturn
    /\ rc' = IF tls = "plus0" THEN rc ELSE rc - 1
    /\ coming' = "none" /\ UNCHANGED <<pool, stack>>

Ignore == coming = "plain" /\ coming' = "none" /\ UNCHANGED <<rc, pool, tls, stack>>

PoolPop ==
    /\ Running /\ Len(stack) = 1 /\ pool > 0
    /\ rc' = rc - pool /\ pool' = 0
    /\ UNCHANGED <<tls, stack, coming>>

Next ==
    \/ \E c \in Callers : Call(c)
    \/ objc_retain \/ objc_release
    \/ \E tail \in BOOLEAN :
           objc_autoreleaseReturnValue(tail) \/ objc_retainAutoreleaseReturnValue(tail)
    \/ ReturnUnowned
    \/ objc_retainAutoreleasedReturnValue \/ objc_unsafeClaimAutoreleasedReturnValue \/ Ignore
    \/ PoolPop

Spec == Init /\ [][Next]_vars

----------------------------------------------------------------------------
Owned[n \in Nat] == IF n = 0 THEN 0 ELSE stack[n].owns + Owned[n - 1]

(* However optimized and other callers and callees are nested, the count   *)
(* is exactly what the functions own, what the pool will release, and the  *)
(* one count that is on its way to an optimized caller; and the            *)
(* disposition is +0 whenever a function could prepare a return (the       *)
(* assertion at objc-object.h:1411).                                       *)
HandoffBalances ==
    /\ rc = Owned[Len(stack)] + pool + (IF tls = "plus1" THEN 1 ELSE 0)
    /\ coming \notin {"retain", "claim"} => tls = "plus0"

=============================================================================
