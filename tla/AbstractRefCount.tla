-------------------------- MODULE AbstractRefCount --------------------------
(***************************************************************************)
(* What the runtime promises of an object's reference count: retain adds a *)
(* reference and counts it, release gives one up, the object starts to die *)
(* exactly when the last reference is gone, never comes back to life and   *)
(* is freed once.                                                          *)
(***************************************************************************)
EXTENDS Naturals

CONSTANT Refs

VARIABLES
    refs,    \* the strong references in existence
    count,   \* what -retainCount returns
    phase    \* "live", "dying" or "freed"

avars == <<refs, count, phase>>

AInit == /\ \E r \in Refs : refs = {r}
         /\ count = 1
         /\ phase = "live"

ARetain(r) == /\ phase = "live" /\ r \notin refs
              /\ refs' = refs \cup {r}
              /\ count' = count + 1
              /\ UNCHANGED phase

ARelease(r) == /\ phase = "live" /\ r \in refs
               /\ refs' = refs \ {r}
               /\ count' = count - 1
               /\ phase' = IF count = 1 THEN "dying" ELSE "live"

AFree == /\ phase = "dying"
         /\ phase' = "freed"
         /\ UNCHANGED <<refs, count>>

ANext == (\E r \in Refs : ARetain(r) \/ ARelease(r)) \/ AFree

ASpec == AInit /\ [][ANext]_avars
=============================================================================
