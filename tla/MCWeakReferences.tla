-------------------------- MODULE MCWeakReferences --------------------------
(***************************************************************************)
(* What refers to an object besides the references that code keeps, one in *)
(* each behaviour: weak variables (weak), the hash table that knows them   *)
(* (table), the slots of properties (property) and structures in them      *)
(* (struct), and associations (assoc).                                     *)
(***************************************************************************)
EXTENDS WeakReferences, TLC

CONSTANTS t1, t2, v1, v2, v3, v4, o1, o2, u1, u2, u3, a, b, c, k1, k2

VARIABLES part,
    weak_table, registered, tableError, corrupt,
    slot, propertyLock, count, owned, call, bad, memory, structLocks, copy, read,
    associations, has_assoc, assocCount, assocOwned, assocStack, assocFreed, assocBad

tableVars == <<weak_table, registered, tableError, corrupt>>
propertyVars == <<slot, propertyLock, count, owned, call, bad, memory, structLocks, copy, read>>
assocVars == <<associations, has_assoc, assocCount, assocOwned, assocStack, assocFreed, assocBad>>

Symmetry == Permutations(Threads) \cup Permutations(Locations)

\* Two objects whose side tables differ; nil shares the first one.
TwoStripes == {0, 1}
StripeOfTwo == (o1 :> 0) @@ (o2 :> 1) @@ (nil :> 0)

\* Three objects, of which two collide, and four variables, of which two and two do.
\* Those that collide are the values that SYMMETRY exchanges anyhow: t1 and t2 stand
\* for objects here.  Smaller than in the code are only the sizes: tables of 2 slots
\* instead of 64, shrinking from 4 instead of 1024, by 2 at a quarter instead of 8 at
\* a sixteenth.
Hashed ==
    INSTANCE WeakTable WITH
        Objects <- {t1, t2, o1}, Locations <- {v1, v2, v3, v4},
        ObjectHash <- (t1 :> 3) @@ (t2 :> 3) @@ (o1 :> 0),
        LocationHash <- (v1 :> 0) @@ (v2 :> 0) @@ (v3 :> 3) @@ (v4 :> 7),
        WEAK_INLINE_COUNT <- 2, InitialSize <- 2, ShrinkMin <- 4, Sparse <- 4,
        ShrinkBy <- 2, weakError <- tableError, bad <- corrupt

\* Two threads share a property with two values.
Properties ==
    INSTANCE Accessors WITH
        Threads <- {u1, u2}, Values <- {a, b}, MaxOwned <- 1, Ivar <- 3,
        Local <- u1 :> 1 @@ u2 :> 2, Stripe <- <<1, 1, 2>>, Structs <- {<<10, 11>>, <<20, 21>>}

\* The copies of the first two threads share a lock, that of the third has the
\* structure's.
Structures ==
    INSTANCE Accessors WITH
        Threads <- {u1, u2, u3}, Values <- {a, b}, MaxOwned <- 1, Ivar <- 3,
        Local <- u1 :> 1 @@ u2 :> 2 @@ u3 :> 4, Stripe <- <<1, 1, 2, 2>>,
        Structs <- {<<10, 11>>, <<20, 21>>}

\* a is associated with b under two keys, b with c, and a with c without keeping it.
Associated ==
    INSTANCE Associations WITH
        Threads <- {u1, u2}, Objects <- {a, b, c}, Creator <- u1, MaxOwned <- 1,
        Sets <- {<<a, k1, b, {"RETAIN", "GETTER_RETAIN"}>>, <<a, k2, b, {"RETAIN", "SYSTEM_OBJECT"}>>,
                 <<b, k1, c, {"RETAIN"}>>, <<a, k1, c, {}>>},
        count <- assocCount, owned <- assocOwned, stack <- assocStack, freed <- assocFreed,
        bad <- assocBad

-----------------------------------------------------------------------------
MCInit ==
    /\ part \in {"weak", "table", "property", "struct", "assoc"}
    /\ Init /\ Hashed!Init /\ Associated!Init
    /\ IF part = "struct" THEN Structures!Init ELSE Properties!Init
    /\ part # "weak" => cls = "initialized"
    /\ part # "struct" => memory[1] = <<10, 11>>

MCNext ==
    \/ part = "weak" /\ Next /\ UNCHANGED <<part, tableVars, propertyVars, assocVars>>
    \/ part = "table" /\ Hashed!Next /\ UNCHANGED <<part, vars, propertyVars, assocVars>>
    \/ part = "property" /\ Properties!Property /\ UNCHANGED <<part, vars, tableVars, assocVars>>
    \/ part = "struct" /\ Structures!Struct /\ UNCHANGED <<part, vars, tableVars, assocVars>>
    \/ part = "assoc" /\ Associated!Next /\ UNCHANGED <<part, vars, tableVars, propertyVars>>

MCSpec == MCInit /\ [][MCNext]_<<part, vars, tableVars, propertyVars, assocVars>>

-----------------------------------------------------------------------------
\* No call touches an object after it was freed, however it came by its address: from
\* a weak variable, from the slot of a property or from an association; what a slot
\* and an association keep is counted once and given back once.  For weak variables
\* the run checks the inductive invariant from which WeakReferencesProofs proves it.
NobodyUsesFreed ==
    /\ part = "weak" => NoUseAfterFree /\ IInv
    /\ part = "property" => Properties!AccessorsHold
    /\ part = "struct" => Structures!AccessorsHold
    /\ part = "assoc" => Associated!AssociationsKept

\* weak_table_t gives back, for each object, exactly the variables registered with
\* it and not yet unregistered or cleared; it never finds itself corrupt, and
\* remove_referrer finds every variable that was appended.
WeakTableSound == part = "table" => Hashed!FindsExactly /\ Hashed!NeverBad
=============================================================================
