----------------------------- MODULE AbstractMap -----------------------------
(***************************************************************************)
(* What a DenseMap promises its callers: two maps (so that they can be     *)
(* copied, moved and swapped) from keys to values, in which an entry whose *)
(* value is purgeable may disappear whenever its map is changed.           *)
(***************************************************************************)
CONSTANTS Keys, Values, Purgeable, Absent

VARIABLES mine, theirs

avars == <<mine, theirs>>

Nothing == [k \in Keys |-> Absent]

AInit == mine = Nothing /\ theirs = Nothing

\* g is f with any change at one key; elsewhere a purgeable entry may go.
OneChange(f, g) ==
    \E k \in Keys : \A j \in Keys \ {k} :
        g[j] = f[j] \/ (f[j] \in Purgeable /\ g[j] = Absent)

AChange ==
    /\ mine' \in [Keys -> Values \cup {Absent}]
    /\ OneChange(mine, mine')
    /\ UNCHANGED theirs

AClear == mine' = Nothing /\ UNCHANGED theirs

ASwap == mine' = theirs /\ theirs' = mine

ACopy == theirs' = mine /\ UNCHANGED mine

AMove == theirs' = mine /\ mine' = Nothing

ADestroy == theirs' = Nothing /\ UNCHANGED mine

ANext == AChange \/ AClear \/ ASwap \/ ACopy \/ AMove \/ ADestroy

ASpec == AInit /\ [][ANext]_avars
=============================================================================
