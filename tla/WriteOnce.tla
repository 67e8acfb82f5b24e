----------------------------- MODULE WriteOnce -----------------------------
(***************************************************************************)
(* What LoadOrCreate of internal/deviceidentity promises, told without     *)
(* files: a workspace gets at most one key, one of a maker's, keeps it     *)
(* from then on, and every command that goes on with a key has that one.   *)
(***************************************************************************)

CONSTANTS Makers, Users, None

VARIABLES
    value,     \* the key of the workspace, or None
    learned    \* learned[p]: the key a command goes on with, or None

vars == <<value, learned>>

Init ==
    /\ value = None
    /\ learned = [p \in Makers \cup Users |-> None]

\* A maker sets its key; it may die before it goes on with it.
Decide(m) ==
    /\ value = None
    /\ value' = m
    /\ learned' \in {learned, [learned EXCEPT ![m] = m]}

Learn(p) ==
    /\ value # None
    /\ learned[p] = None
    /\ learned' = [learned EXCEPT ![p] = value]
    /\ UNCHANGED value

Next ==
    \/ \E m \in Makers : Decide(m)
    \/ \E p \in Makers \cup Users : Learn(p)

Spec == Init /\ [][Next]_vars
=============================================================================
