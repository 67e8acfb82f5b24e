----------------------------- MODULE MCReceive -----------------------------
(* Small instances of Receive for TLC. *)
EXTENDS Receive, TLC

CONSTANTS s1, s2, s3, l1, l2, i1, i2

\* Three captures of one workspace within a second at one commit share a stem.
OneStem == [s \in Sessions |-> "a"]

\* s3 belongs to another workspace.
TwoStems == [s \in Sessions |-> IF s = s3 THEN "b" ELSE "a"]

OneInbox == [l \in Listeners |-> i1]
OwnInbox == [l \in Listeners |-> IF l = l1 THEN i1 ELSE i2]

\* With one stem and one inbox nothing tells runs, sessions or listeners apart.
Symmetry ==
    Permutations(Runs) \cup Permutations(Sessions) \cup Permutations(Listeners)
=============================================================================
