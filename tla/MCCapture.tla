----------------------------- MODULE MCCapture -----------------------------
(* A small repository for Capture: a is tracked, n in the root and u in the    *)
(* directory d are not; the name of u has a blank in it.                       *)
EXTENDS Capture

CONSTANTS a, n, u, d, uq, base, mine, big, c1, c2

\* c2 commits n.
TwoCommits ==
    [c \in Commits |-> [p \in Paths |->
        IF p = a THEN base ELSE IF p = n /\ c = c2 THEN mine ELSE Absent]]

OneDirectory == [p \in Paths |-> IF p = u THEN d ELSE Top]
OneQuote == [p \in {u} |-> uq]
=============================================================================
