----------------------------- MODULE MCHistory -----------------------------
(* Four requests, two of them under one id, within one second of four instants *)
(* and the next; a fraction has two digits, 0 or 1.                            *)
EXTENDS History, TLC

CONSTANTS h1, h2, h3, h4

MCId == [h \in Handlers |-> CASE h = h1 -> 1 [] h = h2 -> 2 [] h \in {h3, h4} -> 3]
MCWeight == [n \in 0 .. Places |-> Base ^ (Places - n)]
MCLimits == {0, 1, 2}
Swap == Permutations({h3, h4})
=============================================================================
