---------------------------- MODULE MCTrustStore ----------------------------
(* A small instance of TrustStore for TLC. *)
EXTENDS TrustStore, TLC

\* Nothing tells devices, commands or listeners apart.
Symmetry == Permutations(Devices) \cup Permutations(Commands) \cup Permutations(Listeners)
=============================================================================
