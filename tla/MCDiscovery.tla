---------------------------- MODULE MCDiscovery ----------------------------
(* Six answers of a network: of one device on two interfaces, of two devices   *)
(* with one name, of two without identity, and one that cannot be reached.     *)
EXTENDS Discovery

MCEntries == 1 .. 6
MCInstance == <<1, 1, 2, 3, 3, 4>>
MCTxtName == <<2, 2, 2, 0, 3, 0>>
MCFingerprint == <<7, 7, 8, 0, 0, 0>>
MCAddress == <<2, 1, 3, 5, 4, 0>>
=============================================================================
