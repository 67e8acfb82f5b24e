--------------------------- MODULE MCInboxReaders ---------------------------
(* Small instances of InboxReaders for TLC. *)
EXTENDS InboxReaders

CONSTANTS s1, s2, l1, l2, i1, i2

\* Two captures of one workspace: s2 is the later one.
OneStem == [s \in Sessions |-> "a"]
Clock == [s \in Sessions |-> IF s = s1 THEN 1 ELSE 2]

OwnInbox == [l \in Listeners |-> IF l = l1 THEN i1 ELSE i2]
=============================================================================
