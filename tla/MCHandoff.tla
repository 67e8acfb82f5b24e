----------------------------- MODULE MCHandoff -----------------------------
(* Three files in the editor, of which two exist on the destination, or none;  *)
(* a directory that is there or one that is gone, and one URL.                 *)
EXTENDS Handoff, TLC

CONSTANTS f, g, h, dir, gone, url

SmallLists ==
    [k \in Kinds |-> CASE k = "editor" -> {<<>>, <<f, g, h>>}
                       [] k = "terminal" -> {<<dir>>, <<gone>>}
                       [] k = "browser" -> {<<url>>}]
Swap == Permutations(Contents)
=============================================================================
