------------------------------ MODULE Worktree ------------------------------
(***************************************************************************)
(* A git repository as gitstate sees it: what `git status --porcelain=v1`  *)
(* prints for a working tree over an index over a commit, and what         *)
(* parseStatus makes of it (internal/gitstate/root.go).  A tree maps every *)
(* path to its content or to Absent.  What lies below .staterelay is no    *)
(* path here: parseStatus drops it.  No merge is under way.                *)
(***************************************************************************)
EXTENDS Naturals

CONSTANTS
    Paths,       \* the files that may exist
    Dirs,        \* directories below the root
    DirOf,       \* the directory of a path; Top for a file of the root
    Top,
    Commits,
    TreeOf,      \* TreeOf[c][p]: the content of p in commit c, or Absent
    Ignored,     \* the paths .gitignore covers
    Quote,       \* Quote[p]: what git prints for a path with a blank in it
    Contents,    \* file contents
    Absent       \* no file

Trees == [Paths -> Contents \cup {Absent}]

Tracked(c, p) == TreeOf[c][p] # Absent

Quoted == DOMAIN Quote
Quotes == {Quote[p] : p \in Quoted}

ASSUME WorktreeAssumption ==
    /\ Absent \notin Contents
    /\ DirOf \in [Paths -> Dirs \cup {Top}]
    /\ Paths \cap Dirs = {}
    /\ Top \notin Dirs \cup Paths
    /\ TreeOf \in [Commits -> Trees]
    /\ Ignored \subseteq Paths
    /\ Quoted \subseteq Paths
    /\ Quotes \cap (Paths \cup Dirs) = {}

\* The text of a path in the output: git quotes an odd one, and parseStatus
\* takes the quotes for a part of it.
Printed(p) == IF p \in Quoted THEN Quote[p] ELSE p

\* git names a directory instead of its files when none of them is indexed.
Entry(index, p) ==
    IF DirOf[p] # Top /\ \A q \in Paths : DirOf[q] = DirOf[p] => index[q] = Absent
      THEN DirOf[p]
      ELSE Printed(p)

-----------------------------------------------------------------------------
(* The entries, with the status statusName gives them. *)

Differs(head, index, tree, p) ==
    index[p] # Absent /\ (index[p] # head[p] \/ tree[p] # index[p])

\* q was added to the index with what p had: git prints "R  p -> q".  (It also
\* pairs contents that are only similar, and each name once.)
Moved(head, index, p, q) ==
    /\ head[p] # Absent /\ index[p] = Absent
    /\ head[q] = Absent /\ index[q] = head[p]

StatusOf(head, index, tree, p) ==
    IF head[p] = Absent /\ ~ \E q \in Paths : Moved(head, index, q, p) THEN "added"
    ELSE IF tree[p] = Absent THEN "deleted"
    ELSE IF head[p] = Absent THEN "renamed"
    ELSE "modified"

Changed(head, index, tree) ==
    {[path |-> Printed(p), status |-> StatusOf(head, index, tree, p)] :
        p \in {q \in Paths : Differs(head, index, tree, q)}}

\* Gone from the index, and not the old name of a rename.
Unindexed(head, index) ==
    {[path |-> Printed(p), status |-> "deleted"] :
        p \in {q \in Paths : /\ head[q] # Absent /\ index[q] = Absent
                             /\ ~ \E r \in Paths : Moved(head, index, q, r)}}

Untracked(index, tree) ==
    {[path |-> Entry(index, p), status |-> "untracked"] :
        p \in {q \in Paths : index[q] = Absent /\ tree[q] # Absent /\ q \notin Ignored}}

\* State.ChangedFiles before the contents are read.
ChangedFiles(head, index, tree) ==
    Changed(head, index, tree) \cup Unindexed(head, index) \cup Untracked(index, tree)

\* The paths of a tree with nothing staged.
Status(c, tree) == {e.path : e \in ChangedFiles(TreeOf[c], TreeOf[c], tree)}
=============================================================================
