----------------------------- MODULE MCRestore -----------------------------
(* Small repositories for Restore.  The files: a is tracked, n is not; ac and  *)
(* ac2, nc and nc2 are the names of their conflict copies; d holds only the    *)
(* untracked file u, whose copies would be uc and uc2.                         *)
EXTENDS Restore

CONSTANTS a, n, ac, ac2, nc, nc2, d, u, uc, uc2, base, old, mine, theirs, theirs2

Commit(content) == [p \in Paths |-> IF p = a THEN content ELSE Absent]
TwoCommits == [c \in Commits |-> IF c = SessionCommit THEN Commit(base) ELSE Commit(old)]

InRoot == [p \in Paths |-> Top]
UInDirectory == [p \in Paths |-> IF p \in {u, uc, uc2} THEN d ELSE Top]

NothingQuoted == [p \in {} |-> Top]

\* The capture changed a and added n.
ChangedAndNew == [p \in {a, n} |-> theirs]
\* It was made where a restore had left ac beside a.
ChangedAndCopy == [p \in {a, ac} |-> IF p = a THEN theirs ELSE theirs2]
\* It added u in a directory of its own and n, which .gitignore covers; both
\* were staged there (git add -f), so that the capture listed each by itself.
AddedFiles == [p \in {u, n} |-> theirs]

CopiesOf ==
    [p \in Copyable |->
        [k \in 1 .. MaxCopies |->
            CASE p = a /\ k = 1 -> ac [] p = a /\ k = 2 -> ac2
              [] p = n /\ k = 1 -> nc [] p = n /\ k = 2 -> nc2
              [] p = u /\ k = 1 -> uc [] p = u /\ k = 2 -> uc2
              [] OTHER -> nc2]]
=============================================================================
