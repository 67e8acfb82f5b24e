------------------------------ MODULE Restore ------------------------------
(***************************************************************************)
(* `relay restore` (runRestore in cmd/relay/main.go): resolve or clone the *)
(* repository, check signer, branch and commit, capture the local state,   *)
(* plan every file and copy, and only then write; the editor, terminal and *)
(* browser state files come last.  The user edits the same tree and may    *)
(* run the command again, also after it died half way.                     *)
(*                                                                         *)
(* Checks and writes are separate steps, because the code makes them with  *)
(* separate git processes and system calls and holds no lock.              *)
(***************************************************************************)
EXTENDS Worktree, FiniteSets

CONSTANTS
    CopyName,        \* CopyName[p][k]: p.staterelay-source, then p.staterelay-source.2, ...
    Copyable,        \* the paths a copy may be made of
    MaxCopies,       \* names tried for a conflict copy (1000 in the code)
    Incoming,        \* Incoming[p]: the content captured for path p
    SessionCommit,   \* the commit, and below the branch, of the session
    Tip,             \* the commit a clone of the branch checks out
    LocalContents,   \* contents the user may write
    EditPaths,       \* the paths the user may touch
    Torn,            \* a file truncated by a write that did not finish
    ConcurrentEdits, \* TRUE when the user also works while the command runs
    WriteFaults,     \* TRUE when writes may fail and the process may die
    MaxRuns          \* bound: executions of the command

Captured == DOMAIN Incoming

\* A quoted path is never captured with content (Capture).
ASSUME RestoreAssumption ==
    /\ Copyable \subseteq Paths
    /\ MaxCopies \in Nat \ {0}
    /\ CopyName \in [Copyable -> [1 .. MaxCopies -> Paths]]
    /\ Captured \subseteq Copyable \ Quoted
    /\ Incoming \in [Captured -> Contents]
    /\ SessionCommit \in Commits /\ Tip \in Commits
    /\ LocalContents \subseteq Contents
    /\ EditPaths \subseteq Paths
    /\ Torn \in Contents \ LocalContents
    /\ ConcurrentEdits \in BOOLEAN /\ WriteFaults \in BOOLEAN
    /\ MaxRuns \in Nat

Kinds == {"editor", "terminal", "browser"}

Flags == {"apply", "dryRun", "keepBoth", "requireTrusted", "cloneDir"}
Options == [Flags -> BOOLEAN]

VARIABLES
    repo,      \* the repository exists where the command looks for it
    onBranch,  \* its current branch is the session's
    commit,    \* its HEAD
    tree,      \* its working tree
    trusted,   \* its trust store has the session's signer
    intact,    \* every path of the session is safe and every hash right
    pc,        \* where the command stands
    opts,      \* its flags
    changed,   \* localChanged: the paths git status listed
    applied,   \* result.applied, as far as it is still to be written
    copies,    \* result.conflicts, as far as to be written: pairs <<p, copy>>
    states,    \* the workspace state files written by this execution
    written,   \* aux: the paths written by this execution
    kept,      \* aux: all of result.conflicts
    runs

repoVars == <<repo, onBranch, commit, trusted>>
planVars == <<changed, applied, copies, kept>>
vars == <<repoVars, tree, intact, pc, opts, planVars, states, written, runs>>

Ended == {"idle", "refused", "shown", "previewed", "failed", "done"}
Checking == {"resolve", "trust", "branch", "commit", "status", "plan"}
Writing == {"files", "copies", "editor", "terminal", "browser"}

RestoreTypeOK ==
    /\ repo \in BOOLEAN /\ onBranch \in BOOLEAN /\ trusted \in BOOLEAN
    /\ commit \in Commits
    /\ tree \in Trees
    /\ intact \in BOOLEAN
    /\ pc \in Ended \cup Checking \cup Writing
    /\ opts \in Options
    /\ changed \subseteq Paths \cup Dirs \cup Quotes
    /\ applied \subseteq Captured
    /\ copies \subseteq Captured \X Paths
    /\ kept \subseteq Captured \X Paths
    /\ states \subseteq Kinds
    /\ written \subseteq Paths
    /\ runs \in 0 .. MaxRuns

Init ==
    /\ repo \in BOOLEAN
    /\ onBranch \in BOOLEAN
    /\ trusted \in (IF repo THEN BOOLEAN ELSE {FALSE})
    /\ commit \in Commits
    /\ tree = IF repo THEN TreeOf[commit] ELSE [p \in Paths |-> Absent]
    /\ intact \in BOOLEAN
    /\ pc = "idle"
    /\ opts = [flag \in Flags |-> FALSE]
    /\ changed = {} /\ applied = {} /\ copies = {} /\ kept = {}
    /\ states = {} /\ written = {}
    /\ runs = 0

-----------------------------------------------------------------------------
FreeCopies(files, p) == {k \in 1 .. MaxCopies : files[CopyName[p][k]] = Absent}

\* nextConflictCopyPath: the first name that does not exist.
NextCopy(files, p) ==
    CopyName[p][CHOOSE k \in FreeCopies(files, p) : \A j \in FreeCopies(files, p) : k <= j]

Goto(label) == pc' = label

Start ==
    /\ pc \in Ended
    /\ runs < MaxRuns
    /\ runs' = runs + 1
    /\ opts' \in Options
    /\ changed' = {} /\ applied' = {} /\ copies' = {} /\ kept' = {}
    /\ states' = {} /\ written' = {}
    /\ Goto("resolve")
    /\ UNCHANGED <<repoVars, tree, intact>>

\* resolveRestorePath and gitstate.Root.  A fresh clone has no trust store.
Resolve ==
    /\ pc = "resolve"
    /\ \/ repo /\ Goto("trust") /\ UNCHANGED <<repoVars, tree>>
       \/ ~ repo /\ Goto("refused") /\ UNCHANGED <<repoVars, tree>>
       \/ /\ ~ repo /\ opts.cloneDir
          /\ repo' = TRUE /\ onBranch' = TRUE /\ commit' = Tip /\ trusted' = FALSE
          /\ tree' = TreeOf[Tip]
          /\ Goto("trust")
    /\ UNCHANGED <<intact, opts, planVars, states, written, runs>>

\* Mutant: an unknown signer only shows up in the output.
CheckNoTrust ==
    /\ pc = "trust"
    /\ Goto("branch")
    /\ UNCHANGED <<repoVars, tree, intact, opts, planVars, states, written, runs>>

CheckTrust ==
    /\ pc = "trust"
    /\ Goto(IF opts.requireTrusted /\ ~ trusted THEN "refused" ELSE "branch")
    /\ UNCHANGED <<repoVars, tree, intact, opts, planVars, states, written, runs>>

CheckBranch ==
    /\ pc = "branch"
    /\ Goto(IF onBranch THEN "commit" ELSE "refused")
    /\ UNCHANGED <<repoVars, tree, intact, opts, planVars, states, written, runs>>

CheckCommit ==
    /\ pc = "commit"
    /\ Goto(IF commit # SessionCommit THEN "refused"
            ELSE IF opts.apply THEN "status" ELSE "shown")
    /\ UNCHANGED <<repoVars, tree, intact, opts, planVars, states, written, runs>>

\* Mutant: untracked files are left out (git status -uno).
ReadModifiedOnly ==
    /\ pc = "status"
    /\ changed' = {e.path : e \in Changed(TreeOf[commit], TreeOf[commit], tree)}
    /\ Goto(IF changed' # {} /\ ~ opts.keepBoth THEN "refused" ELSE "plan")
    /\ UNCHANGED <<repoVars, tree, intact, opts, applied, copies, kept,
                   states, written, runs>>

\* gitstate.Capture, and the refusal of a dirty tree.
ReadStatus ==
    /\ pc = "status"
    /\ changed' = Status(commit, tree)
    /\ Goto(IF changed' # {} /\ ~ opts.keepBoth THEN "refused" ELSE "plan")
    /\ UNCHANGED <<repoVars, tree, intact, opts, applied, copies, kept,
                   states, written, runs>>

\* Mutant: only the reject strategy looks at the local changes.
ConflictingNever == {p \in Captured : opts.keepBoth /\ p \notin Captured}

Conflicting == {p \in Captured : opts.keepBoth /\ p \in changed}

\* Mutant: the plan is made while it is carried out.
PlanUnchecked ==
    /\ pc = "plan"
    /\ Goto(IF opts.dryRun THEN "previewed" ELSE "files")
    /\ applied' = Captured \ Conflicting
    /\ copies' = {<<p, NextCopy(tree, p)>> :
                    p \in {q \in Conflicting : FreeCopies(tree, q) # {}}}
    /\ kept' = copies'
    /\ UNCHANGED <<repoVars, tree, intact, opts, changed, states, written, runs>>

\* planApplyFiles: one bad entry, or a path without a free copy name, and
\* nothing is written at all.
Plan ==
    /\ pc = "plan"
    /\ IF ~ intact \/ \E p \in Conflicting : FreeCopies(tree, p) = {}
         THEN /\ Goto("refused")
              /\ UNCHANGED <<applied, copies, kept>>
         ELSE /\ Goto(IF opts.dryRun THEN "previewed" ELSE "files")
              /\ applied' = Captured \ Conflicting
              /\ copies' = {<<p, NextCopy(tree, p)>> : p \in Conflicting}
              /\ kept' = copies'
    /\ UNCHANGED <<repoVars, tree, intact, opts, changed, states, written, runs>>

\* MkdirAll and WriteFile.  The code follows the session's order, which no
\* property depends on.
WriteFile ==
    /\ pc = "files"
    /\ \E p \in applied :
         /\ tree' = [tree EXCEPT ![p] = Incoming[p]]
         /\ written' = written \cup {p}
         /\ applied' = applied \ {p}
    /\ UNCHANGED <<repoVars, intact, pc, opts, changed, copies, kept, states, runs>>

FilesWritten ==
    /\ pc = "files"
    /\ applied = {}
    /\ Goto("copies")
    /\ UNCHANGED <<repoVars, tree, intact, opts, planVars, states, written, runs>>

WriteCopy ==
    /\ pc = "copies"
    /\ \E c \in copies :
         /\ tree' = [tree EXCEPT ![c[2]] = Incoming[c[1]]]
         /\ written' = written \cup {c[2]}
         /\ copies' = copies \ {c}
    /\ UNCHANGED <<repoVars, intact, pc, opts, changed, applied, kept, states, runs>>

\* Mutant: the editor state is written before the copies.
CopiesLater ==
    /\ pc = "copies"
    /\ Goto("editor")
    /\ UNCHANGED <<repoVars, tree, intact, opts, planVars, states, written, runs>>

\* Mutant: it never gets past the copies.
CopiesRepeated ==
    /\ pc = "copies"
    /\ copies = {}
    /\ Goto("files")
    /\ UNCHANGED <<repoVars, tree, intact, opts, planVars, states, written, runs>>

CopiesWritten ==
    /\ pc = "copies"
    /\ copies = {}
    /\ Goto("editor")
    /\ UNCHANGED <<repoVars, tree, intact, opts, planVars, states, written, runs>>

AfterKind(k) ==
    CASE k = "editor" -> "terminal" [] k = "terminal" -> "browser" [] k = "browser" -> "done"

\* The WriteWorkspace functions, in this order; a nil state writes nothing.
WriteState ==
    /\ pc \in Kinds
    /\ \/ states' = states \cup {pc}
       \/ UNCHANGED states
    /\ Goto(AfterKind(pc))
    /\ UNCHANGED <<repoVars, tree, intact, opts, planVars, written, runs>>

\* A write fails, or the process dies: what was written stays, and the file
\* being written may be left truncated.
Fail ==
    /\ WriteFaults
    /\ pc \in Writing
    /\ Goto("failed")
    /\ \/ UNCHANGED <<tree, written>>
       \/ \E p \in (IF pc = "files" THEN applied
                    ELSE IF pc = "copies" THEN {c[2] : c \in copies} ELSE {}) :
            /\ tree' = [tree EXCEPT ![p] = Torn]
            /\ written' = written \cup {p}
    /\ UNCHANGED <<repoVars, intact, opts, planVars, states, runs>>

-----------------------------------------------------------------------------
(* The user. *)

MayEdit == repo /\ (ConcurrentEdits \/ pc \in Ended)

Edit(p) ==
    /\ MayEdit
    /\ runs < MaxRuns \/ pc \notin Ended
    /\ \E content \in LocalContents \cup {Absent} : tree' = [tree EXCEPT ![p] = content]
    /\ pc' = IF pc \in Ended THEN "idle" ELSE pc
    /\ UNCHANGED <<repoVars, intact, opts, planVars, states, written, runs>>

\* git checkout of a clean tree.
Checkout ==
    /\ MayEdit
    /\ runs < MaxRuns \/ pc \notin Ended
    /\ Status(commit, tree) = {}
    /\ commit' \in Commits
    /\ onBranch' \in BOOLEAN
    /\ \A p \in Paths : ~ Tracked(commit, p) /\ Tracked(commit', p) => tree[p] = Absent
    /\ tree' = [p \in Paths |-> IF Tracked(commit, p) \/ Tracked(commit', p)
                                  THEN TreeOf[commit'][p] ELSE tree[p]]
    /\ pc' = IF pc \in Ended THEN "idle" ELSE pc
    /\ UNCHANGED <<repo, trusted, intact, opts, planVars, states, written, runs>>

-----------------------------------------------------------------------------
RestoreStep ==
    \/ Resolve \/ CheckTrust \/ CheckBranch \/ CheckCommit \/ ReadStatus \/ Plan
    \/ WriteFile \/ FilesWritten \/ WriteCopy \/ CopiesWritten \/ WriteState

Next ==
    \/ Start \/ RestoreStep \/ Fail
    \/ \E p \in EditPaths : Edit(p)
    \/ Checkout

Spec == Init /\ [][Next]_vars

\* The process runs; nobody has to start it, edit or fail.
FairSpec == Spec /\ WF_vars(RestoreStep)

-----------------------------------------------------------------------------
(* Properties. *)

\* Work that exists nowhere else: neither the commit nor the session has it.
LocalWork(p) ==
    /\ tree[p] # TreeOf[commit][p]
    /\ tree[p] # Torn
    /\ ~ (p \in Captured /\ tree[p] = Incoming[p])

LocalWorkStays ==
    pc \in Writing => \A p \in Paths : LocalWork(p) => tree'[p] = tree[p]

\* No step of a restore changes a file with local work, whatever the strategy,
\* and also when an earlier restore died half way (applyChangedFiles).
LocalWorkKept == [][LocalWorkStays]_vars

\* git status looks at p, in a tree of commit c with nothing staged.
Visible(c, p) == Tracked(c, p) \/ p \notin Ignored

\* After a restore that refuses conflicts the tree is the session's commit with
\* every captured file over it, and nothing else but what .gitignore hides
\* (runRestore).  What the source deleted, and files without captured content,
\* planApplyFiles skips.
RejectReproduces ==
    pc = "done" /\ ~ opts.keepBoth =>
        \A p \in Paths :
            IF p \in Captured THEN tree[p] = Incoming[p]
                              ELSE Visible(commit, p) => tree[p] = TreeOf[commit][p]

\* Once a restore is done, and already when the first workspace state file
\* points the editor at it, every captured content is in the tree, in place or
\* in the copy reported for it (applyChangedFiles, runRestore).
IncomingPreserved ==
    pc = "done" \/ (states # {} /\ pc # "idle") =>
        \A p \in Captured :
            \/ tree[p] = Incoming[p]
            \/ \E c \in kept : c[1] = p /\ tree[c[2]] = Incoming[p]

\* The checks that look at the session and the flags only: files are written
\* when the signer, if asked for, and all hashes and paths are right, and it is
\* no dry run; a restore that refuses or only reports has written nothing,
\* whatever the user does to the tree meanwhile (runRestore).
WritesAreAsked ==
    written # {} =>
        /\ pc \notin {"refused", "previewed", "shown"} \cup Checking
        /\ intact /\ opts.apply /\ ~ opts.dryRun
        /\ (opts.requireTrusted => trusted)

\* Files are written only when every check has passed and still holds: these,
\* the branch and the commit (runRestore).
WritesAreChecked ==
    /\ WritesAreAsked
    /\ written # {} /\ pc # "idle" => onBranch /\ commit = SessionCommit

\* Every restore comes to an end (runRestore).
RestoreEnds == pc \notin Ended ~> pc \in Ended
-----------------------------------------------------------------------------
(* The inductive invariant (RestoreProofs), and the circumstances under which *)
(* it is one: nobody edits while the command runs, and                        *)

\* no file of the session, and no tracked one, is named like a copy, and no two
\* files have a copy's name in common;
CopiesApart ==
    \A p \in Copyable, k \in 1 .. MaxCopies :
        /\ CopyName[p][k] \notin Captured
        /\ \A c \in Commits : ~ Tracked(c, CopyName[p][k])
        /\ \A q \in Copyable, j \in 1 .. MaxCopies : CopyName[q][j] = CopyName[p][k] => q = p

\* git prints every file of the session by its path: it is tracked, or neither
\* ignored nor in a directory without tracked files.
CapturedShow ==
    \A p \in Captured :
        \/ Tracked(SessionCommit, p)
        \/ p \notin Ignored /\ Entry(TreeOf[SessionCommit], p) = p

Checked ==
    /\ pc \in Checking => written = {}
    /\ pc \in {"branch", "commit", "status", "plan"} \cup Writing =>
         (opts.requireTrusted => trusted)
    /\ pc \in {"commit", "status", "plan"} \cup Writing => onBranch
    /\ pc \in {"status", "plan"} \cup Writing => commit = SessionCommit /\ opts.apply
    /\ pc \in Writing => intact /\ ~ opts.dryRun
    /\ pc = "plan" => changed = Status(commit, tree) /\ (changed # {} => opts.keepBoth)

\* Every copy has one of its file's names, and a file has one copy.
CopiesNamed ==
    /\ copies \subseteq kept
    /\ \A c \in kept : \E k \in 1 .. MaxCopies : c[2] = CopyName[c[1]][k]
    /\ \A c, d \in kept : c[1] = d[1] => c = d

\* What is not in the tree is still to be written.
Safe(p) ==
    \/ p \in applied
    \/ tree[p] = Incoming[p]
    \/ \E c \in kept : c[1] = p /\ (c \in copies \/ tree[c[2]] = Incoming[p])

Carried ==
    /\ pc \in Writing \cup {"done"} \/ (states # {} /\ pc # "idle") =>
         \A p \in Captured : Safe(p)
    /\ pc \in Kinds \cup {"copies", "done"} \/ (states # {} /\ pc # "idle") => applied = {}
    /\ pc \in Kinds \cup {"done"} \/ (states # {} /\ pc # "idle") => copies = {}
    /\ states # {} => pc \in {"terminal", "browser", "done", "failed", "idle"}

\* What is still to be written takes the place of nothing.
Untouched ==
    pc \in Writing =>
        /\ \A p \in applied : tree[p] = TreeOf[commit][p]
        /\ \A c \in copies : tree[c[2]] = Absent

\* The tree between the commit and the session.
Between ==
    pc \in Writing \cup {"done"} /\ ~ opts.keepBoth =>
        /\ copies = {} /\ (pc # "files" => applied = {})
        /\ \A p \in Paths :
             IF p \in Captured \ applied THEN tree[p] = Incoming[p]
                                         ELSE Visible(commit, p) => tree[p] = TreeOf[commit][p]

\* What the checks and the plan still mean while files are written (runRestore).
RestoreInv ==
    RestoreTypeOK /\ Checked /\ WritesAreChecked /\ CopiesNamed /\ Carried /\ Untouched /\ Between
=============================================================================
