------------------------------ MODULE Capture ------------------------------
(***************************************************************************)
(* `relay capture --out FILE` (runCapture in cmd/relay/main.go with        *)
(* capture and captureFileSnapshots in internal/gitstate/root.go) beside a *)
(* user who edits, stages, commits and checks out.  Branch, commit and     *)
(* status come from a git process each, and every changed file is looked   *)
(* at (Stat) and read by itself, so that the answers belong to different   *)
(* moments.  Only then the session file is created and written.            *)
(***************************************************************************)
EXTENDS Worktree

CONSTANTS
    Branches,
    Detached,    \* HEAD is on no branch
    Large,       \* contents of more than maxSnapshotBytes (1 MiB)
    Binary,      \* contents that are not UTF-8
    None,        \* no session file, no file being read
    Torn,        \* a session file that was created and not written
    MaxEdits,    \* bound: what the user does during one capture
    MaxRuns      \* bound: executions of the command

ASSUME CaptureAssumption ==
    /\ Detached \notin Branches
    /\ Large \subseteq Contents
    /\ Binary \subseteq Contents
    /\ None \notin Paths
    /\ MaxEdits \in Nat /\ MaxRuns \in Nat

VARIABLES
    branch,      \* the repository: branch of HEAD or Detached,
    commit,      \* commit of HEAD,
    index,
    tree,
    pc,          \* where the command stands
    gotBranch,   \* State.Branch
    gotCommit,   \* State.Commit
    listed,      \* State.ChangedFiles, without contents
    pending,     \* the entries captureFileSnapshots has not come to
    reading,     \* a file between its Stat and its ReadFile, or None
    content,     \* content[p]: what was captured of p, or Absent
    out,         \* the session file: None, Torn or a session
    statusHead,  \* aux: the commit the status was taken against
    seen,        \* aux: seen[p]: what p was since the capture began
    edits,
    runs

repository == <<branch, commit, index, tree>>
snapshot == <<gotBranch, gotCommit, listed, pending, reading, content, statusHead>>
bounds == <<edits, runs>>
vars == <<repository, snapshot, bounds, pc, out, seen>>

Statuses == {"added", "deleted", "renamed", "modified", "untracked"}
Entries == [path : Paths \cup Dirs \cup Quotes, status : Statuses]
Sessions == [branch : Branches, commit : Commits, listed : SUBSET Entries, content : Trees]

Ended == {"idle", "failed", "done"}
Working == {"branch", "commit", "status", "files", "states", "sign", "create", "write"}

CaptureTypeOK ==
    /\ branch \in Branches \cup {Detached}
    /\ commit \in Commits
    /\ index \in Trees /\ tree \in Trees
    /\ pc \in Ended \cup Working
    /\ gotBranch \in Branches \cup {Detached}
    /\ gotCommit \in Commits /\ statusHead \in Commits
    /\ listed \subseteq Entries
    /\ pending \subseteq listed
    /\ reading \in {None} \cup Paths
    /\ content \in Trees
    /\ seen \in [Paths -> SUBSET (Contents \cup {Absent})]
    /\ edits \in 0 .. MaxEdits /\ runs \in 0 .. MaxRuns

Nothing == [p \in Paths |-> Absent]

\* Nothing is staged, or everything is.
Init ==
    /\ branch \in Branches \cup {Detached}
    /\ commit \in Commits
    /\ tree \in Trees
    /\ index \in {TreeOf[commit], tree}
    /\ pc = "idle"
    /\ gotBranch = branch /\ gotCommit = commit /\ statusHead = commit
    /\ listed = {} /\ pending = {} /\ reading = None
    /\ content = Nothing
    /\ out = None
    /\ seen = [p \in Paths |-> {tree[p]}]
    /\ edits = 0 /\ runs = 0

-----------------------------------------------------------------------------
(* The command. *)

Step(from, to) == pc = from /\ pc' = to

\* gitstate.Capture begins: root and remote do not change here.
Start ==
    /\ pc \in Ended
    /\ runs < MaxRuns
    /\ pc' = "branch"
    /\ listed' = {} /\ pending' = {} /\ reading' = None /\ content' = Nothing
    /\ seen' = [p \in Paths |-> {tree[p]}]
    /\ edits' = 0 /\ runs' = runs + 1
    /\ UNCHANGED <<repository, gotBranch, gotCommit, statusHead, out>>

\* branch: an empty answer is a detached HEAD, which is refused.
ReadBranch ==
    /\ branch # Detached
    /\ Step("branch", "commit")
    /\ gotBranch' = branch
    /\ UNCHANGED <<repository, gotCommit, listed, pending, reading, content,
                   statusHead, bounds, out, seen>>

ReadCommit ==
    /\ Step("commit", "status")
    /\ gotCommit' = commit
    /\ UNCHANGED <<repository, gotBranch, listed, pending, reading, content,
                   statusHead, bounds, out, seen>>

\* Mutant: parseStatus takes the old name of a rename.
ReadStatusOldNames ==
    /\ Step("status", "files")
    /\ listed' = {e \in ChangedFiles(TreeOf[commit], index, tree) : e.status # "renamed"}
                 \cup {[path |-> Printed(p), status |-> "renamed"] :
                         p \in {q \in Paths : \E r \in Paths : Moved(TreeOf[commit], index, q, r)}}
    /\ pending' = listed'
    /\ statusHead' = commit
    /\ UNCHANGED <<repository, gotBranch, gotCommit, reading, content, bounds, out, seen>>

ReadStatus ==
    /\ Step("status", "files")
    /\ listed' = ChangedFiles(TreeOf[commit], index, tree)
    /\ pending' = listed'
    /\ statusHead' = commit
    /\ UNCHANGED <<repository, gotBranch, gotCommit, reading, content, bounds, out, seen>>

\* The entry names a regular file of at most 1 MiB: it is not a directory, and
\* the text git printed is the file's name.
Readable(e) == e.path \in Paths /\ tree[e.path] \notin {Absent} \cup Large

\* The continue statements before the file is read: it stays listed.
Skip ==
    /\ pc = "files" /\ reading = None
    /\ \E e \in pending :
         /\ e.status = "deleted" \/ ~ Readable(e)
         /\ pending' = pending \ {e}
    /\ UNCHANGED <<repository, pc, gotBranch, gotCommit, listed, reading, content,
                   statusHead, bounds, out, seen>>

\* Mutant: untracked files are not read.
StatTracked ==
    /\ pc = "files" /\ reading = None
    /\ \E e \in pending :
         /\ e.status # "deleted" /\ Readable(e)
         /\ reading' = IF e.status = "untracked" THEN None ELSE e.path
         /\ pending' = pending \ {e}
    /\ UNCHANGED <<repository, pc, gotBranch, gotCommit, listed, content,
                   statusHead, bounds, out, seen>>

\* os.Stat.  The code goes through the entries in git's order.
StatFile ==
    /\ pc = "files" /\ reading = None
    /\ \E e \in pending :
         /\ e.status # "deleted" /\ Readable(e)
         /\ reading' = e.path
         /\ pending' = pending \ {e}
    /\ UNCHANGED <<repository, pc, gotBranch, gotCommit, listed, content,
                   statusHead, bounds, out, seen>>

\* os.ReadFile and utf8.Valid; a file that is gone by now fails the capture.
ReadFile ==
    /\ pc = "files" /\ reading # None
    /\ IF tree[reading] = Absent
         THEN pc' = "failed" /\ UNCHANGED content
         ELSE /\ UNCHANGED pc
              /\ content' = IF tree[reading] \in Binary THEN content
                            ELSE [content EXCEPT ![reading] = tree[reading]]
    /\ reading' = None
    /\ UNCHANGED <<repository, gotBranch, gotCommit, listed, pending, statusHead,
                   bounds, out, seen>>

FilesRead ==
    /\ pending = {} /\ reading = None
    /\ Step("files", "states")
    /\ UNCHANGED <<repository, snapshot, bounds, out, seen>>

\* ReadWorkspace of the editor, terminal and browser state (Handoff).
ReadStates ==
    /\ Step("states", "sign")
    /\ UNCHANGED <<repository, snapshot, bounds, out, seen>>

\* signSessionFromWorkspace; what is signed is the subject of Handoff.
Sign ==
    /\ Step("sign", "create")
    /\ UNCHANGED <<repository, snapshot, bounds, out, seen>>

\* os.Create truncates an earlier session file.
CreateOut ==
    /\ Step("create", "write")
    /\ out' = Torn
    /\ UNCHANGED <<repository, snapshot, bounds, seen>>

Session ==
    [branch |-> gotBranch, commit |-> gotCommit, listed |-> listed, content |-> content]

WriteOut ==
    /\ Step("write", "done")
    /\ out' = Session
    /\ UNCHANGED <<repository, snapshot, bounds, seen>>

\* Any of these steps may end the command with an error: a git process, a
\* state file or an identity that cannot be read, a write that fails.
Fail ==
    /\ pc \in Working
    /\ pc' = "failed"
    /\ UNCHANGED <<repository, snapshot, bounds, out, seen>>

CaptureStep ==
    \/ ReadBranch \/ ReadCommit \/ ReadStatus
    \/ Skip \/ StatFile \/ ReadFile \/ FilesRead
    \/ ReadStates \/ Sign \/ CreateOut \/ WriteOut

-----------------------------------------------------------------------------
(* The user, while the command looks at the repository: it does not come back *)
(* to it after the last file.                                                 *)

Act ==
    /\ pc \in {"branch", "commit", "status", "files"}
    /\ edits < MaxEdits
    /\ edits' = edits + 1
    /\ seen' = [p \in Paths |-> seen[p] \cup {tree'[p]}]
    /\ UNCHANGED <<snapshot, pc, out, runs>>

Edit(p) ==
    /\ \E v \in Contents \cup {Absent} : v # tree[p] /\ tree' = [tree EXCEPT ![p] = v]
    /\ Act
    /\ UNCHANGED <<branch, commit, index>>

\* git add, git rm --cached, git restore --staged.
Stage(p) ==
    /\ \E v \in {tree[p], Absent, TreeOf[commit][p]} :
         v # index[p] /\ index' = [index EXCEPT ![p] = v]
    /\ UNCHANGED <<branch, commit, tree>>
    /\ Act

\* git commit.
Commit ==
    /\ \E c \in Commits : c # commit /\ TreeOf[c] = index /\ commit' = c
    /\ UNCHANGED <<branch, index, tree>>
    /\ Act

\* git checkout of a tree without changes.
Checkout ==
    /\ Status(commit, tree) = {} /\ index = TreeOf[commit]
    /\ branch' \in Branches \cup {Detached}
    /\ commit' \in Commits
    /\ \A p \in Paths : ~ Tracked(commit, p) /\ Tracked(commit', p) => tree[p] = Absent
    /\ index' = TreeOf[commit']
    /\ tree' = [p \in Paths |-> IF Tracked(commit, p) \/ Tracked(commit', p)
                                  THEN TreeOf[commit'][p] ELSE tree[p]]
    /\ Act

User == (\E p \in Paths : Edit(p) \/ Stage(p)) \/ Commit \/ Checkout

Next == Start \/ CaptureStep \/ Fail \/ User

Spec == Init /\ [][Next]_vars

-----------------------------------------------------------------------------
(* Properties. *)

\* What a restore of session s on a clean tree of its commit makes of p
\* (RejectReproduces in Restore).
Reproduced(s, p) ==
    IF s.content[p] # Absent THEN s.content[p] ELSE TreeOf[s.commit][p]

\* Why the content of p may be missing from the session: git did not print it
\* or printed another name for it, or it was at some moment not to be had.
Excused(p) ==
    \/ p \in Ignored \cup Quoted
    \/ \E e \in listed : e.path = DirOf[p]
    \/ seen[p] \cap ({Absent} \cup Large \cup Binary) # {}

\* Unless HEAD moved between rev-parse and status, a restore of the session
\* gives every path something that was there during the capture, whatever else
\* the user did meanwhile, but for named exceptions (captureFileSnapshots).
EveryFileAccountedFor ==
    pc = "done" /\ statusHead = gotCommit =>
        \A p \in Paths : Reproduced(out, p) \in seen[p] \/ Excused(p)

\* p is tracked, and the new name of a rename is listed.
RenamedAway(c, entries, p) ==
    /\ Tracked(c, p)
    /\ \E e \in entries, q \in Paths : /\ e.path = Printed(q)
                                       /\ ~ Tracked(c, q)
                                       /\ e.status \in {"renamed", "deleted"}

\* A path that a restore would give a content it never had is at least listed
\* in the session ("content not captured"), unless it is ignored by git or the
\* old name of a rename (parseStatus, runCapture).
LossesShow ==
    pc = "done" /\ statusHead = gotCommit =>
        \A p \in Paths :
            \/ Reproduced(out, p) \in seen[p]
            \/ p \in Ignored
            \/ \E e \in out.listed : e.path \in {Printed(p), DirOf[p]}
            \/ RenamedAway(out.commit, out.listed, p)

-----------------------------------------------------------------------------
(* The inductive invariant (CaptureProofs). *)

Looking == {"branch", "commit", "status", "files"}
Listed == {"files", "states", "sign", "create", "write", "done"}

TreeSeen == pc \in Looking => \A p \in Paths : tree[p] \in seen[p]

ContentSeen == \A p \in Paths : content[p] = Absent \/ content[p] \in seen[p]

\* The content of p is there or still to come.
Coming(p) ==
    \/ content[p] # Absent
    \/ reading = p
    \/ \E e \in pending : e.path = p /\ e.status # "deleted"

Accounted(p) == TreeOf[statusHead][p] \in seen[p] \/ Excused(p) \/ Coming(p)

Shown(p) ==
    \/ TreeOf[statusHead][p] \in seen[p]
    \/ p \in Ignored
    \/ \E e \in listed : e.path \in {Printed(p), DirOf[p]}
    \/ RenamedAway(statusHead, listed, p)

AllAccounted == pc \in Listed => \A p \in Paths : Accounted(p) /\ Shown(p)

AllRead == pc \in Listed \ {"files"} => pending = {} /\ reading = None

Written == pc = "done" => out = Session

\* What the command knows at each step of what the tree was.
CaptureInv ==
    CaptureTypeOK /\ TreeSeen /\ ContentSeen /\ AllAccounted /\ AllRead /\ Written
=============================================================================
