--------------------------- MODULE RestoreProofs ---------------------------
(***************************************************************************)
(* What holds of every restore: for any files, commits, sessions and names *)
(* of copies, and any number of executions that fail or die half way.      *)
(* Each part of RestoreInv is shown by itself, under the circumstances it  *)
(* needs: RestoreTypeOK and CopiesNamed always; Checked when nobody edits  *)
(* while the command runs; Carried when also copies have names of their    *)
(* own; Untouched when also git prints the captured files; Between needs   *)
(* nobody to edit, and no more.                                            *)
(***************************************************************************)
EXTENDS Restore, TLAPS, WellFoundedInduction

\* Any choice of numbers has a first one (nextConflictCopyPath counts upwards).
LEMMA Least ==
  ASSUME NEW S, S \subseteq Nat, S # {}
  PROVE  \E k \in S : \A j \in S : k <= j
<1>1. PICK k \in S : \A j \in S : ~ (<<j, k>> \in OpToRel(<, Nat))
  BY NatLessThanWellFounded, WFMin
<1>2. ASSUME NEW j \in S PROVE k <= j
  <2>1. ~ (<<j, k>> \in OpToRel(<, Nat))
    BY <1>1
  <2>2. ~ (j < k)
    BY <2>1 DEF OpToRel
  <2> QED BY <2>2
<1> QED BY <1>2

\* The name of a copy is one of the file's, and was free (nextConflictCopyPath).
LEMMA CopyIsFree ==
  ASSUME NEW files, NEW p \in Copyable, FreeCopies(files, p) # {}
  PROVE  \E k \in 1 .. MaxCopies : /\ NextCopy(files, p) = CopyName[p][k]
                                   /\ files[CopyName[p][k]] = Absent
<1> DEFINE F == FreeCopies(files, p)
<1>1. F \subseteq Nat /\ F # {} /\ F \subseteq 1 .. MaxCopies
  BY RestoreAssumption DEF FreeCopies
<1>2. \E k \in F : \A j \in F : k <= j
  BY <1>1, Least
<1> DEFINE k == CHOOSE k \in F : \A j \in F : k <= j
<1>3. k \in F
  BY <1>2
<1>4. NextCopy(files, p) = CopyName[p][k]
  BY DEF NextCopy
<1> QED BY <1>1, <1>3, <1>4 DEF FreeCopies

\* What git prints is a path, a directory or a quoted path (changes).
LEMMA StatusPrints ==
  ASSUME NEW c \in Commits, NEW t \in Trees
  PROVE  Status(c, t) \subseteq Paths \cup Dirs \cup Quotes
<1>1. \A p \in Paths : Printed(p) \in Paths \cup Quotes
  BY DEF Printed, Quotes
<1>2. \A p \in Paths : Entry(TreeOf[c], p) \in Paths \cup Dirs \cup Quotes
  BY <1>1, WorktreeAssumption DEF Entry
<1> DEFINE Listings == [path : Paths \cup Dirs \cup Quotes,
                        status : {"added", "deleted", "renamed", "modified", "untracked"}]
<1>3. Changed(TreeOf[c], TreeOf[c], t) \subseteq Listings
  BY <1>1 DEF Changed, StatusOf
<1>4. Unindexed(TreeOf[c], TreeOf[c]) \subseteq Listings
  BY <1>1 DEF Unindexed
<1>5. Untracked(TreeOf[c], t) \subseteq Listings
  BY <1>2 DEF Untracked
<1>6. ChangedFiles(TreeOf[c], TreeOf[c], t) \subseteq Listings
  BY <1>3, <1>4, <1>5 DEF ChangedFiles
<1> QED BY <1>6 DEF Status

\* A file that is not as in the commit has an entry, unless it is ignored
\* (git status, parseStatus): a tracked one under its path.
LEMMA DifferenceShows ==
  ASSUME NEW c \in Commits, NEW t \in Trees, NEW p \in Paths,
         Visible(c, p), t[p] # TreeOf[c][p]
  PROVE  IF Tracked(c, p) THEN Printed(p) \in Status(c, t)
                          ELSE Entry(TreeOf[c], p) \in Status(c, t)
<1> USE DEF Visible, Tracked
<1>1. CASE TreeOf[c][p] # Absent
  <2>1. Differs(TreeOf[c], TreeOf[c], t, p)
    BY <1>1 DEF Differs
  <2> DEFINE e == [path |-> Printed(p), status |-> StatusOf(TreeOf[c], TreeOf[c], t, p)]
  <2>2. e \in ChangedFiles(TreeOf[c], TreeOf[c], t)
    BY <2>1 DEF ChangedFiles, Changed
  <2>3. Printed(p) \in Status(c, t)
    BY <2>2 DEF Status
  <2> QED BY <1>1, <2>3
<1>2. CASE TreeOf[c][p] = Absent
  <2> DEFINE e == [path |-> Entry(TreeOf[c], p), status |-> "untracked"]
  <2>1. e \in ChangedFiles(TreeOf[c], TreeOf[c], t)
    BY <1>2 DEF ChangedFiles, Untracked
  <2>2. Entry(TreeOf[c], p) \in Status(c, t)
    BY <2>1 DEF Status
  <2> QED BY <1>2, <2>2
<1> QED BY <1>1, <1>2

\* A clean tree is the commit's, but for what is ignored.
LEMMA CleanTree ==
  ASSUME NEW c \in Commits, NEW t \in Trees, Status(c, t) = {},
         NEW p \in Paths, Visible(c, p)
  PROVE  t[p] = TreeOf[c][p]
BY DifferenceShows

\* A file of the session that the status does not name is the commit's.
LEMMA UnlistedIsClean ==
  ASSUME NEW t \in Trees, CapturedShow,
         NEW p \in Captured, p \notin Status(SessionCommit, t)
  PROVE  t[p] = TreeOf[SessionCommit][p]
<1>1. p \in Paths /\ Printed(p) = p /\ SessionCommit \in Commits
  BY RestoreAssumption DEF Printed
<1>2. CASE Tracked(SessionCommit, p)
  BY <1>1, <1>2, DifferenceShows DEF Visible
<1>3. CASE ~ Tracked(SessionCommit, p)
  <2>1. Entry(TreeOf[SessionCommit], p) = p /\ Visible(SessionCommit, p)
    BY <1>3 DEF CapturedShow, Visible
  <2> QED BY <1>1, <1>3, <2>1, DifferenceShows
<1> QED BY <1>2, <1>3

-----------------------------------------------------------------------------
(* Types. *)

LEMMA TypeInit == Init => RestoreTypeOK
<1> USE RestoreAssumption, WorktreeAssumption DEF Init, RestoreTypeOK
<1> SUFFICES ASSUME Init PROVE RestoreTypeOK
  OBVIOUS
<1>1. tree \in Trees
  BY DEF Trees
<1>2. opts \in Options
  BY DEF Options
<1>3. trusted \in BOOLEAN
  OBVIOUS
<1> QED BY <1>1, <1>2, <1>3 DEF Ended

\* The plan names files of the session, and paths to copy them to.
LEMMA PlanTyped == ASSUME RestoreTypeOK, Plan PROVE RestoreTypeOK'
<1> USE DEF RestoreTypeOK, Plan, Goto, repoVars
<1>1. CASE UNCHANGED <<applied, copies, kept>> /\ pc' = "refused"
  BY <1>1 DEF Ended
<1>2. CASE /\ \A p \in Conflicting : FreeCopies(tree, p) # {}
           /\ pc' = IF opts.dryRun THEN "previewed" ELSE "files"
           /\ applied' = Captured \ Conflicting
           /\ copies' = {<<p, NextCopy(tree, p)>> : p \in Conflicting}
           /\ kept' = copies'
  <2>1. Conflicting \subseteq Captured /\ Captured \subseteq Copyable
    BY RestoreAssumption DEF Conflicting
  <2>2. \A p \in Conflicting : NextCopy(tree, p) \in Paths
    BY <1>2, <2>1, CopyIsFree, RestoreAssumption
  <2>3. copies' \subseteq Captured \X Paths
    BY <1>2, <2>1, <2>2
  <2> QED BY <1>2, <2>3 DEF Ended, Writing
<1> QED BY <1>1, <1>2

\* No step of the command or the user leaves the types.
LEMMA TypeStep == ASSUME RestoreTypeOK, [Next]_vars PROVE RestoreTypeOK'
<1> USE RestoreAssumption, WorktreeAssumption
    DEF RestoreTypeOK, Goto, repoVars, planVars, Ended, Checking, Writing, Trees
<1>1. CASE Start
  BY <1>1 DEF Start
<1>2. CASE Resolve
  <2>1. CASE UNCHANGED <<repoVars, tree>>
    BY <1>2, <2>1 DEF Resolve
  <2>2. CASE /\ repo' = TRUE /\ onBranch' = TRUE /\ commit' = Tip /\ trusted' = FALSE
             /\ tree' = TreeOf[Tip]
    BY <1>2, <2>2 DEF Resolve
  <2> QED BY <1>2, <2>1, <2>2 DEF Resolve
<1>3. CASE CheckTrust \/ CheckBranch \/ CheckCommit
  BY <1>3 DEF CheckTrust, CheckBranch, CheckCommit
<1>4. CASE ReadStatus
  BY <1>4, StatusPrints DEF ReadStatus
<1>5. CASE Plan
  BY <1>5, PlanTyped
<1>6. CASE WriteFile
  BY <1>6 DEF WriteFile
<1>7. CASE WriteCopy
  <2>1. PICK c \in copies : /\ tree' = [tree EXCEPT ![c[2]] = Incoming[c[1]]]
                            /\ written' = written \cup {c[2]}
                            /\ copies' = copies \ {c}
    BY <1>7 DEF WriteCopy
  <2>2. c[1] \in Captured /\ c[2] \in Paths
    BY <2>1
  <2> QED BY <1>7, <2>1, <2>2 DEF WriteCopy
<1>8. CASE FilesWritten \/ CopiesWritten
  BY <1>8 DEF FilesWritten, CopiesWritten
<1>9. CASE WriteState
  BY <1>9 DEF WriteState, AfterKind, Kinds
<1>10. CASE Fail
  <2>1. CASE UNCHANGED <<tree, written>>
    BY <1>10, <2>1 DEF Fail
  <2>2. CASE \E p \in Paths : /\ tree' = [tree EXCEPT ![p] = Torn]
                              /\ written' = written \cup {p}
    BY <1>10, <2>2 DEF Fail
  <2>3. applied \subseteq Paths /\ {c[2] : c \in copies} \subseteq Paths
    OBVIOUS
  <2> QED BY <1>10, <2>1, <2>2, <2>3 DEF Fail
<1>11. ASSUME NEW p \in EditPaths, Edit(p) PROVE RestoreTypeOK'
  BY <1>11 DEF Edit
<1>12. CASE Checkout
  <2>1. TreeOf[commit'] \in Trees
    BY <1>12 DEF Checkout
  <2>2. tree' \in Trees
    BY <1>12, <2>1 DEF Checkout
  <2> QED BY <1>12, <2>2 DEF Checkout
<1>13. CASE UNCHANGED vars
  BY <1>13 DEF vars
<1> QED BY <1>1, <1>2, <1>3, <1>4, <1>5, <1>6, <1>7, <1>8, <1>9, <1>10, <1>11, <1>12, <1>13
        DEF Next, RestoreStep

\* Every variable keeps its type, whatever fails and whoever edits (runRestore).
THEOREM RestoreTyping == Spec => []RestoreTypeOK
BY TypeInit, TypeStep, PTL DEF Spec

-----------------------------------------------------------------------------
(* The checks. *)

ChecksHold == Checked /\ WritesAreChecked

LEMMA ChecksInit == Init => ChecksHold
BY DEF Init, ChecksHold, Checked, WritesAreChecked, WritesAreAsked, Checking, Writing

\* What a check found stays true until the last write, as nobody but the
\* command acts in between (runRestore).
LEMMA ChecksStep ==
  ASSUME ~ ConcurrentEdits, RestoreTypeOK, ChecksHold, [Next]_vars
  PROVE  ChecksHold'
<1> USE DEF ChecksHold, Checked, WritesAreChecked, WritesAreAsked, Goto, repoVars, planVars,
            Ended, Checking, Writing
<1>1. CASE Start
  BY <1>1 DEF Start
<1>2. CASE Resolve
  BY <1>2 DEF Resolve
<1>3. CASE CheckTrust
  BY <1>3 DEF CheckTrust
<1>4. CASE CheckBranch
  BY <1>4 DEF CheckBranch
<1>5. CASE CheckCommit
  BY <1>5 DEF CheckCommit
<1>6. CASE ReadStatus
  BY <1>6 DEF ReadStatus
<1>7. CASE Plan
  BY <1>7 DEF Plan
<1>8. CASE WriteFile \/ WriteCopy
  BY <1>8 DEF WriteFile, WriteCopy
<1>9. CASE FilesWritten \/ CopiesWritten
  BY <1>9 DEF FilesWritten, CopiesWritten
<1>10. CASE WriteState
  BY <1>10 DEF WriteState, AfterKind, Kinds
<1>11. CASE Fail
  BY <1>11 DEF Fail
<1>12. ASSUME NEW p \in EditPaths, Edit(p) PROVE ChecksHold'
  BY <1>12 DEF Edit, MayEdit
<1>13. CASE Checkout
  BY <1>13 DEF Checkout, MayEdit
<1>14. CASE UNCHANGED vars
  BY <1>14 DEF vars
<1> QED BY <1>1, <1>2, <1>3, <1>4, <1>5, <1>6, <1>7, <1>8, <1>9, <1>10, <1>11, <1>12, <1>13, <1>14
        DEF Next, RestoreStep

LEMMA ChecksInvariance == ASSUME ~ ConcurrentEdits PROVE Spec => []ChecksHold
<1>1. RestoreTypeOK /\ ChecksHold /\ [Next]_vars => ChecksHold'
  BY ChecksStep
<1> QED BY <1>1, ChecksInit, RestoreTyping, PTL DEF Spec

\* If nobody edits while it runs, a restore writes nothing before all its checks
\* have passed, and every one of them still holds when it does (runRestore).
THEOREM NothingWrittenUnchecked == ASSUME ~ ConcurrentEdits PROVE Spec => []WritesAreChecked
<1>1. ChecksHold => WritesAreChecked
  BY DEF ChecksHold
<1> QED BY <1>1, ChecksInvariance, PTL

-----------------------------------------------------------------------------
(* What holds also when the user works meanwhile. *)

\* The checks of the session and the flags, one after the other.
Asked ==
    /\ WritesAreAsked
    /\ pc \in Checking => written = {}
    /\ pc \in {"branch", "commit", "status", "plan"} \cup Writing =>
         (opts.requireTrusted => trusted)
    /\ pc \in {"status", "plan"} \cup Writing => opts.apply
    /\ pc \in Writing => intact /\ ~ opts.dryRun

\* A user who edits or checks out touches neither the flags, nor the session, nor
\* the trust store of a restore that runs.
LEMMA AskedStep == ASSUME RestoreTypeOK, Asked, [Next]_vars PROVE Asked'
<1> USE DEF Asked, WritesAreAsked, Goto, repoVars, planVars, Ended, Checking, Writing
<1>1. CASE Start
  BY <1>1 DEF Start
<1>2. CASE Resolve
  BY <1>2 DEF Resolve
<1>3. CASE CheckTrust \/ CheckBranch \/ CheckCommit
  BY <1>3 DEF CheckTrust, CheckBranch, CheckCommit
<1>4. CASE ReadStatus
  BY <1>4 DEF ReadStatus
<1>5. CASE Plan
  BY <1>5 DEF Plan
<1>6. CASE WriteFile \/ WriteCopy \/ FilesWritten \/ CopiesWritten
  BY <1>6 DEF WriteFile, WriteCopy, FilesWritten, CopiesWritten
<1>7. CASE WriteState
  BY <1>7 DEF WriteState, AfterKind, Kinds
<1>8. CASE Fail
  BY <1>8 DEF Fail
<1>9. ASSUME NEW p \in EditPaths, Edit(p) PROVE Asked'
  BY <1>9 DEF Edit
<1>10. CASE Checkout
  BY <1>10 DEF Checkout
<1>11. CASE UNCHANGED vars
  BY <1>11 DEF vars
<1> QED BY <1>1, <1>2, <1>3, <1>4, <1>5, <1>6, <1>7, <1>8, <1>9, <1>10, <1>11
        DEF Next, RestoreStep

\* Whatever the user does to the tree while the command runs, it writes nothing
\* that the flags, the signer, the hashes and the paths do not allow (runRestore).
THEOREM NothingWrittenUnasked == Spec => []WritesAreAsked
<1>1. Init => Asked
  BY DEF Init, Asked, WritesAreAsked, Checking, Writing
<1>2. RestoreTypeOK /\ Asked /\ [Next]_vars => Asked'
  BY AskedStep
<1>3. Asked => WritesAreAsked
  BY DEF Asked
<1> QED BY <1>1, <1>2, <1>3, RestoreTyping, PTL DEF Spec

-----------------------------------------------------------------------------
(* The plan. *)

\* The copies are planned once, under names of their files.
LEMMA NamesStep == ASSUME RestoreTypeOK, CopiesNamed, [Next]_vars PROVE CopiesNamed'
<1> USE DEF CopiesNamed, Goto, repoVars, planVars
<1>1. CASE Start
  BY <1>1 DEF Start
<1>2. CASE Plan
  <2>1. CASE UNCHANGED <<applied, copies, kept>>
    BY <2>1
  <2>2. CASE /\ \A p \in Conflicting : FreeCopies(tree, p) # {}
             /\ copies' = {<<p, NextCopy(tree, p)>> : p \in Conflicting}
             /\ kept' = copies'
    <3>1. \A p \in Conflicting : \E k \in 1 .. MaxCopies : NextCopy(tree, p) = CopyName[p][k]
      BY <2>2, CopyIsFree, RestoreAssumption DEF Conflicting
    <3>2. \A c \in kept' : \E k \in 1 .. MaxCopies : c[2] = CopyName[c[1]][k]
      BY <2>2, <3>1
    <3> QED BY <2>2, <3>2
  <2> QED BY <1>2, <2>1, <2>2 DEF Plan
<1>3. CASE WriteCopy
  BY <1>3 DEF WriteCopy
<1>4. CASE UNCHANGED <<copies, kept>>
  BY <1>4
<1>5. Next => Start \/ Plan \/ WriteCopy \/ UNCHANGED <<copies, kept>>
  BY DEF Next, RestoreStep, Resolve, CheckTrust, CheckBranch, CheckCommit, ReadStatus,
         WriteFile, FilesWritten, CopiesWritten, WriteState, Fail, Edit, Checkout
<1> QED BY <1>1, <1>2, <1>3, <1>4, <1>5 DEF vars

LEMMA NamesInvariance == Spec => []CopiesNamed
<1>1. Init => CopiesNamed
  BY DEF Init, CopiesNamed
<1>2. RestoreTypeOK /\ CopiesNamed /\ [Next]_vars => CopiesNamed'
  BY NamesStep
<1> QED BY <1>1, <1>2, RestoreTyping, PTL DEF Spec

\* A copy is neither a file of the session nor another file's copy (CopiesApart).
LEMMA CopiesAreApart ==
  ASSUME RestoreTypeOK, CopiesNamed, CopiesApart, NEW c \in kept
  PROVE  /\ c[1] \in Captured /\ c[2] \in Paths
         /\ c[2] \notin Captured
         /\ \A d \in kept : c[2] = d[2] => c = d
         /\ \A x \in Commits : TreeOf[x][c[2]] = Absent
<1>1. c[1] \in Captured /\ c[2] \in Paths /\ Captured \subseteq Copyable
  BY RestoreAssumption DEF RestoreTypeOK
<1>2. PICK k \in 1 .. MaxCopies : c[2] = CopyName[c[1]][k]
  BY DEF CopiesNamed
<1>3. c[2] \notin Captured /\ \A x \in Commits : TreeOf[x][c[2]] = Absent
  BY <1>1, <1>2 DEF CopiesApart, Tracked
<1>4. ASSUME NEW d \in kept, c[2] = d[2] PROVE c = d
  <2>1. PICK j \in 1 .. MaxCopies : d[2] = CopyName[d[1]][j]
    BY DEF CopiesNamed
  <2>2. d[1] \in Copyable
    BY <1>1 DEF RestoreTypeOK
  <2>3. d[1] = c[1]
    BY <1>1, <1>2, <1>4, <2>1, <2>2 DEF CopiesApart
  <2> QED BY <2>3 DEF CopiesNamed
<1> QED BY <1>1, <1>3, <1>4

-----------------------------------------------------------------------------
(* What the session brings. *)

\* A step changes nothing of what was brought (applyChangedFiles).
LEMMA SafeStays ==
  ASSUME RestoreTypeOK, CopiesNamed, CopiesApart, NEW p \in Captured, Safe(p),
         NEW q \in Paths, NEW v, tree' = [tree EXCEPT ![q] = v], kept' = kept,
         \/ /\ q \in applied /\ v = Incoming[q]
            /\ applied' = applied \ {q} /\ copies' = copies
         \/ /\ applied' = applied
            /\ \E c \in copies : q = c[2] /\ v = Incoming[c[1]] /\ copies' = copies \ {c}
  PROVE  Safe(p)'
<1>0. /\ tree \in Trees /\ applied \subseteq Captured /\ Captured \subseteq Paths
      /\ DOMAIN tree = Paths
  BY RestoreAssumption DEF RestoreTypeOK, Trees
<1>1. CASE /\ q \in applied /\ v = Incoming[q]
           /\ applied' = applied \ {q} /\ copies' = copies
  <2>1. \A c \in kept : c[2] \in Paths /\ c[2] # q
    BY <1>0, <1>1, CopiesAreApart
  <2>2. CASE p = q
    BY <1>0, <1>1, <2>2 DEF Safe
  <2>3. CASE p # q
    BY <1>0, <1>1, <2>1, <2>3 DEF Safe
  <2> QED BY <2>2, <2>3
<1>2. CASE /\ applied' = applied
           /\ \E c \in copies : q = c[2] /\ v = Incoming[c[1]] /\ copies' = copies \ {c}
  <2>1. PICK c \in copies : q = c[2] /\ v = Incoming[c[1]] /\ copies' = copies \ {c}
    BY <1>2
  <2>2. c \in kept
    BY DEF CopiesNamed
  <2>3. q \notin Captured /\ \A d \in kept : d[2] = q => d = c
    BY <2>1, <2>2, CopiesAreApart
  <2>4. \A d \in kept : d[2] \in Paths
    BY CopiesAreApart
  <2>5. tree'[p] = tree[p] /\ p \in Paths
    BY <1>0, <2>3
  <2>6. ASSUME NEW d \in kept, d[1] = p, d \in copies \/ tree[d[2]] = Incoming[p]
        PROVE  d \in copies' \/ tree'[d[2]] = Incoming[p]
    <3>1. CASE d = c
      BY <1>0, <2>1, <2>4, <2>6, <3>1
    <3>2. CASE d # c
      BY <1>0, <2>1, <2>3, <2>4, <2>6, <3>2
    <3> QED BY <3>1, <3>2
  <2> QED BY <1>2, <2>5, <2>6 DEF Safe
<1> QED BY <1>1, <1>2

LEMMA CarriedInit == Init => Carried
BY DEF Init, Carried, Writing, Kinds

\* Each captured content stays on its way into the tree (runRestore).
LEMMA CarriedStep ==
  ASSUME ~ ConcurrentEdits, CopiesApart, RestoreTypeOK, CopiesNamed, Carried, [Next]_vars
  PROVE  Carried'
<1> USE DEF Carried, Goto, repoVars, planVars, Ended, Checking, Writing, Kinds
<1>1. CASE Start
  BY <1>1 DEF Start
<1>2. CASE Resolve \/ CheckTrust \/ CheckBranch \/ CheckCommit \/ ReadStatus
  BY <1>2 DEF Resolve, CheckTrust, CheckBranch, CheckCommit, ReadStatus
<1>3. CASE Plan
  <2>1. CASE pc' # "files"
    BY <1>3, <2>1 DEF Plan
  <2>2. CASE pc' = "files"
    <3>1. /\ applied' = Captured \ Conflicting /\ kept' = copies'
          /\ copies' = {<<p, NextCopy(tree, p)>> : p \in Conflicting}
      BY <1>3, <2>2 DEF Plan
    <3>2. ASSUME NEW p \in Captured PROVE Safe(p)'
      <4>1. CASE p \in Conflicting
        <5>1. <<p, NextCopy(tree, p)>> \in kept' /\ <<p, NextCopy(tree, p)>> \in copies'
          BY <3>1, <4>1
        <5> QED BY <5>1 DEF Safe
      <4>2. CASE p \notin Conflicting
        BY <3>1, <4>2 DEF Safe
      <4> QED BY <4>1, <4>2
    <3>3. states' = {}
      BY <1>3 DEF Plan
    <3> QED BY <2>2, <3>2, <3>3
  <2> QED BY <2>1, <2>2
<1>4. CASE WriteFile
  <2>1. PICK q \in applied : tree' = [tree EXCEPT ![q] = Incoming[q]] /\ applied' = applied \ {q}
    BY <1>4 DEF WriteFile
  <2>2. q \in Paths /\ pc = "files" /\ pc' = pc /\ states' = states
        /\ copies' = copies /\ kept' = kept
    BY <1>4, RestoreAssumption DEF WriteFile, RestoreTypeOK
  <2>3. \A p \in Captured : Safe(p)'
    BY <2>1, <2>2, SafeStays
  <2> QED BY <2>2, <2>3
<1>5. CASE WriteCopy
  <2>1. PICK c \in copies : tree' = [tree EXCEPT ![c[2]] = Incoming[c[1]]] /\ copies' = copies \ {c}
    BY <1>5 DEF WriteCopy
  <2>2. c[2] \in Paths /\ pc = "copies" /\ pc' = pc /\ states' = states
        /\ applied' = applied /\ kept' = kept
    BY <1>5, <2>1 DEF WriteCopy, RestoreTypeOK
  <2>3. \A p \in Captured : Safe(p)'
    BY <2>1, <2>2, SafeStays
  <2> QED BY <2>2, <2>3
<1>6. ASSUME UNCHANGED <<tree, applied, copies, kept>> PROVE \A p \in Captured : Safe(p) => Safe(p)'
  BY <1>6 DEF Safe
<1>7. CASE FilesWritten \/ CopiesWritten
  BY <1>6, <1>7 DEF FilesWritten, CopiesWritten
<1>8. CASE WriteState
  BY <1>6, <1>8 DEF WriteState, AfterKind
<1>9. CASE Fail
  <2>1. CASE states = {}
    BY <1>9, <2>1 DEF Fail
  <2>2. CASE states # {}
    BY <1>6, <1>9, <2>2 DEF Fail
  <2> QED BY <2>1, <2>2
<1>10. ASSUME NEW p \in EditPaths, Edit(p) PROVE Carried'
  BY <1>10 DEF Edit, MayEdit
<1>11. CASE Checkout
  BY <1>11 DEF Checkout, MayEdit
<1>12. CASE UNCHANGED vars
  BY <1>6, <1>12 DEF vars
<1> QED BY <1>1, <1>2, <1>3, <1>4, <1>5, <1>7, <1>8, <1>9, <1>10, <1>11, <1>12
        DEF Next, RestoreStep

\* If copies have names of their own, and nobody edits meanwhile, no content of
\* the session is lost, and each is there before a state file speaks of it
\* (applyChangedFiles, runRestore).
THEOREM NoIncomingLost ==
  ASSUME ~ ConcurrentEdits, CopiesApart PROVE Spec => []IncomingPreserved
<1>1. RestoreTypeOK /\ CopiesNamed /\ Carried /\ [Next]_vars => Carried'
  BY CarriedStep
<1>2. Carried => IncomingPreserved
  BY DEF Carried, IncomingPreserved, Safe, Writing
<1> QED BY <1>1, <1>2, CarriedInit, RestoreTyping, NamesInvariance, PTL DEF Spec

-----------------------------------------------------------------------------
(* What is overwritten. *)

LEMMA UntouchedInit == Init => Untouched
BY DEF Init, Untouched, Writing

\* A plan takes the place of nothing (planApplyFiles).
LEMMA PlanTouchesNothing ==
  ASSUME CapturedShow, RestoreTypeOK, Checked, Plan PROVE Untouched'
<1> SUFFICES ASSUME pc' \in Writing PROVE Untouched'
  BY DEF Untouched
<1>1. /\ applied' = Captured \ Conflicting
      /\ copies' = {<<p, NextCopy(tree, p)>> : p \in Conflicting}
      /\ \A p \in Conflicting : FreeCopies(tree, p) # {}
      /\ tree' = tree /\ commit' = commit
  BY DEF Plan, Goto, Writing, repoVars
<1>2. /\ changed = Status(commit, tree) /\ (changed # {} => opts.keepBoth)
      /\ commit = SessionCommit
  BY DEF Checked, Plan
<1>3. ASSUME NEW p \in applied' PROVE tree[p] = TreeOf[commit][p]
  <2>1. p \in Captured /\ p \notin Status(commit, tree)
    BY <1>1, <1>2 DEF Conflicting
  <2> QED BY <1>2, <2>1, UnlistedIsClean DEF RestoreTypeOK
<1>4. ASSUME NEW c \in copies' PROVE tree[c[2]] = Absent
  <2>1. PICK p \in Conflicting : c = <<p, NextCopy(tree, p)>>
    BY <1>1
  <2>2. p \in Copyable
    BY RestoreAssumption DEF Conflicting
  <2> QED BY <1>1, <2>1, <2>2, CopyIsFree
<1> QED BY <1>1, <1>3, <1>4 DEF Untouched

\* Writing one file or copy does not touch the place of another.
LEMMA UntouchedStep ==
  ASSUME ~ ConcurrentEdits, CopiesApart, CapturedShow, RestoreTypeOK, Checked, CopiesNamed,
         Untouched, [Next]_vars
  PROVE  Untouched'
<1> USE DEF Untouched, Goto, repoVars, planVars, Ended, Checking, Writing, Kinds
<1>0. /\ DOMAIN tree = Paths /\ applied \subseteq Captured /\ Captured \subseteq Paths
      /\ copies \subseteq kept
  BY RestoreAssumption DEF RestoreTypeOK, Trees, CopiesNamed
<1>1. CASE Start \/ Resolve \/ CheckTrust \/ CheckBranch \/ CheckCommit \/ ReadStatus
  BY <1>1 DEF Start, Resolve, CheckTrust, CheckBranch, CheckCommit, ReadStatus
<1>2. CASE Plan
  BY <1>2, PlanTouchesNothing
<1>3. CASE WriteFile
  <2>1. PICK q \in applied : tree' = [tree EXCEPT ![q] = Incoming[q]] /\ applied' = applied \ {q}
    BY <1>3 DEF WriteFile
  <2>2. \A c \in copies : c[2] # q /\ c[2] \in Paths
    BY <1>0, CopiesAreApart
  <2> QED BY <1>0, <1>3, <2>1, <2>2 DEF WriteFile
<1>4. CASE WriteCopy
  <2>1. PICK c \in copies : tree' = [tree EXCEPT ![c[2]] = Incoming[c[1]]] /\ copies' = copies \ {c}
    BY <1>4 DEF WriteCopy
  <2>2. c[2] \notin Captured /\ \A d \in copies' : d[2] # c[2] /\ d[2] \in Paths
    BY <1>0, <2>1, CopiesAreApart
  <2> QED BY <1>0, <1>4, <2>1, <2>2 DEF WriteCopy
<1>5. CASE FilesWritten \/ CopiesWritten
  BY <1>5 DEF FilesWritten, CopiesWritten
<1>6. CASE WriteState
  BY <1>6 DEF WriteState, AfterKind
<1>7. CASE Fail
  BY <1>7 DEF Fail
<1>8. ASSUME NEW p \in EditPaths, Edit(p) PROVE Untouched'
  BY <1>8 DEF Edit, MayEdit
<1>9. CASE Checkout
  BY <1>9 DEF Checkout, MayEdit
<1>10. CASE UNCHANGED vars
  BY <1>10 DEF vars
<1> QED BY <1>1, <1>2, <1>3, <1>4, <1>5, <1>6, <1>7, <1>8, <1>9, <1>10 DEF Next, RestoreStep

\* A step that writes puts its content where the commit's was, or nothing.
LEMMA WritesKeepLocalWork ==
  ASSUME ~ ConcurrentEdits, CopiesApart, RestoreTypeOK, CopiesNamed, Untouched, [Next]_vars,
         pc \in Writing, NEW p \in Paths, LocalWork(p)
  PROVE  tree'[p] = tree[p]
<1> USE DEF Writing, Kinds, Ended, Checking
<1>0. DOMAIN tree = Paths /\ copies \subseteq kept /\ commit \in Commits
  BY DEF RestoreTypeOK, Trees, CopiesNamed
<1>1. p \notin applied
  BY DEF LocalWork, Untouched
<1>2. \A c \in copies : c[2] # p
  <2> SUFFICES ASSUME NEW c \in copies, c[2] = p PROVE FALSE
    OBVIOUS
  <2>1. tree[p] = Absent
    BY DEF Untouched
  <2>2. TreeOf[commit][p] = Absent
    BY <1>0, CopiesAreApart
  <2> QED BY <2>1, <2>2 DEF LocalWork
<1>3. CASE WriteFile
  BY <1>0, <1>1, <1>3 DEF WriteFile
<1>4. CASE WriteCopy
  BY <1>0, <1>2, <1>4 DEF WriteCopy
<1>5. CASE Fail
  BY <1>0, <1>1, <1>2, <1>5 DEF Fail
<1>6. CASE tree' = tree
  BY <1>6
<1>7. Next => WriteFile \/ WriteCopy \/ Fail \/ tree' = tree
  BY DEF Next, RestoreStep, Start, Resolve, CheckTrust, CheckBranch, CheckCommit, ReadStatus,
         Plan, FilesWritten, CopiesWritten, WriteState, Edit, Checkout, MayEdit
<1> QED BY <1>3, <1>4, <1>5, <1>6, <1>7 DEF vars

\* If git prints every file of the session, copies have names of their own and
\* nobody edits meanwhile, no restore writes over local work, after whatever
\* executions that failed half way (planApplyFiles, applyChangedFiles).
THEOREM NoLocalWorkLost ==
  ASSUME ~ ConcurrentEdits, CopiesApart, CapturedShow PROVE Spec => LocalWorkKept
<1>1. RestoreTypeOK /\ ChecksHold /\ CopiesNamed /\ Untouched /\ [Next]_vars => Untouched'
  BY UntouchedStep DEF ChecksHold
<1>2. RestoreTypeOK /\ CopiesNamed /\ Untouched /\ [Next]_vars => [LocalWorkStays]_vars
  BY WritesKeepLocalWork DEF LocalWorkStays
<1> QED BY <1>1, <1>2, UntouchedInit, RestoreTyping, ChecksInvariance, NamesInvariance, PTL
        DEF Spec, LocalWorkKept

-----------------------------------------------------------------------------
(* The tree of a restore that refuses conflicts. *)

\* Its plan starts from the commit's tree and makes no copies (planApplyFiles).
LEMMA PlanIsBetween ==
  ASSUME RestoreTypeOK, Checked, Plan PROVE Between'
<1> SUFFICES ASSUME pc' \in Writing \cup {"done"}, ~ opts'.keepBoth PROVE Between'
  BY DEF Between
<1>1. /\ applied' = Captured \ Conflicting /\ pc' = "files"
      /\ copies' = {<<p, NextCopy(tree, p)>> : p \in Conflicting}
      /\ tree' = tree /\ commit' = commit /\ opts' = opts
  BY DEF Plan, Goto, Writing, repoVars
<1>2. Status(commit, tree) = {}
  BY <1>1 DEF Checked, Plan
<1>3. Conflicting = {}
  BY <1>1 DEF Conflicting
<1>4. \A p \in Paths : Visible(commit, p) => tree[p] = TreeOf[commit][p]
  BY <1>2, CleanTree DEF RestoreTypeOK
<1> QED BY <1>1, <1>3, <1>4 DEF Between

\* Each file written is one step nearer to the session (applyChangedFiles).
LEMMA BetweenStep ==
  ASSUME ~ ConcurrentEdits, RestoreTypeOK, Checked, Between, [Next]_vars
  PROVE  Between'
<1> USE DEF Between, Goto, repoVars, planVars, Ended, Checking, Writing, Kinds
<1>0. DOMAIN tree = Paths /\ applied \subseteq Captured /\ Captured \subseteq Paths
  BY RestoreAssumption DEF RestoreTypeOK, Trees
<1>1. CASE Start \/ Resolve \/ CheckTrust \/ CheckBranch \/ CheckCommit \/ ReadStatus
  BY <1>1 DEF Start, Resolve, CheckTrust, CheckBranch, CheckCommit, ReadStatus
<1>2. CASE Plan
  BY <1>2, PlanIsBetween
<1>3. CASE WriteFile
  BY <1>0, <1>3 DEF WriteFile
<1>4. CASE WriteCopy
  BY <1>4 DEF WriteCopy
<1>5. CASE FilesWritten \/ CopiesWritten
  BY <1>5 DEF FilesWritten, CopiesWritten
<1>6. CASE WriteState
  BY <1>6 DEF WriteState, AfterKind
<1>7. CASE Fail
  BY <1>7 DEF Fail
<1>8. ASSUME NEW p \in EditPaths, Edit(p) PROVE Between'
  BY <1>8 DEF Edit, MayEdit
<1>9. CASE Checkout
  BY <1>9 DEF Checkout, MayEdit
<1>10. CASE UNCHANGED vars
  BY <1>10 DEF vars
<1> QED BY <1>1, <1>2, <1>3, <1>4, <1>5, <1>6, <1>7, <1>8, <1>9, <1>10 DEF Next, RestoreStep

LEMMA BetweenInvariance ==
  ASSUME ~ ConcurrentEdits PROVE Spec => []Between
<1>1. Init => Between
  BY DEF Init, Between, Writing, Kinds
<1>2. RestoreTypeOK /\ ChecksHold /\ Between /\ [Next]_vars => Between'
  BY BetweenStep DEF ChecksHold
<1> QED BY <1>1, <1>2, RestoreTyping, ChecksInvariance, PTL DEF Spec

\* If nobody edits meanwhile, a restore that refuses conflicts ends with the
\* commit's tree and the session's files over it, and nothing else but what
\* .gitignore hides (runRestore).
THEOREM RejectMeansReproduced ==
  ASSUME ~ ConcurrentEdits PROVE Spec => []RejectReproduces
<1>1. Between => RejectReproduces
  BY DEF Between, RejectReproduces
<1> QED BY <1>1, BetweenInvariance, PTL

-----------------------------------------------------------------------------
\* All of it together: what the checks and the plan mean while files are written
\* (runRestore, planApplyFiles, applyChangedFiles).
THEOREM RestoreInvariance ==
  ASSUME ~ ConcurrentEdits, CopiesApart, CapturedShow
  PROVE  Spec => []RestoreInv
<1>1. RestoreTypeOK /\ CopiesNamed /\ Carried /\ [Next]_vars => Carried'
  BY CarriedStep
<1>2. RestoreTypeOK /\ ChecksHold /\ CopiesNamed /\ Untouched /\ [Next]_vars => Untouched'
  BY UntouchedStep DEF ChecksHold
<1>3. RestoreTypeOK /\ ChecksHold /\ CopiesNamed /\ Carried /\ Untouched /\ Between => RestoreInv
  BY DEF RestoreInv, ChecksHold
<1> QED BY <1>1, <1>2, <1>3, CarriedInit, UntouchedInit, BetweenInvariance, RestoreTyping,
           ChecksInvariance, NamesInvariance, PTL DEF Spec
=============================================================================
