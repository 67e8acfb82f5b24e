--------------------------- MODULE CaptureProofs ---------------------------
(***************************************************************************)
(* Proofs about Capture, for any repository and any user.  The heart is    *)
(* StatusAccounts: at the moment of git status every path has the content  *)
(* of the commit, or is excused, or has an entry whose file is going to be *)
(* read.  From there on contents are only added.                           *)
(***************************************************************************)
EXTENDS Capture, TLAPS

\* A printed path is the path itself, unless git quotes it (parseStatus).
LEMMA PrintedPlain == ASSUME NEW p \in Paths \ Quoted PROVE Printed(p) = p
  BY DEF Printed

\* What git status prints for a path that differs from the commit: an entry of
\* its own, one for its directory, or nothing when it is ignored (changes).
LEMMA DifferenceIsListed ==
  ASSUME NEW head \in Trees, NEW idx \in Trees, NEW work \in Trees,
         NEW p \in Paths, work[p] # head[p], work[p] # Absent, p \notin Ignored
  PROVE \/ \E e \in ChangedFiles(head, idx, work) : e.path = DirOf[p]
        \/ \E e \in ChangedFiles(head, idx, work) :
              e.path = Printed(p) /\ e.status # "deleted"
<1>1. CASE idx[p] # Absent
  <2> DEFINE e == [path |-> Printed(p), status |-> StatusOf(head, idx, work, p)]
  <2>1. Differs(head, idx, work, p)
    BY <1>1 DEF Differs
  <2>2. e \in ChangedFiles(head, idx, work)
    BY <2>1 DEF ChangedFiles, Changed
  <2>3. StatusOf(head, idx, work, p) # "deleted"
    BY DEF StatusOf
  <2> QED BY <2>2, <2>3
<1>2. CASE idx[p] = Absent
  <2> DEFINE e == [path |-> Entry(idx, p), status |-> "untracked"]
  <2>1. e \in ChangedFiles(head, idx, work)
    BY <1>2 DEF ChangedFiles, Untracked
  <2>2. e.path = DirOf[p] \/ (e.path = Printed(p) /\ e.status # "deleted")
    BY DEF Entry
  <2> QED BY <2>1, <2>2
<1> QED BY <1>1, <1>2

\* What it prints for a tracked path that is gone: its own entry, or only the
\* new name of a rename (parseStatus takes what stands behind the arrow).
LEMMA DeletionIsListed ==
  ASSUME WorktreeAssumption,
         NEW c \in Commits, NEW idx \in Trees, NEW work \in Trees,
         NEW p \in Paths, TreeOf[c][p] # Absent, work[p] = Absent
  PROVE \/ \E e \in ChangedFiles(TreeOf[c], idx, work) : e.path = Printed(p)
        \/ RenamedAway(c, ChangedFiles(TreeOf[c], idx, work), p)
<1> DEFINE head == TreeOf[c]
<1>1. CASE idx[p] # Absent
  <2> DEFINE e == [path |-> Printed(p), status |-> StatusOf(head, idx, work, p)]
  <2>1. Differs(head, idx, work, p)
    BY <1>1 DEF Differs
  <2>2. e \in ChangedFiles(head, idx, work)
    BY <2>1 DEF ChangedFiles, Changed
  <2> QED BY <2>2
<1>2. CASE idx[p] = Absent /\ \E r \in Paths : Moved(head, idx, p, r)
  <2>1. PICK r \in Paths : Moved(head, idx, p, r)
    BY <1>2
  <2> DEFINE e == [path |-> Printed(r), status |-> StatusOf(head, idx, work, r)]
  <2>2. Differs(head, idx, work, r) /\ head[r] = Absent
    BY <2>1 DEF Moved, Differs
  <2>3. e \in ChangedFiles(head, idx, work)
    BY <2>2 DEF ChangedFiles, Changed
  <2>4. StatusOf(head, idx, work, r) \in {"renamed", "deleted"}
    BY <2>1, <2>2 DEF StatusOf
  <2>5. RenamedAway(c, ChangedFiles(head, idx, work), p)
    BY <2>2, <2>3, <2>4 DEF RenamedAway, Tracked
  <2> QED BY <2>5
<1>3. CASE idx[p] = Absent /\ ~ \E r \in Paths : Moved(head, idx, p, r)
  <2> DEFINE e == [path |-> Printed(p), status |-> "deleted"]
  <2>1. e \in ChangedFiles(head, idx, work)
    BY <1>3 DEF ChangedFiles, Unindexed
  <2> QED BY <2>1
<1> QED BY <1>1, <1>2, <1>3

\* The entries have the shape of ChangedFile.
LEMMA EntriesTyped ==
  ASSUME WorktreeAssumption, NEW head \in Trees, NEW idx \in Trees, NEW work \in Trees
  PROVE ChangedFiles(head, idx, work) \subseteq Entries
<1>1. \A p \in Paths : Printed(p) \in Paths \cup Quotes
  BY DEF Printed, Quotes
<1>2. \A p \in Paths : Entry(idx, p) \in Paths \cup Dirs \cup Quotes
  BY <1>1 DEF Entry, WorktreeAssumption
<1>3. \A p \in Paths : StatusOf(head, idx, work, p) \in Statuses
  BY DEF StatusOf, Statuses
<1>4. Changed(head, idx, work) \subseteq Entries
  BY <1>1, <1>3 DEF Changed, Entries
<1>5. Unindexed(head, idx) \subseteq Entries
  BY <1>1 DEF Unindexed, Entries, Statuses
<1>6. Untracked(idx, work) \subseteq Entries
  BY <1>2 DEF Untracked, Entries, Statuses
<1> QED BY <1>4, <1>5, <1>6 DEF ChangedFiles

\* Every path is accounted for when the status is taken (ReadStatus).
LEMMA StatusAccounts ==
  ASSUME WorktreeAssumption,
         NEW c \in Commits, NEW idx \in Trees, NEW work \in Trees,
         NEW p \in Paths, NEW was, work[p] \in was,
         NEW entries, entries = ChangedFiles(TreeOf[c], idx, work)
  PROVE /\ \/ TreeOf[c][p] \in was
           \/ p \in Ignored \cup Quoted
           \/ \E e \in entries : e.path = DirOf[p]
           \/ was \cap ({Absent} \cup Large \cup Binary) # {}
           \/ \E e \in entries : e.path = p /\ e.status # "deleted"
        /\ \/ TreeOf[c][p] \in was
           \/ p \in Ignored
           \/ \E e \in entries : e.path \in {Printed(p), DirOf[p]}
           \/ RenamedAway(c, entries, p)
<1>1. TreeOf[c] \in Trees
  BY DEF WorktreeAssumption
<1>2. CASE work[p] = TreeOf[c][p]
  BY <1>2
<1>3. CASE work[p] = Absent /\ work[p] # TreeOf[c][p]
  BY <1>3, DeletionIsListed
<1>4. CASE work[p] # Absent /\ work[p] # TreeOf[c][p]
  <2>1. CASE p \in Ignored
    BY <2>1
  <2>2. CASE p \notin Ignored
    <3>1. \/ \E e \in entries : e.path = DirOf[p]
          \/ \E e \in entries : e.path = Printed(p) /\ e.status # "deleted"
      BY <1>1, <1>4, <2>2, DifferenceIsListed
    <3>2. p \in Quoted \/ Printed(p) = p
      BY PrintedPlain
    <3> QED BY <3>1, <3>2
  <2> QED BY <2>1, <2>2
<1> QED BY <1>2, <1>3, <1>4

-----------------------------------------------------------------------------
(* The invariant. *)

LEMMA CaptureInvInit == ASSUME WorktreeAssumption, CaptureAssumption, Init PROVE CaptureInv
<1>1. CaptureTypeOK
  BY DEF Init, CaptureTypeOK, WorktreeAssumption, CaptureAssumption, Nothing, Trees, Ended
<1> QED BY <1>1 DEF Init, CaptureInv, TreeSeen, ContentSeen, AllAccounted, AllRead, Written,
            Looking, Listed, Nothing

LEMMA TypeStep ==
  ASSUME WorktreeAssumption, CaptureAssumption, CaptureTypeOK, [Next]_vars
  PROVE CaptureTypeOK'
<1> USE DEF CaptureTypeOK
<1>1. CASE Start
  BY <1>1 DEF Start, Nothing, Trees, repository, Working, CaptureAssumption
<1>2. CASE ReadBranch
  BY <1>2 DEF ReadBranch, Step, repository, bounds, Working
<1>3. CASE ReadCommit
  BY <1>3 DEF ReadCommit, Step, repository, bounds, Working
<1>4. CASE ReadStatus
  <2>1. TreeOf[commit] \in Trees
    BY DEF WorktreeAssumption
  <2>2. listed' \subseteq Entries
    BY <1>4, <2>1, EntriesTyped DEF ReadStatus
  <2> QED BY <1>4, <2>2 DEF ReadStatus, Step, repository, bounds, Working
<1>5. CASE Skip
  BY <1>5 DEF Skip, repository, bounds
<1>6. CASE StatFile
  BY <1>6 DEF StatFile, Readable, repository, bounds
<1>7. CASE ReadFile
  BY <1>7 DEF ReadFile, repository, bounds, Ended, Trees
<1>8. CASE FilesRead \/ ReadStates \/ Sign \/ CreateOut \/ WriteOut \/ Fail
  BY <1>8 DEF FilesRead, ReadStates, Sign, CreateOut, WriteOut, Fail, Step, repository,
              snapshot, bounds, Working, Ended
<1>9. CASE User
  <2>1. tree' \in Trees /\ index' \in Trees /\ commit' \in Commits
        /\ branch' \in Branches \cup {Detached}
    <3>1. ASSUME NEW p \in Paths, Edit(p)
          PROVE tree' \in Trees /\ UNCHANGED <<branch, commit, index>>
      BY <3>1 DEF Edit, Trees
    <3>2. ASSUME NEW p \in Paths, Stage(p)
          PROVE index' \in Trees /\ UNCHANGED <<branch, commit, tree>>
      <4>1. TreeOf[commit][p] \in Contents \cup {Absent}
        BY DEF WorktreeAssumption, Trees
      <4> QED BY <3>2, <4>1 DEF Stage, Trees
    <3>3. ASSUME Commit PROVE commit' \in Commits /\ UNCHANGED <<branch, index, tree>>
      BY <3>3 DEF Commit
    <3>4. ASSUME Checkout
          PROVE tree' \in Trees /\ index' \in Trees /\ commit' \in Commits
                /\ branch' \in Branches \cup {Detached}
      BY <3>4 DEF Checkout, Trees, WorktreeAssumption
    <3> QED BY <1>9, <3>1, <3>2, <3>3, <3>4 DEF User
  <2>2. Act
    BY <1>9 DEF User, Edit, Stage, Commit, Checkout
  <2>3. seen' \in [Paths -> SUBSET (Contents \cup {Absent})]
    BY <2>1, <2>2 DEF Act, Trees
  <2>4. edits' \in 0 .. MaxEdits
    BY <2>2 DEF Act, CaptureAssumption
  <2> QED BY <2>1, <2>2, <2>3, <2>4 DEF Act, snapshot
<1>10. CASE UNCHANGED vars
  BY <1>10 DEF vars, repository, snapshot, bounds
<1> QED BY <1>1, <1>2, <1>3, <1>4, <1>5, <1>6, <1>7, <1>8, <1>9, <1>10 DEF Next, CaptureStep

\* Nothing the command knows is lost by a step that leaves its snapshot alone
\* and only adds to what was seen.
LEMMA SnapshotKept ==
  ASSUME CaptureInv, CaptureTypeOK', UNCHANGED snapshot,
         \A p \in Paths : seen[p] \subseteq seen'[p],
         pc' = "files" => pc = "files",
         pc' \in Listed => pc \in Listed,
         pc' \in Looking => \A p \in Paths : tree'[p] \in seen'[p],
         pc' \in Listed \ {"files"} => pending = {} /\ reading = None,
         pc' = "done" => out' = Session
  PROVE CaptureInv'
<1> USE DEF CaptureInv, snapshot
<1>1. TreeSeen' BY DEF TreeSeen
<1>2. ContentSeen' BY DEF ContentSeen
<1>3. AllAccounted'
  <2> SUFFICES ASSUME pc' \in Listed, NEW p \in Paths PROVE Accounted(p)' /\ Shown(p)'
    BY DEF AllAccounted
  <2>1. Accounted(p) /\ Shown(p)
    BY DEF AllAccounted
  <2>2. Accounted(p)'
    BY <2>1 DEF Accounted, Excused, Coming
  <2>3. Shown(p)'
    BY <2>1 DEF Shown, RenamedAway
  <2> QED BY <2>2, <2>3
<1>4. AllRead' BY DEF AllRead
<1>5. Written' BY DEF Written, Session
<1> QED BY <1>1, <1>2, <1>3, <1>4, <1>5

\* A step of captureFileSnapshots: what it takes from the list is read, is going
\* to be read, or cannot be had.
LEMMA FilesStep ==
  ASSUME CaptureInv, CaptureTypeOK', pc = "files", pc' = "files",
         UNCHANGED <<listed, statusHead, seen, tree>>,
         ContentSeen',
         \A p \in Paths : Coming(p) =>
            Coming(p)' \/ seen[p] \cap ({Absent} \cup Large \cup Binary) # {}
  PROVE CaptureInv'
<1> USE DEF CaptureInv
<1>1. TreeSeen' BY DEF TreeSeen, Looking
<1>2. AllAccounted'
  <2> SUFFICES ASSUME NEW p \in Paths PROVE Accounted(p)' /\ Shown(p)'
    BY DEF AllAccounted
  <2>1. Accounted(p) /\ Shown(p)
    BY DEF AllAccounted, Listed
  <2>2. Accounted(p)'
    BY <2>1 DEF Accounted, Excused
  <2>3. Shown(p)'
    BY <2>1 DEF Shown, RenamedAway
  <2> QED BY <2>2, <2>3
<1>3. AllRead' BY DEF AllRead
<1>4. Written' BY DEF Written
<1> QED BY <1>1, <1>2, <1>3, <1>4

LEMMA CaptureInvStep ==
  ASSUME WorktreeAssumption, CaptureAssumption, CaptureInv, [Next]_vars
  PROVE CaptureInv'
<1>0. CaptureTypeOK'
  BY TypeStep DEF CaptureInv
<1>1. CASE Start
  BY <1>0, <1>1 DEF Start, CaptureInv, TreeSeen, ContentSeen, AllAccounted, AllRead, Written,
                    Listed, Nothing, repository
<1>2. CASE ReadBranch \/ ReadCommit
  BY <1>0, <1>2 DEF ReadBranch, ReadCommit, Step, CaptureInv, TreeSeen, ContentSeen,
                    AllAccounted, AllRead, Written, Listed, Looking, repository
<1>3. CASE ReadStatus
  <2>1. TreeSeen' /\ ContentSeen' /\ AllRead' /\ Written'
    BY <1>3 DEF ReadStatus, Step, CaptureInv, TreeSeen, ContentSeen, AllRead, Written,
                Listed, Looking, repository
  <2>2. ASSUME NEW p \in Paths PROVE Accounted(p)' /\ Shown(p)'
    <3>1. /\ commit \in Commits /\ index \in Trees /\ tree \in Trees
          /\ tree[p] \in seen[p]
          /\ listed' = ChangedFiles(TreeOf[commit], index, tree)
          /\ pending' = listed' /\ statusHead' = commit /\ seen' = seen
      BY <1>3 DEF ReadStatus, Step, CaptureInv, CaptureTypeOK, TreeSeen, Looking
    <3>2. /\ \/ TreeOf[commit][p] \in seen[p]
             \/ p \in Ignored \cup Quoted
             \/ \E e \in listed' : e.path = DirOf[p]
             \/ seen[p] \cap ({Absent} \cup Large \cup Binary) # {}
             \/ \E e \in listed' : e.path = p /\ e.status # "deleted"
          /\ \/ TreeOf[commit][p] \in seen[p]
             \/ p \in Ignored
             \/ \E e \in listed' : e.path \in {Printed(p), DirOf[p]}
             \/ RenamedAway(commit, listed', p)
      BY <3>1, StatusAccounts
    <3>3. Accounted(p)'
      BY <3>1, <3>2 DEF Accounted, Excused, Coming
    <3>4. Shown(p)'
      BY <3>1, <3>2 DEF Shown, RenamedAway
    <3> QED BY <3>3, <3>4
  <2>3. AllAccounted'
    BY <2>2 DEF AllAccounted
  <2> QED BY <1>0, <2>1, <2>3 DEF CaptureInv
<1>4. CASE Skip
  <2>1. PICK e \in pending :
          /\ e.status = "deleted" \/ ~ Readable(e)
          /\ pending' = pending \ {e}
    BY <1>4 DEF Skip
  <2>2. /\ pc = "files" /\ pc' = "files"
        /\ UNCHANGED <<listed, statusHead, seen, tree, reading, content>>
    BY <1>4 DEF Skip, repository
  <2>3. ASSUME NEW p \in Paths, Coming(p)
        PROVE Coming(p)' \/ seen[p] \cap ({Absent} \cup Large \cup Binary) # {}
    <3>1. CASE e.path = p /\ e.status # "deleted"
      <4>1. tree[p] \in {Absent} \cup Large
        BY <2>1, <3>1 DEF Readable
      <4>2. tree[p] \in seen[p]
        BY <2>2 DEF CaptureInv, TreeSeen, Looking
      <4> QED BY <4>1, <4>2
    <3>2. CASE ~ (e.path = p /\ e.status # "deleted")
      BY <2>1, <2>2, <2>3, <3>2 DEF Coming
    <3> QED BY <3>1, <3>2
  <2>4. ContentSeen'
    BY <2>2 DEF CaptureInv, ContentSeen
  <2> QED BY <1>0, <2>2, <2>3, <2>4, FilesStep
<1>5. CASE StatFile
  <2>1. PICK e \in pending :
          /\ e.status # "deleted" /\ Readable(e)
          /\ reading' = e.path
          /\ pending' = pending \ {e}
    BY <1>5 DEF StatFile
  <2>2. /\ pc = "files" /\ pc' = "files" /\ reading = None
        /\ UNCHANGED <<listed, statusHead, seen, tree, content>>
    BY <1>5 DEF StatFile, repository
  <2>3. ASSUME NEW p \in Paths, Coming(p) PROVE Coming(p)'
    BY <2>1, <2>2, <2>3 DEF Coming, CaptureAssumption
  <2>4. ContentSeen'
    BY <2>2 DEF CaptureInv, ContentSeen
  <2> QED BY <1>0, <2>2, <2>3, <2>4, FilesStep
<1>6. CASE ReadFile /\ tree[reading] = Absent
  BY <1>0, <1>6 DEF ReadFile, CaptureInv, TreeSeen, ContentSeen, AllAccounted, AllRead,
                    Written, Listed, Looking
<1>7. CASE ReadFile /\ tree[reading] # Absent
  <2>1. /\ pc = "files" /\ pc' = "files" /\ reading # None /\ reading' = None
        /\ UNCHANGED <<listed, pending, statusHead, seen, tree>>
        /\ content' = IF tree[reading] \in Binary THEN content
                      ELSE [content EXCEPT ![reading] = tree[reading]]
    BY <1>7 DEF ReadFile, repository
  <2>2. reading \in Paths /\ content \in Trees /\ tree[reading] \in seen[reading]
    BY <2>1 DEF CaptureInv, CaptureTypeOK, TreeSeen, Looking
  <2>3. ASSUME NEW p \in Paths, Coming(p)
        PROVE Coming(p)' \/ seen[p] \cap ({Absent} \cup Large \cup Binary) # {}
    <3>1. CASE p = reading
      BY <1>7, <2>1, <2>2, <3>1 DEF Coming, Trees
    <3>2. CASE p # reading
      BY <2>1, <2>2, <2>3, <3>2 DEF Coming, Trees
    <3> QED BY <3>1, <3>2
  <2>4. ContentSeen'
    BY <2>1, <2>2 DEF CaptureInv, ContentSeen, Trees
  <2> QED BY <1>0, <2>1, <2>3, <2>4, FilesStep
<1>8. CASE FilesRead \/ ReadStates \/ Sign \/ CreateOut \/ WriteOut \/ Fail
  <2>1. /\ UNCHANGED <<snapshot, seen, tree>>
        /\ pc' \notin Looking
        /\ pc' \in Listed => pc \in Listed /\ pending = {} /\ reading = None
        /\ pc' = "done" => out' = Session
    BY <1>8 DEF FilesRead, ReadStates, Sign, CreateOut, WriteOut, Fail, Step, Looking, Listed,
                repository, CaptureInv, AllRead
  <2> QED BY <1>0, <2>1, SnapshotKept DEF Looking
<1>9. CASE User
  <2>1. Act
    BY <1>9 DEF User, Edit, Stage, Commit, Checkout
  <2>2. /\ pc \in Looking /\ UNCHANGED <<snapshot, pc>>
        /\ seen' = [p \in Paths |-> seen[p] \cup {tree'[p]}]
    BY <2>1 DEF Act, Looking
  <2>3. pc' \in Listed => pc = "files"
    BY <2>2 DEF Looking, Listed
  <2> QED BY <1>0, <2>2, <2>3, SnapshotKept DEF Looking
<1>10. CASE UNCHANGED vars
  <2>1. UNCHANGED <<snapshot, seen, tree, pc, out>>
    BY <1>10 DEF vars, repository
  <2> QED BY <1>0, <2>1, SnapshotKept DEF CaptureInv, TreeSeen, AllRead, Written
<1> QED BY <1>1, <1>2, <1>3, <1>4, <1>5, <1>6, <1>7, <1>8, <1>9, <1>10
        DEF Next, CaptureStep

-----------------------------------------------------------------------------
(* Theorems. *)

\* What the command knows of the tree holds at every step of every capture.
THEOREM CaptureInvariance == Spec => []CaptureInv
<1>1. Init => CaptureInv
  BY WorktreeAssumption, CaptureAssumption, CaptureInvInit
<1>2. CaptureInv /\ [Next]_vars => CaptureInv'
  BY WorktreeAssumption, CaptureAssumption, CaptureInvStep
<1> QED BY <1>1, <1>2, PTL DEF Spec

\* Whatever the user does meanwhile, a session restores every path to something
\* it was during the capture, but for the exceptions (captureFileSnapshots).
THEOREM CaptureIsAccountedFor == Spec => []EveryFileAccountedFor
<1>1. CaptureInv => EveryFileAccountedFor
  <2> SUFFICES ASSUME CaptureInv, pc = "done", statusHead = gotCommit, NEW p \in Paths
               PROVE Reproduced(out, p) \in seen[p] \/ Excused(p)
    BY DEF EveryFileAccountedFor
  <2>1. out = Session /\ pending = {} /\ reading = None /\ Accounted(p)
    BY DEF CaptureInv, Written, AllRead, AllAccounted, Listed
  <2>2. content[p] = Absent \/ content[p] \in seen[p]
    BY DEF CaptureInv, ContentSeen
  <2>3. Reproduced(out, p) = IF content[p] # Absent THEN content[p] ELSE TreeOf[statusHead][p]
    BY <2>1 DEF Session, Reproduced
  <2>4. Coming(p) => content[p] # Absent
    BY <2>1, CaptureAssumption DEF Coming, CaptureAssumption
  <2> QED BY <2>1, <2>2, <2>3, <2>4 DEF Accounted
<1> QED BY <1>1, CaptureInvariance, PTL

\* What a restore would get wrong is listed, or ignored by git, or the old name
\* of a rename (parseStatus).
THEOREM LossesAreListed == Spec => []LossesShow
<1>1. CaptureInv => LossesShow
  <2> SUFFICES ASSUME CaptureInv, pc = "done", statusHead = gotCommit, NEW p \in Paths
               PROVE \/ Reproduced(out, p) \in seen[p]
                     \/ p \in Ignored
                     \/ \E e \in out.listed : e.path \in {Printed(p), DirOf[p]}
                     \/ RenamedAway(out.commit, out.listed, p)
    BY DEF LossesShow
  <2>1. out = Session /\ Shown(p)
    BY DEF CaptureInv, Written, AllAccounted, Listed
  <2>2. content[p] = Absent \/ content[p] \in seen[p]
    BY DEF CaptureInv, ContentSeen
  <2>3. /\ Reproduced(out, p) = IF content[p] # Absent THEN content[p] ELSE TreeOf[statusHead][p]
        /\ out.listed = listed /\ out.commit = statusHead
    BY <2>1 DEF Session, Reproduced
  <2> QED BY <2>1, <2>2, <2>3 DEF Shown
<1> QED BY <1>1, CaptureInvariance, PTL
=============================================================================
