# A verification project for StateRelay

StateRelay moves uncommitted work from one machine to another. `relay capture`
writes a *session* (repository, branch, commit, changed files with content,
editor/terminal/browser state, optional signature) to a JSON file. `relay send`
posts it to a `relay listen` process, which stores it in an inbox directory and
records it in a SQLite history. `relay restore` checks a session against a
working tree and writes the files. Devices find each other with mDNS and trust
each other through a file of fingerprints.

The modules here model the Go code under `src/`. TLC checks them on small
instances, TLAPS proves the theorems of the `...Proofs` modules for every one.
`PROJECT.json` maps each definition to the lines it stands for.

## 1. Inventory

| Part | State | Operations | Interaction | What is hard | What makes it correct |
|---|---|---|---|---|---|
| Receive path (`internal/transport/http.go`, `recordingInbox` in `cmd/relay/main.go`) | inbox directory, one file per session | `Handler`, `FileInbox.Save`, `recordingInbox.Save` | one goroutine per request; several listeners may share an inbox or a history | names allocated by `O_EXCL` in a bounded loop; file then row, two stores and no transaction; handlers outlive their client and die with their listener | a receipt names the session sent; a file has one writer; a row is backed by its file; nothing stored changes; refusals have a cause |
| Send client (`Client.Send`, `runSend`) | none after the process | post, print the receipt | HTTP | 15 s timeout, lost answers, refused dials, retries by the user | every send ends; no false receipt |
| Inbox and history readers (`FileInbox.List`, `runInbox`, `resolveRestoreSession`, `resolveHistorySession`) | none | list, latest, get, open again | read the directory and the database beside the listeners | files appear and are half written while the list is read; a path is opened a second time | listings complete; latest not older than what was acknowledged; the file opened is the one listed |
| History (`internal/history`) | table `session_history` | `Record`, `List`, `Get`, `Count` | SQLite | key is the receipt ID alone; times are compared as text | rows last; newest first |
| Restore (`runRestore`) | the working tree; `.staterelay/*.json` | resolve or clone, check signer, branch, commit, status, plan, write files, copies, states | git processes, the user's editor, the trust store | checks and writes are separate; dies half way; paths as git prints them | local work survives; incoming content survives; nothing is written unchecked |
| Git state (`internal/gitstate`) | none | `Root`, `Branch`, `Commit`, `Remote`, `Clone`, `changes`, `captureFileSnapshots` | one git process per question | the answers belong to different moments; porcelain paths are parsed as text | every content captured is one the file had; what is missing is listed |
| Capture (`runCapture`) | session file | capture, sign, write | git state, state files, identity, a user at work | torn snapshot, size limit, half-written state files | what is captured can be restored, and nothing else is lost silently |
| Session (`internal/session`) | none | `New…`, `Sign`, `VerifySignature`, `ReadJSON`, `validate` | everywhere | which fields are signed; a signature over text that is encoded and decoded on every hop | what is signed arrives as it was, and no sound session is refused |
| Trust store (`internal/truststore`, `trust`, `pair`) | `trusted-devices.json` | `Load`, `Add`, `Remove`, `Save`, `Contains` | commands without a lock; listeners keep the copy they started with | lost update, truncated file, stale copy | a device removed stays out; a device added stays in |
| Device identity (`internal/deviceidentity`) | `device-identity.json` | `LoadOrCreate`, `Load` | capture, listen, pair | two creators; crash between create and write | one identity per workspace |
| Pair codes (`internal/paircode`) | none | `Code` | both devices | both sides compute it alone | symmetric in the two fingerprints |
| TLS (`internal/tlsidentity`, `newListenerTLSConfig`) | none | certificate, fingerprint, `VerifyPeerCertificate` | trust store | copy of the store | only trusted peers |
| Editor, terminal, browser state (`internal/*state`) | `.staterelay/*-state.json` | `ReadWorkspace`, `WriteWorkspace` | VS Code extension, capture, restore | two languages read one format; omitted empty lists; files left from earlier | what was open at the source is what opens at the destination |
| VS Code extension (`extensions/vscode`) | the same file | capture, restore editors | the files restore wrote | files not there yet are skipped | reads what Go writes |
| Discovery (`internal/discovery`) | none | `Advertise`, `Lookup` | mDNS | 16-entry channel drained only after the query; duplicates | every device listed once |
| Doctor, printing, flags, scripts | none | – | – | – | – |

The hazards, each with its line, are in `PROJECT.json`.

## 2. Modules

```
Mailbox  <== refined by ==  Receive  <-- extended by --  InboxReaders
                               ^                              ^
                          MCReceive             MCInboxReaders, ReceiveProofs
Worktree <-- extended by -- Restore  <-- MCRestore, RestoreProofs
         <-- extended by -- Capture  <-- MCCapture, CaptureProofs
Handoff    <-- MCHandoff, HandoffProofs
TrustStore <-- MCTrustStore, TrustStoreProofs
WriteOnce <== refined by ==  Identity  <-- IdentityProofs
Discovery  <-- MCDiscovery, DiscoveryProofs
History    <-- MCHistory, HistoryProofs
```

**Receive** – senders, handler goroutines, inbox directories, history and
listeners. A *run* is one execution of `relay send`; a retry is another run of
the same session. `sender` is where that process stands, `handler` where the
goroutine serving it stands, `attempt` is the loop counter of `FileInbox.Save`,
`slot` the name it created, `reply` the answer it wrote. `inbox[i][id]` is what
a directory has under a name (`Absent`, `Partial`, or a session) and
`history[id]` the row with that key. One action per system call that others can
see: `Decode` (`session.ReadJSON` and the context check), `Create`/`NameTaken`
(`OpenFile` with `O_EXCL`), `Write` (`WriteJSON` and `Close`), `Record`
(`Store.Record`), each with its failure. Every request has a connection of its own
to the database and waits for no lock, so `RecordFails` is possible whenever another
request is recording (`Busy`), also without I/O faults. `Stop` kills a listener with its
handlers: `main` passes `context.Background()`, so an interrupt never reaches
the `Shutdown` path. `GiveUp` is the client's timeout or a dropped connection,
after which the request context may be seen as cancelled where the code looks.

**Mailbox** – what the `Inbox` interface promises: a session is delivered whole,
at most once per request, under a name nothing else has; rows and receipts only
for delivered sessions; nothing delivered changes. `Receive` implements it under
the mapping at its end: a file counts as delivered from its last byte on. What
the promise is worth to a caller is `Kept` and `DeliveredStays`, which follow from
Mailbox alone (`PromiseSuffices`).

**InboxReaders** – composes `Receive` with the commands that read its stores:
`relay inbox`, `restore latest` or by name, `restore --history`. `ReadDir` and
each file opened are separate steps.

**Worktree** – a working tree over an index over a commit, and what `changes`
and `parseStatus` make of `git status --porcelain=v1` for it: an untracked file
that is ignored is not printed, an untracked directory is printed instead of its
files, an odd path is printed in quotes (which `parseStatus` takes for a part of
it), and of a rename only the new name is kept.

**Capture** – `gitstate.Capture` and `runCapture` beside a user who edits,
stages, commits and checks out between any two of its steps: `ReadBranch`,
`ReadCommit` and `ReadStatus` are a git process each, and every listed file is
looked at (`StatFile` or `Skip`) and read (`ReadFile`) by itself. `seen` holds
what each path was since the capture began. `CreateOut` truncates an earlier
session file before `WriteOut`; `Fail` ends the command anywhere.

**Handoff** – one session from end to end: the writers of the state files
(`CreateState`, `WriteState`: the extension, `relay terminal`, `relay browser`),
`relay capture` reading and signing them, `send` and the listener decoding and
encoding the session again (`Relay`), damage on the way, `relay restore`
(`BeginRestore` with its flag and the trust store, `Accept`, `PutContent`,
`PutState`), and what opens the states on the
destination (`ReadView`, `OpenItem`; `OrderFilesForRestore` is the set of stable
orders with the active file last, of which there is one). The codec is modelled by what it changes:
an empty list is left out of the JSON, and text that is not UTF-8 becomes U+FFFD.
A signature is a key and the payload it was made over. `VerifySignature` takes the
public key from the session, so `Valid` is content with any: whoever edits the text
(`Damage`, `Alter`) may leave the signature, strip it, or sign the result with every
key but the source's; `Trusted` is `verifyTrustedSession`, for any trust store. What a
writer does to a state file after capture read it concerns the next session and is
left out (`Unread`).
Handoff stands beside Receive, Capture and Restore: it has one session and one
file and follows what is carried; they have many and follow who writes what.

**Restore** – `runRestore` step by step, with a user who edits and checks out,
failing writes, a process that dies and repeated executions. `opts` are the
flags, `changed` is the status, `applied` and `copies` are the parts of the plan
still to be written. `intact` stands for what validation, hashes and path rules
say of the session.

**TrustStore** – the commands that load, change and write `trusted-devices.json`
without a lock, truncating it first; listeners with the copy they loaded when
they started (`Accepts`), restores that load it each time (`Verifies`, which is
`trusted` in Restore). `Begin` covers `trust add`, `trust remove` and the part
of `pair` behind its code check. Names and times of devices are left out: no
decision looks at them. The auxiliary `settled` holds, for a device, the last
command on it if that ran without overlap and reported success.

**Identity** – `LoadOrCreate` against other makers and against the commands that
only load the file: look, create with `O_EXCL`, write, with failures and deaths.

**WriteOnce** – what `LoadOrCreate` promises: a workspace gets at most one key,
keeps it, and every command that goes on with a key has that one. `Identity`
implements it: the key is decided when the file is complete.

**Discovery** – `Lookup`: answers arrive in a channel of limited capacity, which
is drained, reduced to one device per key and sorted once the query is over. The
query itself (hashicorp/mdns) is external.

**History** – `formatTime`, `Record` and `List`: handlers take the time and
record their rows later, in any order; `Text` gives the characters of a
timestamp, digit by digit, as RFC 3339 with the trailing zeros dropped. `Weight[n]`
is what the digit at place `n` counts (`Base` to the power `Places - n`), given by
its defining equation.

Mutants (definitions marked *Mutant*) stand before the definition they replace.
Each is a plausible slip at that place, and each breaks one property.

## 3. Runs

| Run | Instance | What it shows |
|---|---|---|
| `receive_faults` | 3 sends, 2 sessions of one stem, 2 listeners on one inbox, 2 names, I/O faults; symmetric | receipts, files and rows agree whatever fails; `Receive` implements `Mailbox`; `ReceiveInv` is an invariant |
| `receive_names` | 3 sends, 2 names, one session too long, listener may die, no I/O faults | refusals have a legitimate cause, among them a database that is in use; every send ends without its timeout |
| `inbox_readers` | 2 sends, 2 inboxes, one reader, I/O faults | complete listings, no stale latest, the file opened is the file listed or looked up and can be read; `ReadersInv` is an invariant |
| `restore` | 2 executions, all flags, a tracked and a new file, edits and checkouts in between, failing writes | local work and incoming content survive, nothing is written unchecked, every restore ends; `RestoreInv` is an invariant |
| `trust_store` | 4 commands, 2 devices, 2 listeners, faults; symmetric | what a command did alone is not undone by overlapping or dying commands on other devices; later listeners go by it |
| `identity` | 3 makers, 2 loaders, faults | all that get an identity get the one in the file; `Identity` implements `WriteOnce` |
| `capture` | one capture, a tracked file, a new one and one with an odd name in a directory, 2 actions of the user, every initial tree with nothing or everything staged | each path is restored to something it was during the capture, or has a named excuse; what is lost is listed |
| `handoff` | one session, three open files (or none), a directory that is there and one that is gone, a tab, 2 contents, 2 keys, every trust store, damage, a failing restore; symmetric | what the source signed, and what is accepted where only the source is trusted, arrives as captured; no sound session is refused; no state is lost or left half; what opens is what was open |
| `discovery` | 6 answers, 4 places | first answers are listed, once each and in order; a lookup ends |
| `history` | 4 requests (two under one id), 6 instants, 3 limits | listings are ordered down to the second, and the limit cuts off nothing newer |
| `receive_ledger` | 2 listeners with an inbox each and one history | **fails**: a row is replaced |
| `restore_unlisted` | an ignored file, a file in an untracked directory | **fails**: overwritten in place |

The runs that fail state what the repository says of itself; the quotes are with
the findings in `PROJECT.json`. Section 6 says more of them.

**Bounds.** `MaxAttempts` and `MaxCopies` are 1000 in the code. Two names are
enough for the first, a later and no name to be found, and three sends compete
for two names. Three sends are the least where two share a name search while a
third has finished; two listeners tell a shared directory from a shared process.
`MaxRuns = 2` gives a restore over what an earlier one left; a third sees the
same kinds of trees. Two paths, one tracked and one new, with two copy names
each give every combination of applied, conflicting and leftover. In `trust_store`,
two commands can overlap on a second device around a third that ran alone, with
a fourth after them. In `capture`, two actions are the least that stage and
commit, or change a file and change it back (`MaxEdits`); one execution is
enough, since each begins with nothing but the session file (`MaxRuns`). In
`handoff`, each kind of state is written once before or during the capture
(`MaxWrites`), so that a file is absent, half written or whole when it is read;
the destination may hold an earlier editor state, whole or half. Two keys are the
source's and one of somebody else, who may be trusted or not. The channel of
Discovery has 16 places in the code and 4 here, so that two of six answers find
none. A fraction of a second has 9 digits of 10 values in the code, 2 of 2 here
(`Places`, `Base`): enough for fractions of every length next to one another,
and `MaxTime` goes into the next second. Symmetry is used in `receive_faults`,
`trust_store`, `handoff` and `history` only, where no liveness property is checked
and no constant distinguishes the values permuted (in `history`, the two requests
under one id).

**Fairness.** `WF` on each handler (the Go scheduler runs every goroutine and
every call in it returns), on the arrival of an answer or of the end of a
connection, on the steps of a restore that has been started, on the end of an
mDNS query (its timeout) and on the loop that drains its channel. None on
posting, giving up, stopping or starting a listener, answering, editing or
failing: nobody has to. In particular `EverySendAnswered` does not use the 15
second timeout. Capture, Handoff, TrustStore, Identity and History state safety
only and need none.

**Deadlock** is checked for Receive, InboxReaders and Handoff (a listener can
always stop or start, and a state can always be opened again); the executions of
the other models are used up at some point, so it is off there.

## 4. Proofs

Every safety property that a passing run checks is proved for all values of the
constants, from the assumptions of the modules and the hypotheses named below.

`ReceiveProofs` proves, for any number of runs, sessions, listeners, inboxes and
names, from the assumptions `ReceiveAssumption` and `NoneIsNoValue` of
`Receive`:

| Theorem | Statement |
|---|---|
| `Typing` | `Spec => []TypeOK` |
| `Invariance` | `Spec => []ReceiveInv` |
| `ReceiptsAreTrue` | `Spec => []ReceiptMeansStored` |
| `FilesHaveOneWriter` | `Spec => []EveryFileHasOneWriter` |
| `HistoryIsBacked` | `Spec => []HistoryRowsHaveFiles` |
| `RefusalsHaveCauses` | `Spec => []NoSpuriousRefusal` |
| `StoredSessionsStay` | `Spec => StoredImmutable` |
| `ReceiptsAreRecorded` | `Spec => []ReceiptMeansRecorded`, when all listeners use one inbox |
| `OneInboxKeepsRows` | `Spec => HistoryDurable`, when all listeners use one inbox |
| `Implements` | `Spec => MailboxSpec` |
| `PromiseSuffices` | `MailboxSpec => []M!Kept /\ M!DeliveredStays` |

None of the safety properties is inductive. The invariant `ReceiveInv` adds what
a handler knows from where it stands (`Progress`: after `Create` its file is
there and partial, after `Write` it holds the session, an answer with a receipt
is its own name), that no two handlers have the same name of the same inbox
(`NamesNotShared`), that every file has a writer (`FilesHaveWriters`), and that
a handler has seen every earlier name in use (`NamesTried`).

The argument turns on two facts about every step. Files only grow: `Absent` to
`Partial` to a session (`FilesOnlyGrow`). And a step that changes a file is a step of the
handler that owns its name (`OwnFile`). So what one handler knows of its file survives
every step of the others, and each action needs to be looked at only for its own
run. `O_EXCL` enters at one place: `Create` takes a name whose file is `Absent`,
and by `Progress` no other handler's name is. The refinement follows: `Create`
and failures stutter, `Write` delivers, `Record` enters, `ReceiveReply`
acknowledges; a failed write that wrote everything also delivers.

`ReceiptsAreRecorded` and `OneInboxKeepsRows` need their hypothesis:
`receive_ledger` is the counterexample without it. The second adds that the handler
a row came from has ended and kept its name (`Settled`), so nobody in the same inbox
can record under that key again: a row is only ever replaced by one of another inbox
(`ReplacedFromElsewhere`, which needs no hypothesis).

`TrustStoreProofs` proves, for any number of devices, commands and listeners,
from `TrustAssumption`:

| Theorem | Statement |
|---|---|
| `TrustInvariance` | `Spec => []TrustInv` |
| `SoleCommandsStick` | `Spec => []SettledStays` |
| `ListenersObey` | `Spec => []ListenersFollow` |
| `TrustIsInvited` | `Spec => []OnlyTheAddedAreTrusted` |

`SettledStays` speaks of the file only; a command that loaded earlier may write
later. `TrustInv` therefore adds that every copy still to be written respects
what is settled (`StoreInv`) and that no running command's device is settled,
and none has company while one counts as alone (`RunningInv`). A command that
settles its device is then the only one that could still write. `InvitedInv`, a
conjunct of `TrustInv`, says of every copy of the store that its devices were all
asked for; overlaps and stale copies may bring a removed device back, but trust
nobody who was never added.

`IdentityProofs` proves `Spec => []IdentityInv` and, from it, `IdentitiesAgree`
(`Spec => []OneIdentity`), from `IdentityAssumption`. The invariant adds that one
maker at most is between its create and its write, and that the file is cut off
as long as it is: whoever reads it then gets an error and no key. From it
`IdentityIsWrittenOnce` (`Spec => WriteOnceSpec`) follows step by step: `Load` is
`Learn`, `Write`, and a `Fail` that had written everything, are `Decide`, and the
other steps stutter.

`ReceiveProofs` goes on to prove of InboxReaders, on top of `ReceiveInv` and from
`ReadersAssumption`, for any number of readers: `ReadersKnow` (`ReadersInv`), `ListsAreComplete`,
`LatestIsLatest` (`LatestIsNotOlder`), `OpenedAsListed` (`OpenedIsWhatWasListed`)
and `ChosenCanBeRead` (`ChosenIsReadable`). A session that is whole stays
(`StoredSessionsStay`), so what a reader has seen of an inbox remains true while
the handlers go on, and a receipt that was given before the listing names a file
that the listing meets.

`RestoreProofs` proves, for any files, commits, copy names and number of
executions:

| Theorem | Statement | Hypotheses |
|---|---|---|
| `RestoreTyping` | `Spec => []RestoreTypeOK` | – |
| `NothingWrittenUnasked` | `Spec => []WritesAreAsked` | – |
| `NothingWrittenUnchecked` | `Spec => []WritesAreChecked` | `~ ConcurrentEdits` |
| `RejectMeansReproduced` | `Spec => []RejectReproduces` | `~ ConcurrentEdits` |
| `NoIncomingLost` | `Spec => []IncomingPreserved` | `~ ConcurrentEdits`, `CopiesApart` |
| `NoLocalWorkLost` | `Spec => LocalWorkKept` | `~ ConcurrentEdits`, `CopiesApart`, `CapturedShow` |
| `RestoreInvariance` | `Spec => []RestoreInv` | `~ ConcurrentEdits`, `CopiesApart`, `CapturedShow` |

The hypotheses are what the code relies on without checking it, and each is
needed: without `~ ConcurrentEdits` a save between status and write is lost,
without `CopiesApart` a copy may take the name of a file of the session, without
`CapturedShow` the status hides a captured path (`restore_unlisted`): a captured
path must be tracked in the session's commit, or neither ignored nor in a directory
git prints as a whole. What the flags, the signer, the hashes and the paths forbid
is not written whatever the user does (`WritesAreAsked`); only branch and commit can
change under a restore that runs. `RestoreInv`
consists of what each check established (`Checked`), the names of copies
(`CopiesNamed`), that every captured content is in the tree or in the plan
(`Carried`), that what is still to be written takes the place of nothing
(`Untouched`), and the tree of a `reject` restore (`Between`).

`CaptureProofs` proves `CaptureInvariance` (`CaptureInv`), `CaptureIsAccountedFor`
(`EveryFileAccountedFor`) and `LossesAreListed` (`LossesShow`), from
`WorktreeAssumption` and `CaptureAssumption`, for any user. Between the status
and the end of the files, each path that differs from the commit is captured,
being read, still pending or excused (`AllAccounted`).

`HandoffProofs` proves, from `HandoffAssumption`, for any contents, states, lists of
items and damage:

| Theorem | Statement |
|---|---|
| `HandoffInvariance` | `Spec => []HandoffInv` |
| `SignedArrivesAsCaptured` | `Spec => []ArrivesAsCaptured` |
| `SoundSessionsAreAccepted` | `Spec => []SoundIsAccepted` |
| `StatesAreCaptured` | `Spec => []NoStateLost` |
| `StatesArePlaced` | `Spec => []StatesReplaced` |
| `WhatWasOpenIsOpened` | `Spec => []OpenedAsCaptured` |
| `RefusalsAreExplained` | `Spec => []RefusalExplained` |

The argument: decoding and encoding keep contents, hashes, signatures and, up to
empty lists, states (`Codec`); the payload of a session determines these
(`PayloadTells`); nobody on the way has the source's private key, so a signature of
that key was made over what was captured (`Genuine`), and if it verifies the payloads
are equal. Where only the source is trusted, what is accepted has such a signature
(`Trusted`); a signature of another key shows nothing about the source. In the
other direction, a session that nobody damaged is at every hop what the codec makes
of the one captured (`IntactInv`), so its hash is right and its signature verifies.
On the destination, what is opened and what is still queued are together what the
state that was read has open, with the active file at the end (`OpenInv`).
`HandoffAssumption` includes two facts of the code that these proofs use: the empty
path that stands for "no active file" is not the name of a file, and the nil pointer
of an unsigned session is not a signature.

`HistoryProofs` proves `HistoryInvariance` (`HistoryInv`), `ListingsAreOrdered`
(`NewestFirst`) and `CutOffIsOlder` (`CutIsOlder`), from `HistoryAssumption`: for any
base, number of digits, requests (finitely many at a time) and limits. The centre is
`TextOrder`: if the text of one instant is not less than that of another, its instant
is not the earlier one, unless the two are in one second and written with different
numbers of digits. Induction over the digits is out of the prover's reach; it
is replaced by a least counterexample (`LeastNumber`): were two instants with equal
seconds and digits different at some place of the text, there would be a first such
place, and `NextDigit` carries equality over it.

`DiscoveryProofs` proves `DiscoveryInvariance` (`DiscoveryInv`), `NoDeviceTwice`
(`ListedOnce`, a conjunct of it) and `FirstAnswersAreListed` (`HeardIsListed`), for
any answers and capacity: the channel is the rest of the answers kept
(`ChannelIsRest`), and the key of each one taken is listed with its first answer (`TakenIsListed`).

Model-checked only: the liveness properties `EverySendAnswered`, `RestoreEnds` and
`LookupEnds`, as fairness and `ENABLED` are out of the proof system's reach. The
inductive invariants `IdentityInv` and `HistoryInv` are proved and are in no run's
configuration; the properties they strengthen are.

## 5. What is left out of the models, and why

- A session is a value in Receive and Restore; its fields matter in Capture
  (files) and Handoff (content, states, signature, text). Which fields are
  required, schema numbers and limits of validation are taken as met by every
  session that a `relay` wrote.
- Path rules (`safeSessionPath`, `safePath`, `safeJoin`) are pure functions of a
  string without state; Restore takes their verdict (`intact`). Writing them down
  character by character would repeat the code.
- `BaseOf` is the stem made of time, repository and commit; two captures within a
  second of one commit share it.
- One SQLite statement is one step (external: the database is atomic). Opening
  it per request is part of `Record`; its failure is `RecordFails`, which needs an
  I/O fault, a cancelled request or another request at the database. Locks that
  `relay history` or another program holds count as an I/O fault.
- `Worktree` has no merge and no symbolic link. git pairs renames also by
  similarity; here contents are equal. The order in which files are opened or
  written is left open where no property uses it.
- Restore sees an index equal to the commit: nothing is staged on the destination.
- A file that was deleted at the source carries no content: `planApplyFiles`
  skips it, so `Restore` knows only files with content.
- Signatures, hashes and certificates are taken by their verdict: no one signs
  with the private key of another. Another session that the source signed earlier is
  not put in the place of this one: that would be its delivery.
- Pair codes: `Code` sorts two fingerprints and hashes them. There is no state,
  and its symmetry is its first statement. TrustStore begins behind its check.
- mDNS: `Advertise` hands over to the library's server and keeps nothing.
- `relay ping`, `/health`, doctor and printing change nothing; build, install
  and CI scripts have no run-time behaviour.

## 6. Findings

1. **History rows are replaced** (`history.go:117`, run `receive_ledger`). The key
   of a row is the receipt ID, unique in one directory only; two listeners with
   their own `--inbox` and one `--history` overwrite each other's rows.
2. **Paths the status does not print** (`main.go:1484`, run `restore_unlisted`).
   Ignored files are overwritten under either strategy; files of an untracked
   directory under `keep-both`.

Behaviour worth knowing, which the models contain and the theorems exclude by
hypothesis or by name:

- Check and write are apart (`main.go:1509`): what the user saves after the
  status was read is overwritten. `ConcurrentEdits = TRUE` in `MCRestore.cfg`
  violates `LocalWorkKept`.
- Copies may collide with files of the session (`main.go:1557`): names are chosen
  by looking at the disk before anything is written; a session that holds
  `x.staterelay-source` itself loses one of two contents. In `MCRestore.cfg`,
  `Incoming <- ChangedAndCopy` with `Copyable = {a, ac}` violates
  `IncomingPreserved`.
- `relay inbox` and `restore latest` fail while a handler writes, and for good
  after a listener died in the middle (`http.go:257`): `ReadEntryFails`.
- Branch and commit are read one after the other, and the status after both: a
  checkout in between gives a session whose branch, commit and files do not belong
  together. `EveryFileAccountedFor` says what holds unless HEAD moved.
- A capture written into the tree (`--out` below the root) is an untracked file of
  the next one.
- A session is verified with the key it brings (`session.go:113`). Without
  `--require-trusted`, a session that was edited and signed again with any key is
  restored like one of the source; `ArrivesAsCaptured` says what is certain when.
- Two requests that record at the same time may meet a locked database
  (`main.go:765`): one sender then gets an error for a session that is stored
  (`NoSpuriousRefusal` names the case).
- `relay terminal --restore` prints nothing if one of its directories cannot be
  resolved (`main.go:477`), where the extension skips a file (`OpenItem`).
- A signed session whose repository path or host name is not UTF-8 is refused by
  the first program that reads it: the signature is over text that decoding
  changes (`signingPayload`; excepted by name in `SoundIsAccepted`).
- The extension refuses an editor state without `open_files`, which is how Go
  writes an empty list (`editorstate.go:37`; `RefusalExplained`).
- A session without a state leaves the file of an earlier restore in place
  (`StatesReplaced`).
- History order within one second is the order of texts (`history.go:280`); the
  repository's test looks at whole seconds.
- The path of a history row is the one the listener used; a relative `--inbox` is
  looked up from wherever `restore --history` runs.
- `latest` is the session captured last by the clocks of its senders, not the one
  that arrived last (`http.go:270`; `LatestIsNotOlder`).
- Two trust commands that overlap may lose one's update, so a device removed may
  come back (`main.go:239`); `SettledStays` says when not. A listener goes on
  accepting a device that was removed after it started (`main.go:862`).
- A trust store or an identity file that was cut off stays unreadable until a user
  removes it.

## 7. What could follow

- Discovery composed with `relay send`: a device that is listed and gone when the
  session is posted.
- Staged files on the destination in Restore (the index is already in Worktree).
- The dates of a session in Receive, so that `captured_at` and the history order
  meet in one model.
