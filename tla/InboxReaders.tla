---------------------------- MODULE InboxReaders ----------------------------
(***************************************************************************)
(* The commands that read what Receive writes, in processes of their own   *)
(* while listeners go on: `relay inbox` (FileInbox.List), `relay restore   *)
(* latest` or NAME (List, take the first entry or the one of that name,    *)
(* open it again) and `relay restore --history ID` (Store.Get, open the    *)
(* file the row names).                                                    *)
(***************************************************************************)
EXTENDS Receive, FiniteSets

CONSTANTS
    Readers,      \* executions of those commands
    CapturedAt    \* the captured_at time of each session

ASSUME ReadersAssumption ==
    /\ CapturedAt \in [Sessions -> Nat]
    /\ None \notin Sessions \cup {Absent, Partial}

VARIABLES
    reader,    \* where the command stands
    dir,       \* the inbox it reads
    pending,   \* names from os.ReadDir that were not opened yet
    found,     \* found[p]: the sessions read so far, by name
    chosen,    \* the name of the session to restore, or None
    opened,    \* what the restore read in the end, or None
    owed,      \* aux: receipts given for the inbox before its ReadDir
    wanted     \* aux: the session asked for by its name or row; None for latest

readerVars == <<reader, dir, pending, found, chosen, opened, owed, wanted>>
allVars == <<vars, readerVars>>

Contents == Sessions \cup {Absent, Partial}

ReadersTypeOK ==
    /\ reader \in [Readers -> {"idle", "listing", "listed", "chosen", "named",
                               "read", "nothing", "failed"}]
    /\ dir \in [Readers -> Inboxes]
    /\ pending \in [Readers -> SUBSET Ids]
    /\ found \in [Readers -> [Ids -> Sessions \cup {None}]]
    /\ chosen \in [Readers -> Ids \cup {None}]
    /\ opened \in [Readers -> Contents \cup {None}]
    /\ owed \in [Readers -> SUBSET Ids]
    /\ wanted \in [Readers -> Sessions \cup {None}]

ReadersInit ==
    /\ Init
    /\ reader = [p \in Readers |-> "idle"]
    /\ dir \in [Readers -> Inboxes]
    /\ pending = [p \in Readers |-> {}]
    /\ found = [p \in Readers |-> [id \in Ids |-> None]]
    /\ chosen = [p \in Readers |-> None]
    /\ opened = [p \in Readers |-> None]
    /\ owed = [p \in Readers |-> {}]
    /\ wanted = [p \in Readers |-> None]

-----------------------------------------------------------------------------
Given(i) == {told[r] : r \in {q \in Runs : told[q] # None /\ Box(q) = i}}

ReadDir(p) ==
    /\ reader[p] = "idle"
    /\ pending' = [pending EXCEPT ![p] = {id \in Ids : inbox[dir[p]][id] # Absent}]
    /\ owed' = [owed EXCEPT ![p] = Given(dir[p])]
    /\ reader' = [reader EXCEPT ![p] = "listing"]
    /\ UNCHANGED <<dir, found, chosen, opened, wanted>>

\* Mutant: the error of session.ReadJSON is dropped.
ReadEntryUnchecked(p) ==
    /\ reader[p] = "listing"
    /\ \E id \in pending[p] :
         /\ found' = [found EXCEPT ![p][id] = inbox[dir[p]][id]]
         /\ pending' = [pending EXCEPT ![p] = @ \ {id}]
    /\ UNCHANGED <<reader, dir, chosen, opened, owed, wanted>>

\* The files are opened one by one; their order matters to no property.
ReadEntry(p) ==
    /\ reader[p] = "listing"
    /\ \E id \in pending[p] :
         /\ inbox[dir[p]][id] \in Sessions
         /\ found' = [found EXCEPT ![p][id] = inbox[dir[p]][id]]
         /\ pending' = [pending EXCEPT ![p] = @ \ {id}]
    /\ UNCHANGED <<reader, dir, chosen, opened, owed, wanted>>

\* Mutant: a file that cannot be read ends the listing early, without error.
ReadEntryStops(p) ==
    /\ reader[p] = "listing"
    /\ \E id \in pending[p] : inbox[dir[p]][id] = Partial
    /\ pending' = [pending EXCEPT ![p] = {}]
    /\ UNCHANGED <<reader, dir, found, chosen, opened, owed, wanted>>

\* One file that does not parse fails the whole command.
ReadEntryFails(p) ==
    /\ reader[p] = "listing"
    /\ \E id \in pending[p] : inbox[dir[p]][id] = Partial
    /\ reader' = [reader EXCEPT ![p] = "failed"]
    /\ UNCHANGED <<dir, pending, found, chosen, opened, owed, wanted>>

Listed(p) == {id \in Ids : found[p][id] # None}

ListDone(p) ==
    /\ reader[p] = "listing"
    /\ pending[p] = {}
    /\ reader' = [reader EXCEPT ![p] = IF Listed(p) = {} THEN "nothing" ELSE "listed"]
    /\ UNCHANGED <<dir, pending, found, chosen, opened, owed, wanted>>

Age(p, id) == CapturedAt[found[p][id]]

\* Mutant: the comparison of the sort is the wrong way round.
TakeOldest(p) ==
    /\ reader[p] = "listed"
    /\ \E id \in Listed(p) :
         /\ \A other \in Listed(p) : Age(p, id) <= Age(p, other)
         /\ chosen' = [chosen EXCEPT ![p] = id]
    /\ reader' = [reader EXCEPT ![p] = "chosen"]
    /\ UNCHANGED <<dir, pending, found, opened, owed, wanted>>

\* resolveRestoreSession takes the first entry of the sorted list; entries
\* captured at the same instant are ordered by name, which is left open here.
TakeLatest(p) ==
    /\ reader[p] = "listed"
    /\ \E id \in Listed(p) :
         /\ \A other \in Listed(p) : Age(p, id) >= Age(p, other)
         /\ chosen' = [chosen EXCEPT ![p] = id]
    /\ reader' = [reader EXCEPT ![p] = "chosen"]
    /\ UNCHANGED <<dir, pending, found, opened, owed, wanted>>

\* The entry of the name that was given; without one the command ends.
TakeNamed(p) ==
    /\ reader[p] = "listed"
    /\ \E id \in Listed(p) :
         /\ chosen' = [chosen EXCEPT ![p] = id]
         /\ wanted' = [wanted EXCEPT ![p] = found[p][id]]
    /\ reader' = [reader EXCEPT ![p] = "named"]
    /\ UNCHANGED <<dir, pending, found, opened, owed>>

\* Mutant: the path of the row is looked for in the inbox of the command.
LookupHere(p) ==
    /\ reader[p] = "idle"
    /\ \E id \in Ids :
         /\ history[id] # None
         /\ chosen' = [chosen EXCEPT ![p] = id]
         /\ wanted' = [wanted EXCEPT ![p] = history[id].session]
    /\ reader' = [reader EXCEPT ![p] = "named"]
    /\ UNCHANGED <<dir, pending, found, opened, owed>>

\* `restore --history ID` for an ID the ledger has.
Lookup(p) ==
    /\ reader[p] = "idle"
    /\ \E id \in Ids :
         /\ history[id] # None
         /\ chosen' = [chosen EXCEPT ![p] = id]
         /\ dir' = [dir EXCEPT ![p] = history[id].inbox]
         /\ wanted' = [wanted EXCEPT ![p] = history[id].session]
    /\ reader' = [reader EXCEPT ![p] = "named"]
    /\ UNCHANGED <<pending, found, opened, owed>>

\* readSessionFile opens the path again.
OpenSession(p) ==
    /\ reader[p] \in {"chosen", "named"}
    /\ opened' = [opened EXCEPT ![p] = inbox[dir[p]][chosen[p]]]
    /\ reader' = [reader EXCEPT ![p] =
                    IF inbox[dir[p]][chosen[p]] \in Sessions THEN "read" ELSE "failed"]
    /\ UNCHANGED <<dir, pending, found, chosen, owed, wanted>>

ReaderStep(p) ==
    \/ ReadDir(p) \/ ReadEntry(p) \/ ReadEntryFails(p) \/ ListDone(p)
    \/ TakeLatest(p) \/ TakeNamed(p) \/ Lookup(p) \/ OpenSession(p)

ReceiverStep == Next /\ UNCHANGED readerVars

ReadersNext ==
    \/ ReceiverStep
    \/ (\E p \in Readers : ReaderStep(p)) /\ UNCHANGED vars

ReadersSpec == ReadersInit /\ [][ReadersNext]_allVars

-----------------------------------------------------------------------------
(* Properties. *)

\* A listing that succeeds shows every session whose receipt was printed
\* before it began, although other handlers write meanwhile (FileInbox.List).
ListIsComplete ==
    \A p \in Readers :
        reader[p] \in {"listed", "chosen", "nothing"} => owed[p] \subseteq Listed(p)

\* `restore latest` never opens a session older than one that was already
\* acknowledged when it listed the inbox (resolveRestoreSession, List).
LatestIsNotOlder ==
    \A p \in Readers :
        reader[p] = "read" /\ wanted[p] = None =>
            \A id \in owed[p] : CapturedAt[opened[p]] >= CapturedAt[inbox[dir[p]][id]]

\* The file a restore opens by path is the one its listing or its ledger row
\* described: between List or Get and the second open nothing replaces it.
OpenedIsWhatWasListed ==
    \A p \in Readers :
        chosen[p] # None /\ opened[p] # None =>
            opened[p] = IF wanted[p] = None THEN found[p][chosen[p]] ELSE wanted[p]

\* Only a listing ever fails, over a file some handler has not finished: once
\* a name was taken from it or from the ledger, what it names is a whole
\* session, also under names two handlers compete for (resolveRestoreSession).
ChosenIsReadable == \A p \in Readers : reader[p] = "failed" => chosen[p] = None
-----------------------------------------------------------------------------
(* The inductive invariant, on top of ReceiveInv (ReceiveProofs). *)

\* No other entry was captured later.
IsLatest(p) ==
    /\ chosen[p] \in Listed(p)
    /\ \A other \in Listed(p) : Age(p, chosen[p]) >= Age(p, other)

\* What the command may conclude from where it stands.
ReaderKnows(p) ==
    /\ \A id \in Listed(p) : found[p][id] = inbox[dir[p]][id]
    /\ \A id \in owed[p] : inbox[dir[p]][id] \in Sessions
    /\ reader[p] = "idle" => Listed(p) = {} /\ owed[p] = {}
    /\ reader[p] = "listing" => owed[p] \subseteq pending[p] \cup Listed(p)
    /\ reader[p] \in {"listed", "chosen", "nothing"} => owed[p] \subseteq Listed(p)
    /\ reader[p] \in {"idle", "listing", "listed", "nothing", "failed"} => chosen[p] = None
    /\ reader[p] \notin {"named", "read"} => wanted[p] = None
    /\ reader[p] # "read" => opened[p] = None
    /\ reader[p] = "chosen" => IsLatest(p)
    /\ reader[p] = "named" => /\ chosen[p] \in Ids /\ wanted[p] \in Sessions
                             /\ inbox[dir[p]][chosen[p]] = wanted[p]
    /\ reader[p] = "read" =>
         IF wanted[p] # None THEN opened[p] = wanted[p]
         ELSE /\ IsLatest(p) /\ owed[p] \subseteq Listed(p)
              /\ opened[p] = found[p][chosen[p]]

\* Each fact a command goes by stays true while handlers write (List, Get).
ReadersInv == ReadersTypeOK /\ \A p \in Readers : ReaderKnows(p)
=============================================================================
