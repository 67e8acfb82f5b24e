------------------------------ MODULE Receive ------------------------------
(***************************************************************************)
(* The receiving half of StateRelay: `relay send` processes post a session *)
(* to `relay listen` processes; each request is served by its own          *)
(* goroutine, which allocates a file name in the inbox directory with      *)
(* O_EXCL, writes the session and then records a row in the SQLite         *)
(* history (internal/transport/http.go, internal/history/history.go and    *)
(* recordingInbox in cmd/relay/main.go).                                   *)
(*                                                                         *)
(* A run is one execution of `relay send`; a user who retries starts       *)
(* another run with the same session.  Files and rows survive the death of *)
(* a listener, handlers and their answers do not.                          *)
(***************************************************************************)
EXTENDS Naturals

CONSTANTS
    Runs,         \* executions of `relay send`
    Sessions,     \* captured sessions
    Oversized,    \* the sessions whose JSON is longer than the handler reads
    BaseOf,       \* the file name stem of each session
    Listeners,    \* `relay listen` processes
    Inboxes,      \* inbox directories
    InboxOf,      \* the --inbox of each listener
    MaxAttempts,  \* names tried per stem (1000 in the code)
    Recording,    \* FALSE when the listener runs with a blank --history
    IOFaults,     \* TRUE when file and database calls may fail
    Absent,       \* no file under this name
    Partial,      \* a file created but not (or not completely) written
    Refused,      \* an HTTP error answer
    None          \* no value

Bases == {BaseOf[s] : s \in Sessions}

\* A stem and the ordinal of the attempt: <<"x", 2>> is the file x-2.json.
Ids == Bases \X (1 .. MaxAttempts)

ASSUME ReceiveAssumption ==
    /\ MaxAttempts \in Nat \ {0}
    /\ Oversized \subseteq Sessions
    /\ BaseOf \in [Sessions -> Bases]
    /\ InboxOf \in [Listeners -> Inboxes]
    /\ Recording \in BOOLEAN
    /\ IOFaults \in BOOLEAN
    /\ {Absent, Partial} \cap Sessions = {}
    /\ Absent # Partial
    /\ {None, Refused} \cap Ids = {}
    /\ None # Refused

Rows == [inbox : Inboxes, session : Sessions]

ASSUME NoneIsNoValue == None \notin Rows /\ None \notin Inboxes \X Ids

VARIABLES
    session,   \* session[r]: the file run r was started with
    target,    \* target[r]: the listener named by its --to
    sender,    \* where the `relay send` process stands
    told,      \* the receipt ID it printed, or None
    handler,   \* where the goroutine serving the run stands
    attempt,   \* the loop counter of FileInbox.Save
    slot,      \* the name that goroutine created, or None
    reply,     \* the answer it wrote: a receipt ID, Refused, or None
    inbox,     \* inbox[i][id]: what the directory holds under that name
    history,   \* history[id]: the row with that primary key, or None
    up         \* the listeners that are running

senderVars == <<sender, told>>
handlerVars == <<handler, attempt, slot, reply>>
storeVars == <<inbox, history>>
vars == <<session, target, senderVars, handlerVars, storeVars, up>>

Active == {"decode", "create", "write", "record"}

TypeOK ==
    /\ session \in [Runs -> Sessions]
    /\ target \in [Runs -> Listeners]
    /\ sender \in [Runs -> {"idle", "waiting", "receipt", "error", "gaveUp"}]
    /\ told \in [Runs -> Ids \cup {None}]
    /\ handler \in [Runs -> Active \cup {"none", "done", "killed"}]
    /\ attempt \in [Runs -> 0 .. MaxAttempts]
    /\ slot \in [Runs -> Ids \cup {None}]
    /\ reply \in [Runs -> Ids \cup {None, Refused}]
    /\ inbox \in [Inboxes -> [Ids -> Sessions \cup {Absent, Partial}]]
    /\ history \in [Ids -> Rows \cup {None}]
    /\ up \subseteq Listeners

Init ==
    /\ session \in [Runs -> Sessions]
    /\ target \in [Runs -> Listeners]
    /\ sender = [r \in Runs |-> "idle"]
    /\ told = [r \in Runs |-> None]
    /\ handler = [r \in Runs |-> "none"]
    /\ attempt = [r \in Runs |-> 0]
    /\ slot = [r \in Runs |-> None]
    /\ reply = [r \in Runs |-> None]
    /\ inbox = [i \in Inboxes |-> [id \in Ids |-> Absent]]
    /\ history = [id \in Ids |-> None]
    /\ up = Listeners

-----------------------------------------------------------------------------
(* The sending process. *)

Post(r) ==
    /\ sender[r] = "idle"
    /\ target[r] \in up
    /\ sender' = [sender EXCEPT ![r] = "waiting"]
    /\ handler' = [handler EXCEPT ![r] = "decode"]
    /\ UNCHANGED <<session, target, told, attempt, slot, reply, storeVars, up>>

\* Nobody listens at the target: the dial fails.
PostRefused(r) ==
    /\ sender[r] = "idle"
    /\ target[r] \notin up
    /\ sender' = [sender EXCEPT ![r] = "error"]
    /\ UNCHANGED <<session, target, told, handlerVars, storeVars, up>>

ReceiveReply(r) ==
    /\ sender[r] = "waiting"
    /\ reply[r] # None
    /\ IF reply[r] = Refused
         THEN /\ sender' = [sender EXCEPT ![r] = "error"]
              /\ UNCHANGED told
         ELSE /\ sender' = [sender EXCEPT ![r] = "receipt"]
              /\ told' = [told EXCEPT ![r] = reply[r]]
    /\ UNCHANGED <<session, target, handlerVars, storeVars, up>>

\* The connection ends without an answer: the listener died while it served
\* the run, or after it wrote an answer that never arrived.
ConnectionLost(r) ==
    /\ sender[r] = "waiting"
    /\ handler[r] \in {"killed", "done"}
    /\ sender' = [sender EXCEPT ![r] = "error"]
    /\ UNCHANGED <<session, target, told, handlerVars, storeVars, up>>

\* The client's 15 second timeout, the user's interrupt or a broken connection.
\* The handler goes on; its context is cancelled when the server notices.
GiveUp(r) ==
    /\ sender[r] = "waiting"
    /\ sender' = [sender EXCEPT ![r] = "gaveUp"]
    /\ UNCHANGED <<session, target, told, handlerVars, storeVars, up>>

-----------------------------------------------------------------------------
(* The goroutine that serves the run. *)

Box(r) == InboxOf[target[r]]

Name(r) == <<BaseOf[session[r]], attempt[r] + 1>>

\* Mutants: O_CREATE without O_EXCL; an existence test that opens the file.
NeverTaken(i, id) == FALSE
TakenWhenWritten(i, id) == inbox[i][id] \in Sessions

Taken(i, id) == inbox[i][id] # Absent

ContextCancelled(r) == sender[r] = "gaveUp"

Answer(r, answer) ==
    /\ handler' = [handler EXCEPT ![r] = "done"]
    /\ reply' = [reply EXCEPT ![r] = answer]

\* session.ReadJSON succeeds and FileInbox.Save passes its context check.
Decode(r) ==
    /\ handler[r] = "decode"
    /\ session[r] \notin Oversized
    /\ handler' = [handler EXCEPT ![r] = "create"]
    /\ UNCHANGED <<session, target, senderVars, attempt, slot, reply, storeVars, up>>

\* The body is cut off (by the limit or by a sender that left), or Save finds
\* the request context cancelled, or the inbox directory cannot be made.
DecodeFails(r) ==
    /\ handler[r] = "decode"
    /\ session[r] \in Oversized \/ ContextCancelled(r) \/ IOFaults
    /\ Answer(r, Refused)
    /\ UNCHANGED <<session, target, senderVars, attempt, slot, storeVars, up>>

Create(r) ==
    /\ handler[r] = "create"
    /\ attempt[r] < MaxAttempts
    /\ ~ Taken(Box(r), Name(r))
    /\ inbox' = [inbox EXCEPT ![Box(r)][Name(r)] = Partial]
    /\ slot' = [slot EXCEPT ![r] = Name(r)]
    /\ handler' = [handler EXCEPT ![r] = "write"]
    /\ UNCHANGED <<session, target, senderVars, attempt, reply, history, up>>

\* Mutant: the loop tries the same name again.
NameTakenTriedAgain(r) ==
    /\ handler[r] = "create"
    /\ attempt[r] < MaxAttempts
    /\ Taken(Box(r), Name(r))
    /\ handler' = [handler EXCEPT ![r] = "decode"]
    /\ UNCHANGED <<session, target, senderVars, attempt, slot, reply, storeVars, up>>

NameTaken(r) ==
    /\ handler[r] = "create"
    /\ attempt[r] < MaxAttempts
    /\ Taken(Box(r), Name(r))
    /\ attempt' = [attempt EXCEPT ![r] = @ + 1]
    /\ UNCHANGED <<session, target, senderVars, handler, slot, reply, storeVars, up>>

\* Mutant: the loop ends one attempt early.
CreateFailsEarly(r) ==
    /\ handler[r] = "create"
    /\ IOFaults \/ attempt[r] = MaxAttempts - 1
    /\ Answer(r, Refused)
    /\ UNCHANGED <<session, target, senderVars, attempt, slot, storeVars, up>>

CreateFails(r) ==
    /\ handler[r] = "create"
    /\ IOFaults \/ attempt[r] = MaxAttempts
    /\ Answer(r, Refused)
    /\ UNCHANGED <<session, target, senderVars, attempt, slot, storeVars, up>>

Write(r) ==
    /\ handler[r] = "write"
    /\ inbox' = [inbox EXCEPT ![Box(r)][slot[r]] = session[r]]
    /\ IF Recording
         THEN /\ handler' = [handler EXCEPT ![r] = "record"]
              /\ UNCHANGED reply
         ELSE Answer(r, slot[r])
    /\ UNCHANGED <<session, target, senderVars, attempt, slot, history, up>>

\* Mutants: the write error is dropped, or another name is tried.
WriteFailsAnswered(r) ==
    /\ handler[r] = "write"
    /\ IOFaults
    /\ Answer(r, slot[r])
    /\ UNCHANGED <<session, target, senderVars, attempt, slot, storeVars, up>>
WriteFailsRecorded(r) ==
    /\ handler[r] = "write"
    /\ IOFaults
    /\ handler' = [handler EXCEPT ![r] = "record"]
    /\ UNCHANGED <<session, target, senderVars, attempt, slot, reply, storeVars, up>>
WriteFailsRetried(r) ==
    /\ handler[r] = "write"
    /\ IOFaults
    /\ inbox' = [inbox EXCEPT ![Box(r)][slot[r]] = session[r]]
    /\ handler' = [handler EXCEPT ![r] = "create"]
    /\ UNCHANGED <<session, target, senderVars, attempt, slot, reply, history, up>>

\* A failed write or close: the file stays, with all or part of the session.
WriteFails(r) ==
    /\ handler[r] = "write"
    /\ IOFaults
    /\ \E content \in {Partial, session[r]} :
         inbox' = [inbox EXCEPT ![Box(r)][slot[r]] = content]
    /\ Answer(r, Refused)
    /\ UNCHANGED <<session, target, senderVars, attempt, slot, history, up>>

Row(r) == [inbox |-> Box(r), session |-> session[r]]

\* INSERT OR REPLACE, keyed by the receipt ID alone.
Record(r) ==
    /\ handler[r] = "record"
    /\ history' = [history EXCEPT ![slot[r]] = Row(r)]
    /\ Answer(r, slot[r])
    /\ UNCHANGED <<session, target, senderVars, attempt, slot, inbox, up>>

\* Another request has its own connection to the database, which waits for nobody.
Busy(r) == \E q \in Runs \ {r} : handler[q] = "record"

\* Mutant: a history failure is not reported.
RecordFailsQuietly(r) ==
    /\ handler[r] = "record"
    /\ IOFaults \/ ContextCancelled(r) \/ Busy(r)
    /\ Answer(r, slot[r])
    /\ UNCHANGED <<session, target, senderVars, attempt, slot, storeVars, up>>

\* The database cannot be opened or written, also because another request has it
\* locked, or the context is cancelled: the error reaches the sender, the session
\* file stays.
RecordFails(r) ==
    /\ handler[r] = "record"
    /\ IOFaults \/ ContextCancelled(r) \/ Busy(r)
    /\ Answer(r, Refused)
    /\ UNCHANGED <<session, target, senderVars, attempt, slot, storeVars, up>>

-----------------------------------------------------------------------------
(* The listener processes. *)

\* The process ends (main passes a context that is never cancelled, so an
\* interrupt kills it too) with every handler it runs.
Stop(l) ==
    /\ l \in up
    /\ up' = up \ {l}
    /\ handler' = [r \in Runs |->
                     IF target[r] = l /\ handler[r] \in Active
                       THEN "killed" ELSE handler[r]]
    /\ UNCHANGED <<session, target, senderVars, attempt, slot, reply, storeVars>>

Start(l) ==
    /\ l \in Listeners \ up
    /\ up' = up \cup {l}
    /\ UNCHANGED <<session, target, senderVars, handlerVars, storeVars>>

-----------------------------------------------------------------------------
HandlerStep(r) ==
    \/ Decode(r) \/ DecodeFails(r)
    \/ Create(r) \/ NameTaken(r) \/ CreateFails(r)
    \/ Write(r) \/ WriteFails(r)
    \/ Record(r) \/ RecordFails(r)

Answered(r) == ReceiveReply(r) \/ ConnectionLost(r)

SenderStep(r) == Post(r) \/ PostRefused(r) \/ Answered(r) \/ GiveUp(r)

Next ==
    \/ \E r \in Runs : SenderStep(r) \/ HandlerStep(r)
    \/ \E l \in Listeners : Stop(l) \/ Start(l)

Spec == Init /\ [][Next]_vars

\* The scheduler runs every handler goroutine, and the network delivers an
\* answer or the end of a connection.  Nobody has to post, give up, stop or
\* restart a listener.
Fairness == \A r \in Runs : WF_vars(HandlerStep(r)) /\ WF_vars(Answered(r))

FairSpec == Spec /\ Fairness

-----------------------------------------------------------------------------
(* Properties. *)

\* A file counts as delivered from its last byte on.
Placed(r) == slot[r] # None /\ inbox[Box(r)][slot[r]] \in Sessions

\* A receipt printed by `relay send` names a file of the target's inbox that
\* holds exactly the session that was sent, whatever the other handlers,
\* listeners and failures did meanwhile (FileInbox.Save, Client.Send).
ReceiptMeansStored ==
    \A r \in Runs :
        sender[r] = "receipt" =>
            told[r] \in Ids /\ inbox[Box(r)][told[r]] = session[r]

\* Every file of an inbox was created by exactly one run, and no other run
\* writes to it: O_EXCL hands a name to one handler even when several
\* listeners share the directory (FileInbox.Save).
EveryFileHasOneWriter ==
    \A i \in Inboxes, id \in Ids :
        inbox[i][id] # Absent =>
            \E r \in Runs :
                /\ Box(r) = i /\ slot[r] = id
                /\ inbox[i][id] \in {Partial, session[r]}
                /\ \A q \in Runs : Box(q) = i /\ slot[q] = id => q = r

\* A history row points at a file that holds, completely, the session the row
\* describes: recordingInbox.Save stores first and records second.
HistoryRowsHaveFiles ==
    \A id \in Ids :
        history[id] # None =>
            inbox[history[id].inbox][id] = history[id].session

\* A receipt also means that the ledger has the session's own row.  It needs
\* all listeners to use one inbox (recordingInbox.Save, Store.Record).
ReceiptMeansRecorded ==
    \A r \in Runs :
        Recording /\ sender[r] = "receipt" => history[told[r]] = Row(r)

\* A session that reached the inbox is never changed, replaced or removed by
\* a later request (FileInbox.Save).
StoredImmutable ==
    [][\A i \in Inboxes, id \in Ids :
          inbox[i][id] \in Sessions => inbox'[i][id] = inbox[i][id]]_vars

\* Without I/O errors a session is refused only when it is too long, when its
\* sender left, when it got no name and every name of its stem is in use, or when
\* it is stored, and so is another whose row was being written at that time
\* (FileInbox.Save, recordingInbox.Save).
NoSpuriousRefusal ==
    \A r \in Runs :
        ~ IOFaults /\ reply[r] = Refused =>
            \/ session[r] \in Oversized
            \/ ContextCancelled(r)
            \/ /\ slot[r] = None
               /\ \A k \in 1 .. MaxAttempts : Taken(Box(r), <<BaseOf[session[r]], k>>)
            \/ Recording /\ Placed(r) /\ \E q \in Runs \ {r} : Placed(q)

\* A send that reached a listener ends, without the help of its timeout: the
\* search for a name gives up, and the death of the listener ends the wait.
EverySendAnswered ==
    \A r \in Runs : sender[r] = "waiting" ~> sender[r] # "waiting"

\* README.md:31 calls the history a ledger "with strict ACID guarantees": a
\* row that was committed stays as it was (Store.Record).
HistoryDurable ==
    [][\A id \in Ids : history[id] # None => history'[id] = history[id]]_vars

-----------------------------------------------------------------------------
(* The inductive invariant behind the safety properties. *)

Holds(r, contents) == slot[r] \in Ids /\ inbox[Box(r)][slot[r]] \in contents

\* What a handler and its sender may conclude from where they stand.
Progress(r) ==
    /\ handler[r] \in {"none", "decode", "create"} => slot[r] = None
    /\ slot[r] # None => Holds(r, {Partial, session[r]})
    /\ handler[r] = "write" => Holds(r, {Partial})
    /\ handler[r] = "record" => Recording /\ Holds(r, {session[r]})
    /\ reply[r] # None => handler[r] = "done"
    /\ reply[r] \in Ids => reply[r] = slot[r] /\ Holds(r, {session[r]})
    /\ sender[r] = "receipt" => told[r] = reply[r] /\ told[r] \in Ids
    /\ sender[r] # "receipt" => told[r] = None
    /\ sender[r] = "idle" => handler[r] = "none"

ProgressInv == \A r \in Runs : Progress(r)

NamesNotShared ==
    \A r, q \in Runs :
        slot[r] # None /\ slot[r] = slot[q] /\ Box(r) = Box(q) => r = q

FilesHaveWriters ==
    \A i \in Inboxes, id \in Ids :
        inbox[i][id] # Absent => \E r \in Runs : Box(r) = i /\ slot[r] = id

\* A handler has seen every name before its current one in use.
NamesTried ==
    \A r \in Runs : \A k \in 1 .. attempt[r] :
        Taken(Box(r), <<BaseOf[session[r]], k>>)

\* Together with TypeOK and HistoryRowsHaveFiles: no step of any handler,
\* sender or listener leaves these facts (FileInbox.Save, recordingInbox.Save).
ReceiveInv ==
    /\ TypeOK
    /\ ProgressInv
    /\ NamesNotShared
    /\ FilesHaveWriters
    /\ NamesTried
    /\ HistoryRowsHaveFiles
    /\ NoSpuriousRefusal

-----------------------------------------------------------------------------
(* Refinement: only whole files are delivered. *)

Delivered ==
    [i \in Inboxes |-> [id \in Ids |->
        IF inbox[i][id] = Partial THEN Absent ELSE inbox[i][id]]]

Places == [r \in Runs |-> IF Placed(r) THEN <<Box(r), slot[r]>> ELSE None]

M == INSTANCE Mailbox
       WITH box <- Delivered, place <- Places, ledger <- history

\* Listeners, handlers, partial files, failures and restarts together do what
\* the Inbox interface promises and nothing else (http.go, recordingInbox).
MailboxSpec == M!Spec
=============================================================================
