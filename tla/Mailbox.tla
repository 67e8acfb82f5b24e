------------------------------ MODULE Mailbox ------------------------------
(***************************************************************************)
(* What the Inbox interface of internal/transport/http.go promises its     *)
(* callers, told without handlers, partial files or failures: Save puts a  *)
(* session, whole and at most once per request, under a name nothing else  *)
(* has; the ledger only names sessions that were delivered; and the sender *)
(* is told the name of its own session.  Nothing delivered ever changes.   *)
(***************************************************************************)

CONSTANTS Runs, Sessions, Inboxes, Ids, Absent, None

VARIABLES
    session,   \* what each run sends
    box,       \* box[i][id]: the session delivered there, or Absent
    place,     \* place[r]: the inbox and name of the run's session, or None
    ledger,    \* ledger[id]: the entry under that name, or None
    told       \* told[r]: the receipt ID the sender was given, or None

vars == <<session, box, place, ledger, told>>

Init ==
    /\ session \in [Runs -> Sessions]
    /\ box = [i \in Inboxes |-> [id \in Ids |-> Absent]]
    /\ place = [r \in Runs |-> None]
    /\ ledger = [id \in Ids |-> None]
    /\ told = [r \in Runs |-> None]

Deliver(r) ==
    /\ place[r] = None
    /\ \E i \in Inboxes, id \in Ids :
         /\ box[i][id] = Absent
         /\ box' = [box EXCEPT ![i][id] = session[r]]
         /\ place' = [place EXCEPT ![r] = <<i, id>>]
    /\ UNCHANGED <<session, ledger, told>>

Enter(r) ==
    /\ place[r] # None
    /\ ledger' = [ledger EXCEPT ![place[r][2]] =
                    [inbox |-> place[r][1], session |-> session[r]]]
    /\ UNCHANGED <<session, box, place, told>>

Acknowledge(r) ==
    /\ place[r] # None
    /\ told[r] = None
    /\ told' = [told EXCEPT ![r] = place[r][2]]
    /\ UNCHANGED <<session, box, place, ledger>>

Next == \E r \in Runs : Deliver(r) \/ Enter(r) \/ Acknowledge(r)

Spec == Init /\ [][Next]_vars

-----------------------------------------------------------------------------
(* What a caller may conclude from it (proved in ReceiveProofs). *)

MailboxTypeOK ==
    /\ session \in [Runs -> Sessions]
    /\ box \in [Inboxes -> [Ids -> Sessions \cup {Absent}]]
    /\ place \in [Runs -> (Inboxes \X Ids) \cup {None}]
    /\ ledger \in [Ids -> [inbox : Inboxes, session : Sessions] \cup {None}]
    /\ told \in [Runs -> Ids \cup {None}]

\* Each session stands where its run put it, alone; receipts and entries name
\* sessions that are there (Inbox, Handler).
Kept ==
    /\ MailboxTypeOK
    /\ \A r \in Runs : place[r] # None => box[place[r][1]][place[r][2]] = session[r]
    /\ \A r, q \in Runs : place[r] # None /\ place[r] = place[q] => r = q
    /\ \A r \in Runs : told[r] # None => place[r] # None /\ told[r] = place[r][2]
    /\ \A id \in Ids : ledger[id] # None => box[ledger[id].inbox][id] = ledger[id].session

\* Once delivered, a session stays what it is (FileInbox.Save).
NothingTaken ==
    \A i \in Inboxes, id \in Ids : box[i][id] # Absent => box'[i][id] = box[i][id]

DeliveredStays == [][NothingTaken]_vars
=============================================================================
