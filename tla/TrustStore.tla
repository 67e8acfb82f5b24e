----------------------------- MODULE TrustStore -----------------------------
(***************************************************************************)
(* The trusted devices of one workspace (internal/truststore): `relay      *)
(* trust add`, `relay trust remove` and `relay pair` load the JSON file,   *)
(* change their copy and write it back, truncating the file first.  There  *)
(* is no lock.  A listener that asks for client certificates keeps the     *)
(* store it loaded when it started; a restore that requires a trusted      *)
(* signer loads the file each time.                                        *)
(***************************************************************************)
EXTENDS Naturals, FiniteSets

CONSTANTS
    Devices,    \* fingerprints
    Commands,   \* executions of the commands that change the store
    Listeners,  \* executions of `relay listen --require-client-cert`
    Faults,     \* TRUE when calls may fail and commands may be killed
    Absent,     \* no file: an empty store
    Unreadable, \* the file is empty or cut off
    None

ASSUME TrustAssumption ==
    /\ Faults \in BOOLEAN
    /\ \A ds \in SUBSET Devices : ds \notin {Absent, Unreadable, None}
    /\ Absent # Unreadable
    /\ None \notin Commands

VARIABLES
    file,      \* trusted-devices.json: a set of devices, Absent or Unreadable
    pc,        \* where each command stands
    op, dev,   \* what it was asked to do, and to which device
    store,     \* its copy of the store
    copy,      \* the copy of each listener, or None while it is down
    alone,     \* aux: the running command that overlapped no other, or None
    settled,   \* aux: the devices on which the last command is over, ran
               \* alone and reported success, as a set of pairs <<device, op>>
    since      \* aux: the part of settled a listener started with

fileVars == <<file, store>>
commandVars == <<pc, op, dev, alone>>
listenerVars == <<copy, since>>
vars == <<fileVars, commandVars, listenerVars, settled>>

Ops == {"add", "remove"}
Running == {"load", "open", "write"}

TrustTypeOK ==
    /\ file \in {Absent, Unreadable} \cup SUBSET Devices
    /\ pc \in [Commands -> Running \cup {"idle", "done", "failed"}]
    /\ op \in [Commands -> Ops]
    /\ dev \in [Commands -> Devices]
    /\ store \in [Commands -> SUBSET Devices]
    /\ copy \in [Listeners -> {None} \cup SUBSET Devices]
    /\ alone \in Commands \cup {None}
    /\ settled \subseteq Devices \X Ops
    /\ since \in [Listeners -> SUBSET (Devices \X Ops)]

Init ==
    /\ file = Absent
    /\ pc = [c \in Commands |-> "idle"]
    /\ op \in [Commands -> Ops]
    /\ dev \in [Commands -> Devices]
    /\ store = [c \in Commands |-> {}]
    /\ copy = [l \in Listeners |-> None]
    /\ alone = None
    /\ settled = {}
    /\ since = [l \in Listeners |-> {}]

-----------------------------------------------------------------------------
(* The commands. *)

Begin(c) ==
    /\ pc[c] = "idle"
    /\ pc' = [pc EXCEPT ![c] = "load"]
    /\ alone' = IF \E b \in Commands : pc[b] \in Running THEN None ELSE c
    /\ settled' = settled \ ({dev[c]} \X Ops)
    /\ since' = [l \in Listeners |-> since[l] \ ({dev[c]} \X Ops)]
    /\ UNCHANGED <<fileVars, op, dev, copy>>

\* Mutant: a file that ends early is an empty store (io.EOF not reported).
LoadedAnyway == IF file \in {Absent, Unreadable} THEN {} ELSE file

Loaded == IF file = Absent THEN {} ELSE file

\* Mutant: the fingerprint is stored as typed, not in lower case.
ChangedAsTyped(c, devices) ==
    IF op[c] = "add" THEN devices \cup {<<dev[c], "typed">>} ELSE devices \ {dev[c]}

\* Add and Remove on the copy; neither complains when there is nothing to do.
Changed(c, devices) ==
    IF op[c] = "add" THEN devices \cup {dev[c]} ELSE devices \ {dev[c]}

\* Mutant: an unreadable store is replaced.
LoadAny(c) ==
    /\ pc[c] = "load"
    /\ store' = [store EXCEPT ![c] = Changed(c, LoadedAnyway)]
    /\ pc' = [pc EXCEPT ![c] = "open"]
    /\ UNCHANGED <<file, op, dev, alone, listenerVars, settled>>

Load(c) ==
    /\ pc[c] = "load"
    /\ file # Unreadable
    /\ store' = [store EXCEPT ![c] = Changed(c, Loaded)]
    /\ pc' = [pc EXCEPT ![c] = "open"]
    /\ UNCHANGED <<file, op, dev, alone, listenerVars, settled>>

\* os.OpenFile with O_TRUNC.
Open(c) ==
    /\ pc[c] = "open"
    /\ file' = Unreadable
    /\ pc' = [pc EXCEPT ![c] = "write"]
    /\ UNCHANGED <<store, op, dev, alone, listenerVars, settled>>

\* WriteJSON writes from the start of the file.  When another command wrote
\* since, its rest stays behind; a decoder stops at the end of the first value.
Write(c) ==
    /\ pc[c] = "write"
    /\ file' = store[c]
    /\ pc' = [pc EXCEPT ![c] = "done"]
    /\ settled' = IF alone = c THEN settled \cup {<<dev[c], op[c]>>} ELSE settled
    /\ UNCHANGED <<store, op, dev, alone, listenerVars>>

\* The command cannot load the store, a call fails, or it is killed.
Fail(c) ==
    /\ pc[c] \in Running
    /\ Faults \/ (pc[c] = "load" /\ file = Unreadable)
    /\ pc' = [pc EXCEPT ![c] = "failed"]
    /\ IF pc[c] = "write" THEN file' \in {file, Unreadable, store[c]}
                          ELSE UNCHANGED file
    /\ UNCHANGED <<store, op, dev, alone, listenerVars, settled>>

-----------------------------------------------------------------------------
(* Those who ask. *)

\* Mutant: a listener without a readable store starts with an empty one.
StartAny(l) ==
    /\ copy[l] = None
    /\ copy' = [copy EXCEPT ![l] = LoadedAnyway]
    /\ since' = [since EXCEPT ![l] = settled]
    /\ UNCHANGED <<fileVars, commandVars, settled>>

\* newListenerTLSConfig; a listener whose Load fails does not start.
Start(l) ==
    /\ copy[l] = None
    /\ file # Unreadable
    /\ copy' = [copy EXCEPT ![l] = Loaded]
    /\ since' = [since EXCEPT ![l] = settled]
    /\ UNCHANGED <<fileVars, commandVars, settled>>

Stop(l) ==
    /\ copy[l] # None
    /\ copy' = [copy EXCEPT ![l] = None]
    /\ since' = [since EXCEPT ![l] = {}]
    /\ UNCHANGED <<fileVars, commandVars, settled>>

\* VerifyPeerCertificate, and verifyTrustedSession.
Accepts(l, d) == copy[l] # None /\ d \in copy[l]
Verifies(d) == file # Unreadable /\ d \in Loaded

-----------------------------------------------------------------------------
CommandStep(c) == Begin(c) \/ Load(c) \/ Open(c) \/ Write(c) \/ Fail(c)

Next ==
    \/ \E c \in Commands : CommandStep(c)
    \/ \E l \in Listeners : Start(l) \/ Stop(l)

Spec == Init /\ [][Next]_vars

-----------------------------------------------------------------------------
(* Properties. *)

\* A device that a command added or removed, alone and with success, is
\* accordingly in or out of the store whenever it can be read, until a command
\* on the same device begins.  Commands on other devices may overlap, lose each
\* other's updates or die in between: they do not undo it (Load, Save).
SettledStays ==
    \A d \in Devices :
        file # Unreadable =>
            /\ <<d, "add">> \in settled => Verifies(d)
            /\ <<d, "remove">> \in settled => ~ Verifies(d)

\* A listener that started after such a command decides as it says; it goes by
\* its copy, whatever became of the file since (newListenerTLSConfig).
ListenersFollow ==
    \A l \in Listeners, d \in Devices :
        copy[l] # None =>
            /\ <<d, "add">> \in since[l] => Accepts(l, d)
            /\ <<d, "remove">> \in since[l] => ~ Accepts(l, d)

\* Overlapping and dying commands, cut-off files and stale copies lose devices
\* and bring back removed ones, but nobody is accepted as a client or signer
\* whom no command was ever asked to add (Load, Add, Save).
OnlyTheAddedAreTrusted ==
    \A d \in Devices :
        (file # Unreadable /\ Verifies(d)) \/ (\E l \in Listeners : Accepts(l, d)) =>
            \E c \in Commands : op[c] = "add" /\ dev[c] = d /\ pc[c] # "idle"

-----------------------------------------------------------------------------
(* The inductive invariant. *)

\* The devices for which a copy of the store, whoever has it, is right.
Follows(devices, d, answers) ==
    /\ <<d, "add">> \in answers => d \in devices
    /\ <<d, "remove">> \in answers => d \notin devices

\* A command that runs alone has no company, and a device some command works
\* on is not settled.
RunningInv ==
    \A c \in Commands :
        pc[c] \in Running =>
            /\ alone \in {c, None}
            /\ \A o \in Ops : <<dev[c], o>> \notin settled

\* A command's copy has its own change and respects what is settled.
StoreInv ==
    \A c \in Commands :
        pc[c] \in {"open", "write"} =>
            /\ Follows(store[c], dev[c], {<<dev[c], op[c]>>})
            /\ \A d \in Devices : Follows(store[c], d, settled)

\* The devices that somebody asked to add.
Invited == {dev[c] : c \in {b \in Commands : op[b] = "add" /\ pc[b] # "idle"}}

\* No store, on disk, in a command or in a listener, has any other device.
InvitedInv ==
    /\ file # Unreadable => Loaded \subseteq Invited
    /\ \A c \in Commands : pc[c] \in {"open", "write"} => store[c] \subseteq Invited
    /\ \A l \in Listeners : copy[l] # None => copy[l] \subseteq Invited

\* What every step of every command and listener keeps (Load, Add, Remove,
\* Save, newListenerTLSConfig).
TrustInv ==
    TrustTypeOK /\ RunningInv /\ StoreInv /\ InvitedInv /\ SettledStays /\ ListenersFollow
=============================================================================
