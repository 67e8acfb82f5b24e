------------------------------ MODULE Handoff ------------------------------
(***************************************************************************)
(* What a session carries from one machine to the other.  On the source    *)
(* the VS Code extension writes the editor state, `relay terminal` and     *)
(* `relay browser` the two others; `relay capture` reads all three, signs  *)
(* the session and writes it as JSON.  `relay send`, the listener and      *)
(* `relay restore` each decode and check it, the first two to encode it    *)
(* again.  On the destination restore writes the file contents and the     *)
(* state files; there the extension, `relay terminal --restore` and        *)
(* `relay browser --restore` open what the states list.                    *)
(*                                                                         *)
(* A state file is Absent, Torn (created and not yet written) or a state;  *)
(* a nil *State of a session is Absent too.  Go leaves an empty list out   *)
(* of the JSON (omitempty): its list is then Missing.                      *)
(***************************************************************************)
EXTENDS Naturals, Sequences, FiniteSets, Functions

CONSTANTS
    Items,      \* files, directories and URLs
    Files,      \* what may be the active file of the editor
    Lists,      \* Lists[k]: what may be open in the editor, the terminal, the browser
    Openable,   \* the items that can be opened on the destination
    NoFile,     \* no active file
    Contents,   \* contents of the captured file
    Absent,
    Torn,
    Missing,
    Unsigned,   \* a nil Signature
    Keys,       \* key pairs of devices; the private key is known to one device only
    Own,        \* the one of the source
    MaxWrites   \* bound: different states of a kind written on the source

Kinds == {"editor", "terminal", "browser"}
InOrder == <<"editor", "terminal", "browser">>

\* A state as JSON has it or as Go does, of any kind.
States == [list : {Missing} \cup Seq(Items), active : {NoFile} \cup Files]

\* Sessions, and what is signed, whose signature is taken out.
Forms(signatures) ==
    [text : {"plain", "odd", "escaped", "replaced"}, content : Contents, hash : Contents,
     states : [Kinds -> {Absent} \cup States], signature : signatures]

\* A signature names its public key and stands for the payload it was made over.
Signatures == [key : Keys, payload : Forms({Unsigned})]
Sessions == Forms({Unsigned} \cup Signatures)

\* terminalstate.Capture and browserstate.Capture never write an empty list.
ASSUME HandoffAssumption ==
    /\ Lists \in [Kinds -> SUBSET Seq(Items)]
    /\ <<>> \notin Lists["terminal"] \cup Lists["browser"]
    /\ Openable \subseteq Items
    /\ NoFile \notin Files \cup Items
    /\ Missing \notin Seq(Items)
    /\ Absent # Torn /\ {Absent, Torn} \cap (States \cup Contents) = {}
    /\ Torn \notin Sessions
    /\ Unsigned \notin Signatures
    /\ Own \in Keys
    /\ MaxWrites \in Nat

VARIABLES
    source,     \* source[k]: the state files of the source
    history,    \* aux: history[k]: the states written there
    pc,         \* how far the session is
    rest,       \* the state files capture has to read, or restore to write
    known,      \* aux, during capture: the kinds that had a state file when it began
    session,    \* the session in memory
    wire,       \* its JSON text: session file, request or received file
    captured,   \* aux: the session as capture wrote it
    damaged,    \* the text was changed or cut short on its way
    required,   \* restore was given --require-trusted
    trusted,    \* the keys in the trust store of the destination
    dest,       \* dest[k]: the state files of the destination
    content,    \* the captured file there
    before,     \* aux: dest as it was
    reader,     \* the kind of state opened on the destination,
    view,       \* how far that is,
    queue,      \* the items still to open
    opened,     \* and those opened, in this order
    shown       \* aux: the state that was read

origin == <<source, history>>
journey == <<pc, rest, known, session, wire, captured, damaged>>
options == <<required, trusted>>
target == <<dest, content, before>>
opening == <<reader, view, queue, opened, shown>>
vars == <<origin, journey, options, target, opening>>

-----------------------------------------------------------------------------
(* encoding/json, as far as it changes something. *)

IsState(f) == f # Absent /\ f # Torn

Emit(f) == IF IsState(f) /\ f.list = <<>> THEN [f EXCEPT !.list = Missing] ELSE f
Parse(f) == IF IsState(f) /\ f.list = Missing THEN [f EXCEPT !.list = <<>>] ELSE f

\* Text that is not UTF-8 (the path of the root, the host name) is escaped as
\* U+FFFD, which is decoded to a character that is then written as itself.
Escape(text) == IF text = "odd" THEN "escaped" ELSE text
Unescape(text) == IF text = "escaped" THEN "replaced" ELSE text

Marshal(s) ==
    [s EXCEPT !.text = Escape(@), !.states = [k \in Kinds |-> Emit(s.states[k])]]
Unmarshal(w) ==
    [w EXCEPT !.text = Unescape(@), !.states = [k \in Kinds |-> Parse(w.states[k])]]

\* Mutant: an earlier signature is not taken out of the payload.
PayloadWithSignature(s) == Marshal(s)

\* signingPayload.
Payload(s) == Marshal([s EXCEPT !.signature = Unsigned])

\* Sign, and the key a session is signed with.
Signature(key, s) == [key |-> key, payload |-> Payload(s)]
SignedBy(s, key) == s.signature # Unsigned /\ s.signature.key = key

\* Mutant: a signature is only looked at when it is asked for.
ValidUnverified(s) ==
    IsState(s.states["browser"]) => s.states["browser"].list # <<>>

\* validate, with the Validate functions and VerifySignature, which takes the
\* public key from the signature: any key will do.
Valid(s) ==
    /\ IsState(s.states["browser"]) => s.states["browser"].list # <<>>
    /\ s.signature # Unsigned => s.signature.payload = Payload(s)

\* session.ReadJSON succeeds.
Readable(w) == w # Torn /\ Valid(Unmarshal(w))

\* Mutant: a signer is as good as another.
TrustedAnyone(s) == \E key \in Keys : SignedBy(s, key)

\* verifyTrustedSession; a store that cannot be read trusts nobody.
Trusted(s) == \E key \in trusted : SignedBy(s, key)

-----------------------------------------------------------------------------
NoStates == [k \in Kinds |-> Absent]

Hops == {"written", "sent", "stored", "restore"}
Ended == {"refused", "failed", "done"}
Stages == {"idle", "capture", "sign", "put content", "put states"} \cup Hops \cup Ended

Init ==
    /\ source = NoStates
    /\ history = [k \in Kinds |-> {}]
    /\ pc = "idle" /\ rest = <<>> /\ known = {}
    /\ \E text \in {"plain", "odd"}, c \in Contents :
         session = [text |-> text, content |-> c, hash |-> c,
                    states |-> NoStates, signature |-> Unsigned]
    /\ wire = Torn
    /\ captured = session
    /\ damaged = FALSE
    /\ required = FALSE /\ trusted = {}
    /\ \E f \in {Absent, Torn} \cup [list : Lists["editor"], active : {NoFile}] :
         dest = [NoStates EXCEPT !["editor"] = f]
    /\ content = Absent
    /\ before = dest
    /\ reader = "editor" /\ view = "idle"
    /\ queue = <<>> /\ opened = <<>> /\ shown = Absent

-----------------------------------------------------------------------------
(* The source: writers of state files.  What they write after capture read the *)
(* file of their kind concerns the next session.                               *)

Unread(k) == pc = "idle" \/ (pc = "capture" /\ k \in Range(rest))

\* os.Create, fs.writeFile: the file is there, and empty.  A writer that dies
\* leaves it so.
CreateState(k) ==
    /\ Unread(k)
    /\ Cardinality(history[k]) < MaxWrites
    /\ source' = [source EXCEPT ![k] = Torn]
    /\ UNCHANGED <<history, journey, options, target, opening>>

\* The extension writes an empty list too; its active file may be one it does
\* not list (an untitled document).
WriteState(k) ==
    /\ Unread(k)
    /\ source[k] = Torn
    /\ \E list \in Lists[k], active \in (IF k = "editor" THEN Files ELSE {}) \cup {NoFile} :
         /\ source' = [source EXCEPT ![k] = [list |-> list, active |-> active]]
         /\ history' = [history EXCEPT ![k] = @ \cup {source'[k]}]
    /\ UNCHANGED <<journey, options, target, opening>>

-----------------------------------------------------------------------------
(* `relay capture`; the branch, commit and files are the subject of Capture. *)

Start ==
    /\ pc = "idle"
    /\ pc' = "capture" /\ rest' = InOrder
    /\ known' = {k \in Kinds : source[k] # Absent}
    /\ UNCHANGED <<origin, session, wire, captured, damaged, options, target, opening>>

\* Mutant: a file that cannot be decoded counts as none.
ReadStateLenient ==
    /\ pc = "capture" /\ rest # <<>>
    /\ session' = [session EXCEPT !.states[Head(rest)] =
                     IF source[Head(rest)] = Torn THEN Absent ELSE Parse(source[Head(rest)])]
    /\ rest' = Tail(rest)
    /\ UNCHANGED <<origin, pc, known, wire, captured, damaged, options, target, opening>>

\* ReadWorkspace of each kind: no file is a nil state, half a file an error.
ReadState ==
    /\ pc = "capture" /\ rest # <<>>
    /\ IF source[Head(rest)] = Torn
         THEN pc' = "failed" /\ UNCHANGED <<session, rest>>
         ELSE /\ session' = [session EXCEPT !.states[Head(rest)] = Parse(source[Head(rest)])]
              /\ rest' = Tail(rest)
              /\ UNCHANGED pc
    /\ UNCHANGED <<origin, known, wire, captured, damaged, options, target, opening>>

\* signSessionFromWorkspace, if there is a device identity, and WriteJSON.  The
\* file may come out cut short.
Sign ==
    /\ pc = "capture" /\ rest = <<>>
    /\ pc' = "written"
    /\ session' = session \/ session' = [session EXCEPT !.signature = Signature(Own, session)]
    /\ captured' = session' /\ known' = {}
    /\ \/ wire' = Marshal(session') /\ UNCHANGED damaged
       \/ wire' = Torn /\ damaged' = TRUE
    /\ UNCHANGED <<origin, rest, options, target, opening>>

-----------------------------------------------------------------------------
(* On its way. *)

\* Whoever edits the text into w may leave the signature as it is, take it out, or
\* sign the result with a key that is not the source's.
Alter(w) ==
    \/ wire' = w
    \/ wire' = [w EXCEPT !.signature = Unsigned]
    \/ \E key \in Keys \ {Own} : wire' = [w EXCEPT !.signature = Signature(key, Unmarshal(w))]

\* The text is edited, in its content and hash or in the editor state, or its end
\* gets lost.
Damage ==
    /\ pc \in Hops /\ ~ damaged
    /\ damaged' = TRUE
    /\ \/ wire' = Torn
       \/ \E c, h \in Contents : Alter([wire EXCEPT !.content = c, !.hash = h])
       \/ \E list \in Lists["editor"] :
            Alter([wire EXCEPT !.states["editor"] = [list |-> list, active |-> NoFile]])
    /\ wire' # wire
    /\ UNCHANGED <<origin, pc, rest, known, session, captured, options, target, opening>>

\* relay send and the listener: readSessionFile and WriteJSON to the request;
\* ReadJSON and WriteJSON to the file (Receive).
Relay ==
    /\ pc \in {"written", "sent"}
    /\ IF Readable(wire)
         THEN /\ wire' = Marshal(Unmarshal(wire))
              /\ pc' = IF pc = "written" THEN "sent" ELSE "stored"
         ELSE pc' = "refused" /\ UNCHANGED wire
    /\ UNCHANGED <<origin, rest, known, session, captured, damaged, options, target, opening>>

-----------------------------------------------------------------------------
(* `relay restore --apply` on the session's commit and a clean tree; copies   *)
(* and refusals of the tree are the subject of Restore.                       *)

\* The flags, and the trust store as restore finds it if it looks.
BeginRestore ==
    /\ pc = "stored"
    /\ pc' = "restore"
    /\ required' \in BOOLEAN
    /\ trusted' \in IF required' THEN SUBSET Keys ELSE {{}}
    /\ UNCHANGED <<origin, rest, known, session, wire, captured, damaged, target, opening>>

\* Mutant: the file goes with the hash it came with.
AcceptUnhashed ==
    /\ pc = "restore"
    /\ LET s == Unmarshal(wire) IN
       IF Readable(wire) /\ (required => Trusted(s))
         THEN pc' = "put content" /\ session' = s
         ELSE pc' = "refused" /\ UNCHANGED session
    /\ UNCHANGED <<origin, rest, known, wire, captured, damaged, options, target, opening>>

\* readSessionFile, verifyTrustedSession, and the hashes in planApplyFiles.
Accept ==
    /\ pc = "restore"
    /\ LET s == Unmarshal(wire) IN
       IF Readable(wire) /\ (required => Trusted(s)) /\ s.hash = s.content
         THEN pc' = "put content" /\ session' = s
         ELSE pc' = "refused" /\ UNCHANGED session
    /\ UNCHANGED <<origin, rest, known, wire, captured, damaged, options, target, opening>>

PutContent ==
    /\ pc = "put content"
    /\ content' = session.content
    /\ pc' = "put states" /\ rest' = InOrder
    /\ UNCHANGED <<origin, known, session, wire, captured, damaged, options, dest, before, opening>>

\* Mutant: a nil state removes the file.
PutStateAlways ==
    /\ pc = "put states" /\ rest # <<>>
    /\ dest' = [dest EXCEPT ![Head(rest)] = Emit(session.states[Head(rest)])]
    /\ rest' = Tail(rest)
    /\ UNCHANGED <<origin, pc, known, session, wire, captured, damaged, options, content, before, opening>>

\* WriteWorkspace: the file is created and then written; a nil state leaves
\* the one that is there.
PutState ==
    /\ pc = "put states" /\ rest # <<>>
    /\ LET k == Head(rest)
           s == session.states[k] IN
       \/ s = Absent /\ rest' = Tail(rest) /\ UNCHANGED dest
       \/ s # Absent /\ dest[k] # Torn /\ dest' = [dest EXCEPT ![k] = Torn] /\ UNCHANGED rest
       \/ s # Absent /\ dest[k] = Torn /\ dest' = [dest EXCEPT ![k] = Emit(s)] /\ rest' = Tail(rest)
    /\ UNCHANGED <<origin, pc, known, session, wire, captured, damaged, options, content, before, opening>>

Restored ==
    /\ pc = "put states" /\ rest = <<>>
    /\ pc' = "done"
    /\ UNCHANGED <<origin, rest, known, session, wire, captured, damaged, options, target, opening>>

\* A write fails or the process dies.
Fail ==
    /\ pc \in {"put content", "put states"}
    /\ pc' = "failed"
    /\ content' \in {content, IF pc = "put content" THEN Torn ELSE content}
    /\ UNCHANGED <<origin, rest, known, session, wire, captured, damaged, options, dest, before, opening>>

-----------------------------------------------------------------------------
(* The destination: what opens the states. *)

\* Mutant: the files are opened as they are listed.
OrderAsListed(f) == {f.list}

\* The items p has in front are not active, and otherwise as listed.
ActiveLast(list, active, p) ==
    \A i, j \in DOMAIN list :
        i < j => IF list[p[i]] = active THEN list[p[j]] = active /\ p[i] < p[j]
                                        ELSE list[p[j]] # active => p[i] < p[j]

\* orderFilesForRestore: the active file comes last, and so in front.  There is
\* one such order.
OrderFilesForRestore(f) ==
    IF f.active = NoFile THEN {f.list}
    ELSE {[i \in DOMAIN f.list |-> f.list[p[i]]] :
            p \in {b \in Bijection(DOMAIN f.list, DOMAIN f.list) : ActiveLast(f.list, f.active, b)}}

\* Before the session arrives there is nothing else to see than then.
Arrived == {"put content", "put states"} \cup Ended

\* Mutant: the active file has to be there, too.
UnusableIdle(k, f) == ~ IsState(f) \/ (k = "editor" /\ f.active = NoFile)

\* readEditorState wants the list to be there, ReadWorkspace adds it.
Unusable(k, f) == ~ IsState(f) \/ (k = "editor" /\ f.list = Missing)

ReadView(k) ==
    /\ pc \in Arrived /\ view # "opening"
    /\ reader' = k
    /\ shown' = dest[k]
    /\ opened' = <<>>
    /\ IF Unusable(k, dest[k])
         THEN view' = "refused" /\ queue' = <<>>
         ELSE view' = "opening" /\ queue' \in OrderFilesForRestore(dest[k])
    /\ UNCHANGED <<origin, journey, options, target>>

\* restoreEditorState skips what cannot be opened; runBrowser gives up, as does
\* runTerminal, which resolves every directory before it prints them.
OpenItem ==
    /\ view = "opening" /\ queue # <<>>
    /\ queue' = Tail(queue)
    /\ IF Head(queue) \in Openable
         THEN opened' = Append(opened, Head(queue)) /\ UNCHANGED view
         ELSE /\ view' = IF reader = "editor" THEN view ELSE "failed"
              /\ UNCHANGED opened
    /\ UNCHANGED <<origin, journey, options, target, reader, shown>>

Opened ==
    /\ view = "opening" /\ queue = <<>>
    /\ view' = "opened"
    /\ UNCHANGED <<origin, journey, options, target, reader, queue, opened, shown>>

-----------------------------------------------------------------------------
SourceStep == (\E k \in Kinds : CreateState(k) \/ WriteState(k)) \/ Start \/ ReadState \/ Sign
RestoreStep == BeginRestore \/ Accept \/ PutContent \/ PutState \/ Restored \/ Fail
OpenStep == (\E k \in Kinds : ReadView(k)) \/ OpenItem \/ Opened

Next == SourceStep \/ Damage \/ Relay \/ RestoreStep \/ OpenStep

Spec == Init /\ [][Next]_vars

-----------------------------------------------------------------------------
(* Properties. *)

Delivered == content \in Contents

\* A session signed by the source reaches the destination as it was captured, in
\* content and in states, through every decoding and encoding.  A session signed
\* with another key may hold anything, and is written only where nobody asked for
\* a trusted signer or that key is trusted; one that is not signed, only where
\* nobody asked.  A content that was changed alone is never written
\* (VerifySignature, verifyTrustedSession, planApplyFiles).
ArrivesAsCaptured ==
    Delivered =>
        /\ content = captured.content \/ (damaged /\ session.hash # captured.hash)
        /\ SignedBy(session, Own) \/ (required /\ trusted \subseteq {Own}) =>
             /\ content = captured.content
             /\ \A k \in Kinds : dest[k] \in {before[k], Torn, Emit(captured.states[k])}
        /\ required => Trusted(session)

\* No session is refused on its way but one that was damaged, one that the source
\* did not sign, or signed with a key that is not trusted, where a trusted signer
\* is asked for, and a signed one whose root or host name is not UTF-8: the
\* signature of that one does not survive the first decoding (signingPayload,
\* validate, verifyTrustedSession).
SoundIsAccepted ==
    pc = "refused" =>
        \/ damaged
        \/ required /\ ~ Trusted(captured)
        \/ SignedBy(captured, Own) /\ captured.text = "odd"

\* A state whose file was there when capture began is in the session, and as
\* some writer finished it: capture takes no half state, and leaves none out
\* (ReadWorkspace, runCapture).
NoStateLost ==
    /\ pc = "capture" /\ rest = <<>> => \A k \in known : session.states[k] # Absent
    /\ pc \in Hops =>
         \A k \in Kinds : captured.states[k] \in {Absent} \cup {Parse(f) : f \in history[k]}

\* Once restore is done, each state file is the session's, whatever an earlier
\* restore left half written; a state the session does not have leaves the file
\* of an earlier one in place (WriteWorkspace).
StatesReplaced ==
    pc = "done" =>
        \A k \in Kinds :
            dest[k] = IF session.states[k] = Absent THEN before[k] ELSE Emit(session.states[k])

\* The extension leaves out what is not here.
CanOpen == IF reader = "editor" THEN Openable ELSE Items

\* What is open is what f lists, and can be opened.
Opens(f) ==
    /\ Range(opened) = Range(f.list) \cap CanOpen
    /\ f.active \in Range(opened) => opened[Len(opened)] = f.active

\* The extension on the destination opens exactly the files that were open
\* together on the source and exist here, and the active one ends up in front;
\* else it shows what the destination had.  The same holds for the directories
\* and the tabs, of which none is left out.  A text that was changed and is not
\* signed by the source is excepted (orderFilesForRestore, restoreEditorState,
\* ResolveDirectories, runBrowser).
OpenedAsCaptured ==
    view = "opened" =>
        \/ \E f \in history[reader] : Opens(f)
        \/ IsState(before[reader]) /\ Opens(before[reader])
        \/ damaged /\ ~ SignedBy(session, Own)

\* A state file is refused only if there is none, if a restore is at it or was
\* cut off, or, by the extension, if no file was open on the source: it asks
\* for the list that Go leaves out of the JSON (validateEditorState).
RefusalExplained ==
    view = "refused" =>
        \/ shown = Absent /\ before[reader] = Absent
        \/ shown = Torn
        \/ /\ reader = "editor" /\ shown.list = Missing
           /\ (\E f \in history["editor"] : f.list = <<>>) \/ damaged

-----------------------------------------------------------------------------
(* The inductive invariant (HandoffProofs). *)

HandoffTypeOK ==
    /\ source \in [Kinds -> {Absent, Torn} \cup States]
    /\ history \in [Kinds -> SUBSET States]
    /\ pc \in Stages
    /\ rest \in {InOrder, <<"terminal", "browser">>, <<"browser">>, <<>>}
    /\ known \subseteq Kinds
    /\ session \in Sessions /\ captured \in Sessions
    /\ wire \in {Torn} \cup Sessions
    /\ damaged \in BOOLEAN /\ required \in BOOLEAN /\ trusted \subseteq Keys
    /\ dest \in [Kinds -> {Absent, Torn} \cup States]
    /\ before \in [Kinds -> {Absent, Torn} \cup States]
    /\ content \in {Absent, Torn} \cup Contents

\* What NoStateLost says of state s of kind k.
Read(k, s) ==
    /\ s = Absent => k \notin known
    /\ s # Absent => s \in {Parse(f) : f \in history[k]}

SourceInv ==
    /\ pc = "idle" => known = {}
    /\ \A k \in Kinds : source[k] \in {Absent, Torn} \cup history[k]
    /\ pc \in {"idle", "capture"} => \A k \in known : source[k] # Absent
    /\ pc = "capture" => \A k \in Kinds \ Range(rest) : Read(k, session.states[k])
    /\ pc \in Hops => \A k \in Kinds : Read(k, captured.states[k])

\* The source signed what was captured and nothing else.
Genuine(s) == SignedBy(s, Own) => s.signature.payload = Payload(captured)

WireInv ==
    /\ pc \in {"idle", "capture"} => session.signature = Unsigned /\ ~ damaged
    /\ pc \in {"idle", "capture"} => session.hash = session.content
    /\ pc \in Hops =>
         /\ captured.hash = captured.content
         /\ wire # Torn => Genuine(wire)
         /\ ~ damaged => /\ wire # Torn
                         /\ wire.content = captured.content /\ wire.hash = captured.hash

\* What restore knows of the session once it accepted it.
Accepted ==
    /\ captured.hash = captured.content
    /\ session.hash = session.content
    /\ required => Trusted(session)
    /\ session.signature # Unsigned => session.signature.payload = Payload(session)
    /\ Genuine(session)
    /\ ~ damaged => session.content = captured.content

Placed(k) == dest[k] = IF session.states[k] = Absent THEN before[k] ELSE Emit(session.states[k])

TargetInv ==
    /\ pc = "put content" \/ Delivered => Accepted
    /\ pc \in {"put states", "done"} => Delivered
    /\ Delivered => pc \in {"put states", "done", "failed"} /\ content = session.content
    /\ ~ Delivered => dest = before
    /\ Delivered =>
         \A k \in Kinds : IF session.states[k] = Absent
                            THEN dest[k] = before[k]
                            ELSE dest[k] \in {before[k], Torn, Emit(session.states[k])}
    /\ pc = "put states" => \A k \in Kinds \ Range(rest) : Placed(k)
    /\ pc = "done" => \A k \in Kinds : Placed(k)

\* Each program knows where its session comes from (ReadJSON, WriteWorkspace).
CarriedInv == HandoffTypeOK /\ SourceInv /\ WireInv /\ TargetInv

\* What decoding and encoding leave of a session that nobody damaged.
Undamaged ==
    /\ wire.states = [k \in Kinds |-> Emit(captured.states[k])]
    /\ wire.signature = captured.signature
    /\ captured.text = "plain" => wire.text = "plain"

\* What was open comes from a writer, and an undamaged session is the captured one.
IntactInv ==
    /\ \A k \in Kinds : \A f \in history[k] : f.list \in Lists[k]
    /\ \A k \in Kinds : IsState(before[k]) => before[k].list \in Lists[k]
    /\ pc \in {"idle", "capture"} => session.text \in {"plain", "odd"}
    /\ pc \in Hops =>
         /\ captured.text \in {"plain", "odd"}
         /\ captured.signature \in {Unsigned, Signature(Own, captured)}
         /\ ~ damaged => Undamaged
    /\ pc = "put content" \/ Delivered =>
         /\ \A k \in Kinds : Read(k, captured.states[k])
         /\ ~ damaged => \A k \in Kinds : Emit(session.states[k]) = Emit(captured.states[k])
    /\ SoundIsAccepted

\* What is open and what is still to open make up what was read.
Opening ==
    /\ queue \in Seq(Items) /\ opened \in Seq(Items)
    /\ Range(opened) \cup (Range(queue) \cap CanOpen) = Range(shown.list) \cap CanOpen
    /\ shown.active \in Range(shown.list) =>
         IF queue # <<>> THEN queue[Len(queue)] = shown.active
         ELSE shown.active \in Range(opened) => opened[Len(opened)] = shown.active

OpenInv ==
    /\ reader \in Kinds
    /\ view # "idle" =>
         \/ shown \in {Torn, before[reader]}
         \/ /\ Delivered /\ session.states[reader] # Absent
            /\ shown = Emit(session.states[reader])
    /\ view = "refused" => Unusable(reader, shown)
    /\ view \in {"opening", "opened"} =>
         /\ ~ Unusable(reader, shown)
         /\ shown.list \in Seq(Items) => IF view = "opening" THEN Opening ELSE Opens(shown)

\* What is open on the destination comes from the session (runRestore,
\* restoreEditorState).
HandoffInv == CarriedInv /\ IntactInv /\ OpenInv
=============================================================================
