------------------------------ MODULE Identity ------------------------------
(***************************************************************************)
(* The key pair of one workspace (internal/deviceidentity).  `relay        *)
(* identity` loads device-identity.json, or makes a key and saves it with  *)
(* O_EXCL; capture, listen, send, pair and doctor only load it.  Any of    *)
(* them may run at the same time, and be killed.                           *)
(***************************************************************************)

CONSTANTS
    Makers,    \* executions of `relay identity`
    Users,     \* executions of the commands that only load the file
    Faults,    \* TRUE when calls may fail and commands may be killed
    Absent,    \* no file
    Cut,       \* the file is empty or cut off
    None

Procs == Makers \cup Users

ASSUME IdentityAssumption ==
    /\ Faults \in BOOLEAN
    /\ {Absent, Cut, None} \cap Makers = {}
    /\ Absent # Cut

VARIABLES
    file,   \* Absent, Cut, or the key of the maker that wrote it
    pc,     \* where each command stands
    key     \* the key a command goes on with, or None

vars == <<file, pc, key>>

IdentityTypeOK ==
    /\ file \in {Absent, Cut} \cup Makers
    /\ pc \in [Procs -> {"load", "create", "write", "done", "failed"}]
    /\ key \in [Procs -> {None} \cup Makers]

Init ==
    /\ file = Absent
    /\ pc = [p \in Procs |-> "load"]
    /\ key = [p \in Procs |-> None]

-----------------------------------------------------------------------------
\* Mutant: what can be read of a file that was cut off is used.
LoadUnvalidated(p) ==
    /\ pc[p] = "load"
    /\ file # Absent
    /\ key' = [key EXCEPT ![p] = file]
    /\ pc' = [pc EXCEPT ![p] = "done"]
    /\ UNCHANGED file

\* Load; Decode and Validate refuse a file that was cut off.
Load(p) ==
    /\ pc[p] = "load"
    /\ file \in Makers
    /\ key' = [key EXCEPT ![p] = file]
    /\ pc' = [pc EXCEPT ![p] = "done"]
    /\ UNCHANGED file

\* There is no file: a maker generates a key, a user ends with an error or goes
\* on without one (capture then does not sign, doctor reports it).
Missing(p) ==
    /\ pc[p] = "load"
    /\ file = Absent
    /\ pc' = [pc EXCEPT ![p] = IF p \in Makers THEN "create" ELSE "done"]
    /\ UNCHANGED <<file, key>>

\* Mutant: without O_EXCL.
CreateOver(p) ==
    /\ pc[p] = "create"
    /\ file' = Cut
    /\ pc' = [pc EXCEPT ![p] = "write"]
    /\ UNCHANGED key

\* os.OpenFile with O_EXCL; a maker that comes second fails.
Create(p) ==
    /\ pc[p] = "create"
    /\ IF file = Absent
         THEN file' = Cut /\ pc' = [pc EXCEPT ![p] = "write"]
         ELSE pc' = [pc EXCEPT ![p] = "failed"] /\ UNCHANGED file
    /\ UNCHANGED key

Write(p) ==
    /\ pc[p] = "write"
    /\ file' = p
    /\ key' = [key EXCEPT ![p] = p]
    /\ pc' = [pc EXCEPT ![p] = "done"]

\* A file that was cut off, a call that fails, or the end of the process.
Fail(p) ==
    /\ pc[p] \in {"load", "create", "write"}
    /\ Faults \/ (pc[p] = "load" /\ file = Cut)
    /\ IF pc[p] = "write" THEN file' \in {Cut, p} ELSE UNCHANGED file
    /\ pc' = [pc EXCEPT ![p] = "failed"]
    /\ UNCHANGED key

Step(p) == Load(p) \/ Missing(p) \/ Create(p) \/ Write(p) \/ Fail(p)

Next == \E p \in Procs : Step(p)

Spec == Init /\ [][Next]_vars

-----------------------------------------------------------------------------
(* Properties. *)

\* Every command that got an identity, to sign a session, to answer with a
\* certificate, to compute a pair code or to show it, has the one that is in the
\* file and stays there: makers that race do not end up with two (LoadOrCreate).
OneIdentity == \A p \in Procs : key[p] # None => key[p] = file

\* The inductive invariant: users never write, and only one maker does, to a
\* file that is still cut off.
IdentityInv ==
    /\ IdentityTypeOK
    /\ OneIdentity
    /\ \A p \in Procs : pc[p] \in {"create", "write"} => p \in Makers
    /\ \A p \in Procs : pc[p] = "write" => file = Cut
    /\ \A p, q \in Procs : pc[p] = "write" /\ pc[q] = "write" => p = q
    /\ \A p \in Procs : pc[p] # "done" => key[p] = None

-----------------------------------------------------------------------------
(* Refinement: the workspace has a key once the file is complete. *)

W == INSTANCE WriteOnce
       WITH value <- IF file \in Makers THEN file ELSE None, learned <- key

\* Whatever races, fails or dies, the file is a cell that is written once: the
\* first complete key stays, and it is the one everybody gets (LoadOrCreate,
\* Save with O_EXCL).
WriteOnceSpec == W!Spec
=============================================================================
