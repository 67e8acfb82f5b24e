--------------------------- MODULE IdentityProofs ---------------------------
(* What holds of Identity for any number of commands. *)
EXTENDS Identity, TLAPS

\* Nobody has a key at first.
LEMMA IdentityInit == Init => IdentityInv
BY IdentityAssumption DEF Init, IdentityInv, IdentityTypeOK, OneIdentity

\* No step of LoadOrCreate, Load or Save leaves the invariant: a file that was
\* written is never Absent or Cut again.
LEMMA IdentityStep == IdentityInv /\ [Next]_vars => IdentityInv'
<1> SUFFICES ASSUME IdentityInv, [Next]_vars PROVE IdentityInv'
  OBVIOUS
<1> USE IdentityAssumption DEF IdentityInv, IdentityTypeOK, OneIdentity, Procs
<1>1. ASSUME NEW p \in Procs, Load(p) PROVE IdentityInv'
  BY <1>1 DEF Load
<1>2. ASSUME NEW p \in Procs, Missing(p) PROVE IdentityInv'
  BY <1>2 DEF Missing
<1>3. ASSUME NEW p \in Procs, Create(p) PROVE IdentityInv'
  <2>1. CASE file # Absent
    BY <1>3, <2>1 DEF Create
  <2>2. CASE file = Absent
    <3>1. file' = Cut /\ pc' = [pc EXCEPT ![p] = "write"] /\ key' = key
      BY <1>3, <2>2 DEF Create
    <3>2. p \in Makers
      BY <1>3 DEF Create
    <3>3. \A q \in Procs : key[q] = None /\ pc[q] # "write"
      BY <2>2
    <3> QED BY <3>1, <3>2, <3>3
  <2> QED BY <2>1, <2>2
<1>4. ASSUME NEW p \in Procs, Write(p) PROVE IdentityInv'
  BY <1>4 DEF Write
<1>5. ASSUME NEW p \in Procs, Fail(p) PROVE IdentityInv'
  BY <1>5 DEF Fail
<1>6. CASE UNCHANGED vars
  BY <1>6 DEF vars
<1> QED
  BY <1>1, <1>2, <1>3, <1>4, <1>5, <1>6 DEF Next, Step

\* The invariant holds in every reachable state.
THEOREM IdentityInvariance == Spec => []IdentityInv
BY IdentityInit, IdentityStep, PTL DEF Spec

\* However many commands race or are killed, all that get an identity agree on
\* it and with the file (LoadOrCreate, Save).
THEOREM IdentitiesAgree == Spec => []OneIdentity
<1>1. IdentityInv => OneIdentity
  BY DEF IdentityInv
<1> QED
  BY <1>1, IdentityInvariance, PTL

-----------------------------------------------------------------------------
(* Identity implements WriteOnce. *)

LEMMA WriteOnceInit == Init => W!Init
BY IdentityAssumption DEF Init, W!Init, Procs

\* Loading a key learns it, completing the file decides it, and everything else,
\* creating and cutting off the file included, is nobody's business.
LEMMA WriteOnceStep == IdentityInv /\ [Next]_vars => [W!Next]_(W!vars)
<1> SUFFICES ASSUME IdentityInv, [Next]_vars PROVE [W!Next]_(W!vars)
  OBVIOUS
<1> USE IdentityAssumption DEF IdentityInv, IdentityTypeOK
<1>1. ASSUME NEW p \in Procs, Load(p) PROVE W!Learn(p)
  BY <1>1 DEF Load, W!Learn
<1>2. ASSUME NEW p \in Procs, Missing(p) PROVE UNCHANGED W!vars
  BY <1>2 DEF Missing, W!vars
<1>3. ASSUME NEW p \in Procs, Create(p) PROVE UNCHANGED W!vars
  <2>1. CASE file # Absent
    BY <1>3, <2>1 DEF Create, W!vars
  <2>2. CASE file = Absent
    BY <1>3, <2>2 DEF Create, W!vars
  <2> QED BY <2>1, <2>2
<1>4. ASSUME NEW p \in Procs, Write(p) PROVE p \in Makers /\ W!Decide(p)
  BY <1>4 DEF Write, W!Decide
<1>5. ASSUME NEW p \in Procs, Fail(p) PROVE UNCHANGED W!vars \/ (p \in Makers /\ W!Decide(p))
  <2>1. CASE file' = file
    BY <1>5, <2>1 DEF Fail, W!vars
  <2>2. CASE pc[p] = "write" /\ file' = Cut
    BY <1>5, <2>2 DEF Fail, W!vars
  <2>3. CASE pc[p] = "write" /\ file' = p
    BY <1>5, <2>3 DEF Fail, W!Decide
  <2> QED BY <1>5, <2>1, <2>2, <2>3 DEF Fail
<1>6. CASE UNCHANGED vars
  BY <1>6 DEF vars, W!vars
<1> QED
  BY <1>1, <1>2, <1>3, <1>4, <1>5, <1>6 DEF Next, Step, Procs, W!Next

\* The identity of a workspace is written once: with any number of commands that
\* race, fail or die, each behaviour is one of the write-once cell (LoadOrCreate).
THEOREM IdentityIsWrittenOnce == Spec => WriteOnceSpec
<1>1. Spec => [][W!Next]_(W!vars)
  BY IdentityInvariance, WriteOnceStep, PTL DEF Spec
<1> QED
  BY <1>1, WriteOnceInit, PTL DEF Spec, WriteOnceSpec, W!Spec
=============================================================================
