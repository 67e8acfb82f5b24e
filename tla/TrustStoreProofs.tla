-------------------------- MODULE TrustStoreProofs --------------------------
(***************************************************************************)
(* What holds of TrustStore for any number of devices, commands and        *)
(* listeners.                                                              *)
(***************************************************************************)
EXTENDS TrustStore, TLAPS

\* The initial states satisfy the invariant: nothing is settled yet.
LEMMA TrustInit == Init => TrustInv
BY TrustAssumption
   DEF Init, TrustInv, TrustTypeOK, RunningInv, StoreInv, InvitedInv, SettledStays,
       ListenersFollow, Loaded, Running

\* No command becomes idle again, so an invitation is not taken back.
LEMMA InvitationsStay ==
  ASSUME TrustTypeOK, UNCHANGED <<op, dev>>,
         \A c \in Commands : pc[c] # "idle" => pc'[c] # "idle"
  PROVE  Invited \subseteq Invited'
BY DEF Invited

\* The stores of a command or of a listener hold invited devices only, if what
\* they are loaded from does (truststore.Load, Add, Remove, Save).
LEMMA InvitedKept == ASSUME TrustInv, [Next]_vars PROVE InvitedInv'
<1> USE TrustAssumption DEF TrustInv, InvitedInv, Running
<1>1. Invited \subseteq Invited'
  BY InvitationsStay
  DEF TrustTypeOK, Next, CommandStep, Begin, Load, Open, Write, Fail, Start, Stop, vars,
      commandVars
<1>2. ASSUME NEW c \in Commands, Begin(c) PROVE InvitedInv'
  BY <1>1, <1>2 DEF Begin, fileVars, Loaded, TrustTypeOK
<1>3. ASSUME NEW c \in Commands, Load(c) PROVE InvitedInv'
  <2>1. Changed(c, Loaded) \subseteq Invited
    BY <1>3 DEF Load, Changed, Invited
  <2>2. /\ file' = file /\ copy' = copy
        /\ store' = [store EXCEPT ![c] = Changed(c, Loaded)]
        /\ pc' = [pc EXCEPT ![c] = "open"]
    BY <1>3 DEF Load, listenerVars
  <2> QED BY <1>1, <2>1, <2>2 DEF Loaded, TrustTypeOK
<1>4. ASSUME NEW c \in Commands, Open(c) PROVE InvitedInv'
  BY <1>1, <1>4 DEF Open, listenerVars, TrustTypeOK
<1>5. ASSUME NEW c \in Commands, Write(c) PROVE InvitedInv'
  <2>1. file' = store[c] /\ Loaded' = store[c] /\ store[c] \subseteq Invited
    BY <1>5 DEF Write, Loaded, TrustTypeOK
  <2> QED BY <1>1, <1>5, <2>1 DEF Write, listenerVars, TrustTypeOK
<1>6. ASSUME NEW c \in Commands, Fail(c) PROVE InvitedInv'
  <2>1. /\ file' # Unreadable => Loaded' \subseteq Invited
        /\ store' = store /\ copy' = copy /\ pc' = [pc EXCEPT ![c] = "failed"]
    BY <1>6 DEF Fail, Loaded, TrustTypeOK, listenerVars
  <2> QED BY <1>1, <2>1 DEF TrustTypeOK
<1>7. ASSUME NEW l \in Listeners, Start(l) \/ Stop(l) PROVE InvitedInv'
  BY <1>1, <1>7 DEF Start, Stop, fileVars, commandVars, Loaded, TrustTypeOK
<1>8. CASE UNCHANGED vars
  BY <1>1, <1>8 DEF vars, fileVars, commandVars, listenerVars, Loaded
<1> QED BY <1>2, <1>3, <1>4, <1>5, <1>6, <1>7, <1>8 DEF Next, CommandStep

\* A command that begins unsettles its device, and ends the solitude of the
\* others (runTrustAdd, runTrustRemove, runPair).
LEMMA BeginKeeps == ASSUME TrustInv, NEW c \in Commands, Begin(c) PROVE TrustInv'
<1> USE TrustAssumption DEF TrustInv, Begin, fileVars, Running
<1>1. TrustTypeOK'
  BY DEF TrustTypeOK
<1>2. RunningInv'
  <2> SUFFICES ASSUME NEW b \in Commands, pc'[b] \in Running
               PROVE  /\ alone' \in {b, None}
                      /\ \A o \in Ops : <<dev'[b], o>> \notin settled'
    BY DEF RunningInv
  <2>1. CASE b = c
    BY <2>1 DEF TrustTypeOK
  <2>2. CASE b # c
    BY <2>2 DEF TrustTypeOK, RunningInv
  <2> QED BY <2>1, <2>2
<1>3. StoreInv'
  <2> SUFFICES ASSUME NEW b \in Commands, pc'[b] \in {"open", "write"}
               PROVE  /\ Follows(store[b], dev[b], {<<dev[b], op[b]>>})
                      /\ \A d \in Devices : Follows(store[b], d, settled')
    BY DEF StoreInv, Follows
  <2>1. b # c
    BY DEF TrustTypeOK
  <2>2. pc[b] \in {"open", "write"}
    BY <2>1 DEF TrustTypeOK
  <2> QED BY <2>2 DEF StoreInv, Follows
<1>4. SettledStays'
  BY DEF SettledStays, Verifies, Loaded
<1>5. ListenersFollow'
  BY DEF ListenersFollow, Accepts, TrustTypeOK
<1>9. InvitedInv'
  BY InvitedKept DEF Next, CommandStep
<1> QED BY <1>1, <1>2, <1>3, <1>4, <1>5, <1>9

\* What a command loads respects what is settled, and its own change touches
\* no device that is (truststore.Load, Add, Remove).
LEMMA LoadKeeps == ASSUME TrustInv, NEW c \in Commands, Load(c) PROVE TrustInv'
<1> USE TrustAssumption DEF TrustInv, Load, listenerVars, Running
<1>1. Loaded \in SUBSET Devices
  BY DEF TrustTypeOK, Loaded
<1>2. TrustTypeOK'
  BY <1>1 DEF TrustTypeOK, Changed
<1>3. RunningInv'
  BY DEF RunningInv, TrustTypeOK
<1>4. StoreInv'
  <2> SUFFICES ASSUME NEW b \in Commands, pc'[b] \in {"open", "write"}
               PROVE  /\ Follows(store'[b], dev[b], {<<dev[b], op[b]>>})
                      /\ \A d \in Devices : Follows(store'[b], d, settled)
    BY DEF StoreInv, Follows
  <2>1. CASE b = c
    <3>1. store'[c] = Changed(c, Loaded)
      BY DEF TrustTypeOK
    <3>2. Follows(store'[c], dev[c], {<<dev[c], op[c]>>})
      BY <3>1 DEF Follows, Changed, TrustTypeOK, Ops
    <3>3. ASSUME NEW d \in Devices PROVE Follows(store'[c], d, settled)
      <4>1. Follows(Loaded, d, settled)
        BY DEF SettledStays, Verifies, Follows
      <4>2. CASE d = dev[c]
        BY <4>2 DEF RunningInv, Ops, Follows
      <4>3. CASE d # dev[c]
        BY <4>1, <4>3, <3>1 DEF Follows, Changed
      <4> QED BY <4>2, <4>3
    <3> QED BY <2>1, <3>2, <3>3
  <2>2. CASE b # c
    BY <2>2 DEF StoreInv, TrustTypeOK
  <2> QED BY <2>1, <2>2
<1>5. SettledStays' /\ ListenersFollow'
  BY DEF SettledStays, ListenersFollow, Verifies, Accepts, Loaded
<1>9. InvitedInv'
  BY InvitedKept DEF Next, CommandStep
<1> QED BY <1>2, <1>3, <1>4, <1>5, <1>9

\* Truncating the file makes it unreadable, which says nothing (os.OpenFile).
LEMMA OpenKeeps == ASSUME TrustInv, NEW c \in Commands, Open(c) PROVE TrustInv'
<1> USE TrustAssumption DEF TrustInv, Open, listenerVars, Running
<1>1. TrustTypeOK'
  BY DEF TrustTypeOK
<1>2. RunningInv'
  BY DEF RunningInv, TrustTypeOK
<1>3. StoreInv'
  BY DEF StoreInv, TrustTypeOK, Follows
<1>4. SettledStays' /\ ListenersFollow'
  BY DEF SettledStays, ListenersFollow, Accepts
<1>9. InvitedInv'
  BY InvitedKept DEF Next, CommandStep
<1> QED BY <1>1, <1>2, <1>3, <1>4, <1>9

\* A command writes what respects the settled devices, and settles its own only
\* when no other command is left to write something else (truststore.Save).
LEMMA WriteKeeps == ASSUME TrustInv, NEW c \in Commands, Write(c) PROVE TrustInv'
<1> USE TrustAssumption DEF TrustInv, Write, listenerVars, Running
<1>1. TrustTypeOK'
  BY DEF TrustTypeOK
<1>2. ASSUME NEW b \in Commands, pc'[b] \in Running
      PROVE  b # c /\ pc[b] \in Running /\ settled' = settled
  BY <1>2 DEF TrustTypeOK, RunningInv
<1>3. RunningInv'
  BY <1>2 DEF RunningInv
<1>4. StoreInv'
  BY <1>2 DEF StoreInv, TrustTypeOK, Follows
<1>5. SettledStays'
  <2>1. file' = store[c] /\ store[c] \in SUBSET Devices
    BY DEF TrustTypeOK
  <2>2. ASSUME NEW d \in Devices PROVE Follows(store[c], d, settled')
    <3>1. CASE d = dev[c]
      BY <3>1 DEF StoreInv, RunningInv, Follows, Ops
    <3>2. CASE d # dev[c]
      BY <3>2 DEF StoreInv, Follows
    <3> QED BY <3>1, <3>2
  <2>3. Loaded' = store[c]
    BY <2>1 DEF Loaded
  <2> QED BY <2>2, <2>3 DEF SettledStays, Verifies, Follows
<1>6. ListenersFollow'
  BY DEF ListenersFollow, Accepts
<1>9. InvitedInv'
  BY InvitedKept DEF Next, CommandStep
<1> QED BY <1>1, <1>3, <1>4, <1>5, <1>6, <1>9

\* A command that fails leaves the file as it was, unreadable, or with its copy,
\* and settles nothing (truststore.Save).
LEMMA FailKeeps == ASSUME TrustInv, NEW c \in Commands, Fail(c) PROVE TrustInv'
<1> USE TrustAssumption DEF TrustInv, Fail, listenerVars, Running
<1>1. TrustTypeOK'
  BY DEF TrustTypeOK
<1>2. RunningInv'
  BY DEF RunningInv, TrustTypeOK
<1>3. StoreInv'
  BY DEF StoreInv, TrustTypeOK, Follows
<1>4. SettledStays'
  <2>1. CASE file' = file
    BY <2>1 DEF SettledStays, Verifies, Loaded
  <2>2. CASE file' = Unreadable
    BY <2>2 DEF SettledStays
  <2>3. CASE pc[c] = "write" /\ file' = store[c]
    <3>1. Loaded' = store[c]
      BY <2>3 DEF Loaded, TrustTypeOK
    <3> QED BY <2>3, <3>1 DEF SettledStays, Verifies, StoreInv, Follows
  <2> QED BY <2>1, <2>2, <2>3
<1>5. ListenersFollow'
  BY DEF ListenersFollow, Accepts
<1>9. InvitedInv'
  BY InvitedKept DEF Next, CommandStep
<1> QED BY <1>1, <1>2, <1>3, <1>4, <1>5, <1>9

\* A listener starts with what is settled (newListenerTLSConfig), and nothing is
\* asked of one that is down.
LEMMA ListenerKeeps ==
  ASSUME TrustInv, NEW l \in Listeners, Start(l) \/ Stop(l) PROVE TrustInv'
<1> USE TrustAssumption DEF TrustInv, Start, Stop, fileVars, commandVars
<1>1. TrustTypeOK'
  BY DEF TrustTypeOK, Loaded
<1>2. RunningInv' /\ StoreInv' /\ SettledStays'
  BY DEF RunningInv, StoreInv, SettledStays, Verifies, Loaded, Follows
<1>3. ListenersFollow'
  <2> SUFFICES ASSUME NEW m \in Listeners, NEW d \in Devices, copy'[m] # None
               PROVE  Follows(copy'[m], d, since'[m])
    BY DEF ListenersFollow, Accepts, Follows
  <2>1. CASE m # l
    BY <2>1 DEF ListenersFollow, Accepts, Follows, TrustTypeOK
  <2>2. CASE m = l
    <3>1. Start(l)
      BY <2>2 DEF TrustTypeOK
    <3>2. copy'[l] = Loaded /\ since'[l] = settled
      BY <3>1 DEF TrustTypeOK
    <3> QED BY <2>2, <3>1, <3>2 DEF SettledStays, Verifies, Follows
  <2> QED BY <2>1, <2>2
<1>9. InvitedInv'
  BY InvitedKept DEF Next
<1> QED BY <1>1, <1>2, <1>3, <1>9

\* No step of any command or listener leaves the invariant.
LEMMA TrustStep == TrustInv /\ [Next]_vars => TrustInv'
<1> SUFFICES ASSUME TrustInv, [Next]_vars PROVE TrustInv'
  OBVIOUS
<1>1. ASSUME NEW c \in Commands, CommandStep(c) PROVE TrustInv'
  BY <1>1, BeginKeeps, LoadKeeps, OpenKeeps, WriteKeeps, FailKeeps DEF CommandStep
<1>2. CASE UNCHANGED vars
  BY <1>2 DEF vars, fileVars, commandVars, listenerVars, TrustInv, TrustTypeOK,
              RunningInv, StoreInv, InvitedInv, Invited, SettledStays,
              ListenersFollow, Verifies, Accepts, Loaded, Follows
<1> QED BY <1>1, <1>2, ListenerKeeps DEF Next

\* Every reachable state satisfies the invariant, for any number of commands
\* that overlap, fail or are killed.
THEOREM TrustInvariance == Spec => []TrustInv
BY TrustInit, TrustStep, PTL DEF Spec

\* What a command did alone stays done, until the next one on the same device
\* (truststore.Load, truststore.Save).
THEOREM SoleCommandsStick == Spec => []SettledStays
<1>1. TrustInv => SettledStays
  BY DEF TrustInv
<1> QED BY <1>1, TrustInvariance, PTL

\* Listeners that start after it decide accordingly (newListenerTLSConfig).
THEOREM ListenersObey == Spec => []ListenersFollow
<1>1. TrustInv => ListenersFollow
  BY DEF TrustInv
<1> QED BY <1>1, TrustInvariance, PTL

\* Nobody is trusted whom no command was asked to add, whatever overlapped, failed
\* or went stale (truststore.Load, Add, Save, newListenerTLSConfig).
THEOREM TrustIsInvited == Spec => []OnlyTheAddedAreTrusted
<1>1. TrustInv => OnlyTheAddedAreTrusted
  BY DEF TrustInv, InvitedInv, Invited, OnlyTheAddedAreTrusted, Accepts, Verifies
<1> QED BY <1>1, TrustInvariance, PTL
=============================================================================
