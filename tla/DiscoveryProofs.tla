-------------------------- MODULE DiscoveryProofs --------------------------
(* Proofs about Discovery, for every network and every capacity.              *)
EXTENDS Discovery, SequenceTheorems, TLAPS

\* Lookup starts with nothing heard.
LEMMA DiscoveryInvInit == Init => DiscoveryInv
<1> SUFFICES ASSUME Init PROVE DiscoveryInv
    OBVIOUS
<1>1. Kept = 0 /\ Taken = 0
    BY DiscoveryAssumption DEF Init, Kept, Taken
<1> QED
    BY <1>1 DEF Init, DiscoveryInv, DiscoveryTypeOK, ChannelIsRest, SeenIsListed,
                TakenIsListed, ListedOnce

\* An answer goes to the end of the channel, or is dropped when it is full.
LEMMA AnswerStep ==
    ASSUME DiscoveryInv, NEW e \in Entries, Answer(e)
    PROVE  DiscoveryInv'
<1> USE DiscoveryAssumption
<1>1. /\ DiscoveryTypeOK /\ Len(heard) \in Nat /\ Len(channel) \in Nat
      /\ devices = <<>> /\ seen = {} /\ Taken = 0 /\ pc = "query" /\ pc' = "query"
      /\ devices' = <<>> /\ seen' = {}
    <2>1. seen = {}
        BY DEF DiscoveryInv, Answer, SeenIsListed
    <2> QED
        BY <2>1 DEF DiscoveryInv, DiscoveryTypeOK, Answer
<1>2. /\ heard' \in Seq(Entries) /\ Len(heard') = Len(heard) + 1
      /\ \A i \in 1 .. Len(heard) : heard'[i] = heard[i]
      /\ heard'[Len(heard) + 1] = e
    BY <1>1 DEF Answer, DiscoveryTypeOK
<1>3. Len(channel) = Kept /\ \A i \in 1 .. Len(channel) : channel[i] = heard[i]
    <2>1. Len(channel) = Kept
        BY <1>1 DEF Taken, Kept
    <2>2. \A i \in 1 .. Len(channel) : channel[i] = heard[Taken + i]
        BY DEF DiscoveryInv, ChannelIsRest
    <2> QED
        BY <1>1, <2>1, <2>2
<1>4. /\ channel' \in Seq(Entries) /\ Len(channel') = Kept'
      /\ \A i \in 1 .. Len(channel') : channel'[i] = heard'[i]
    <2>1. CASE Len(channel) < Capacity
        <3>1. channel' = Append(channel, e)
            BY <2>1 DEF Answer
        <3>2. Len(channel) = Len(heard)
            BY <1>1, <1>3, <2>1 DEF Kept
        <3>3. Kept' = Len(heard) + 1
            BY <1>1, <1>2, <2>1, <3>2 DEF Kept
        <3>4. /\ channel' \in Seq(Entries) /\ Len(channel') = Len(heard) + 1
              /\ \A i \in 1 .. Len(channel) : channel'[i] = channel[i]
              /\ channel'[Len(heard) + 1] = e
            BY <3>1, <3>2, <1>1 DEF DiscoveryTypeOK
        <3>5. ASSUME NEW i \in 1 .. Len(channel') PROVE channel'[i] = heard'[i]
            <4>1. CASE i \in 1 .. Len(heard)
                BY <4>1, <3>2, <3>4, <1>2, <1>3
            <4>2. CASE i = Len(heard) + 1
                BY <4>2, <3>4, <1>2
            <4> QED
                BY <4>1, <4>2, <3>4, <1>1
        <3> QED
            BY <3>3, <3>4, <3>5
    <2>2. CASE ~ (Len(channel) < Capacity)
        <3>1. channel' = channel
            BY <2>2 DEF Answer
        <3>2. Len(channel) = Capacity /\ Capacity <= Len(heard)
            BY <1>1, <1>3, <2>2 DEF Kept
        <3>3. Kept' = Capacity
            BY <1>1, <1>2, <3>2 DEF Kept
        <3>4. \A i \in 1 .. Len(channel') : channel'[i] = heard'[i]
            <4> SUFFICES ASSUME NEW i \in 1 .. Len(channel) PROVE channel[i] = heard'[i]
                BY <3>1
            <4>1. channel[i] = heard[i]
                BY <1>3
            <4>2. i \in 1 .. Len(heard)
                BY <3>2, <1>1
            <4> QED
                BY <4>1, <4>2, <1>2
        <3> QED
            BY <1>1, <3>1, <3>2, <3>3, <3>4 DEF DiscoveryTypeOK
    <2> QED
        BY <2>1, <2>2
<1>5. Taken' = 0
    BY <1>2, <1>4 DEF Taken
<1>6. ChannelIsRest'
    <2> Len(channel') \in Nat
        BY <1>4
    <2> QED
        BY <1>4, <1>5 DEF ChannelIsRest
<1> QED
    BY <1>1, <1>2, <1>4, <1>5, <1>6
       DEF DiscoveryInv, DiscoveryTypeOK, SeenIsListed, TakenIsListed, ListedOnce

\* The end of the query touches no list.
LEMMA QueryEndsStep == DiscoveryInv /\ QueryEnds => DiscoveryInv'
BY DEF DiscoveryInv, QueryEnds, DiscoveryTypeOK, ChannelIsRest, SeenIsListed, TakenIsListed,
       Taken, Kept, ListedOnce

\* Each round of the loop takes the next answer and lists it if its key is new.
LEMMA TakeStep == DiscoveryInv /\ Take => DiscoveryInv'
<1> SUFFICES ASSUME DiscoveryInv, Take PROVE DiscoveryInv'
    OBVIOUS
<1> USE DiscoveryAssumption
<1> DEFINE e == Head(channel)
<1>1. /\ DiscoveryTypeOK /\ Len(heard) \in Nat /\ Len(channel) \in Nat \ {0}
      /\ e = channel[1] /\ e \in Entries
      /\ channel' = Tail(channel) /\ channel' \in Seq(Entries)
      /\ Len(channel') = Len(channel) - 1
      /\ \A i \in 1 .. Len(channel') : channel'[i] = channel[i + 1]
      /\ heard' = heard /\ pc = "drain" /\ pc' = "drain"
    BY HeadTailProperties DEF DiscoveryInv, DiscoveryTypeOK, Take
<1>2. /\ Kept' = Kept /\ Kept \in Nat /\ Kept <= Len(heard) /\ Len(channel) <= Kept
      /\ Taken \in Nat /\ Taken' = Taken + 1 /\ Taken + 1 <= Len(heard)
    BY <1>1 DEF Kept, Taken, DiscoveryInv, ChannelIsRest
<1>3. e = heard[Taken + 1] /\ ChannelIsRest'
    <2>1. \A i \in 1 .. Len(channel) : channel[i] = heard[Taken + i]
        BY DEF DiscoveryInv, ChannelIsRest
    <2>2. e = heard[Taken + 1]
        BY <1>1, <2>1
    <2>3. ASSUME NEW i \in 1 .. Len(channel') PROVE channel'[i] = heard'[Taken' + i]
        <3>1. i + 1 \in 1 .. Len(channel)
            BY <1>1
        <3>2. channel'[i] = heard[Taken + (i + 1)]
            BY <1>1, <2>1, <3>1
        <3>3. Taken + (i + 1) = Taken' + i
            BY <1>2
        <3> QED
            BY <1>1, <3>2, <3>3
    <2> QED
        BY <1>1, <1>2, <2>2, <2>3 DEF ChannelIsRest
<1>4. /\ devices \in Seq(Entries) /\ Len(devices) \in Nat /\ DOMAIN devices = 1 .. Len(devices)
      /\ SeenIsListed /\ ListedOnce /\ TakenIsListed
      /\ \A k \in DOMAIN devices : \E i \in 1 .. Taken : heard[i] = devices[k]
    BY DEF DiscoveryInv, DiscoveryTypeOK
<1>5. DOMAIN heard = 1 .. Len(heard)
    BY <1>1 DEF DiscoveryTypeOK
<1>6. CASE Keyless(e) \/ Key(e) \in seen
    <2>1. devices' = devices /\ seen' = seen
        BY <1>6 DEF Take
    <2>2. ASSUME NEW i \in 1 .. Taken'
          PROVE  Keyless(heard[i]) \/ \E j \in 1 .. i, k \in DOMAIN devices :
                     heard[j] = devices[k] /\ Key(heard[j]) = Key(heard[i])
        <3>1. CASE i \in 1 .. Taken
            BY <3>1, <1>4 DEF TakenIsListed
        <3>2. CASE i = Taken + 1 /\ Keyless(e)
            BY <3>2, <1>3
        <3>3. CASE i = Taken + 1 /\ Key(e) \in seen
            <4>1. PICK k \in DOMAIN devices : Key(devices[k]) = Key(e)
                BY <3>3, <1>4 DEF SeenIsListed
            <4>2. PICK j \in 1 .. Taken : heard[j] = devices[k]
                BY <1>4
            <4>3. j \in 1 .. i
                BY <3>3, <1>2
            <4> QED
                BY <4>1, <4>2, <4>3, <3>3, <1>3
        <3>4. i \in 1 .. Taken \/ i = Taken + 1
            BY <1>2
        <3> HIDE DEF e
        <3> QED
            BY <3>1, <3>2, <3>3, <3>4, <1>6
    <2>3. TakenIsListed'
        BY <1>1, <2>1, <2>2 DEF TakenIsListed
    <2>4. \A k \in DOMAIN devices' : \E i \in 1 .. Taken' : heard'[i] = devices'[k]
        <3> SUFFICES ASSUME NEW k \in DOMAIN devices
                     PROVE  \E i \in 1 .. Taken' : heard[i] = devices[k]
            BY <1>1, <2>1
        <3>1. PICK i \in 1 .. Taken : heard[i] = devices[k]
            BY <1>4
        <3> QED
            BY <3>1, <1>2
    <2>5. SeenIsListed' /\ ListedOnce'
        BY <1>4, <2>1 DEF SeenIsListed, ListedOnce
    <2> QED
        BY <1>1, <1>3, <2>1, <2>3, <2>4, <2>5 DEF DiscoveryInv, DiscoveryTypeOK
<1>7. CASE ~ (Keyless(e) \/ Key(e) \in seen)
    <2>1. /\ devices' = Append(devices, e) /\ seen' = seen \cup {Key(e)}
          /\ devices' \in Seq(Entries) /\ Len(devices') = Len(devices) + 1
          /\ DOMAIN devices' = 1 .. Len(devices) + 1
          /\ \A k \in DOMAIN devices : k \in DOMAIN devices' /\ devices'[k] = devices[k]
          /\ devices'[Len(devices) + 1] = e
        <3>1. devices' = Append(devices, e) /\ seen' = seen \cup {Key(e)}
            BY <1>7 DEF Take
        <3> QED
            BY <1>1, <1>4, <3>1
    <2>2. SeenIsListed'
        <3>1. \A k \in DOMAIN devices' : k \in DOMAIN devices \/ k = Len(devices) + 1
            BY <1>4, <2>1
        <3>2. Len(devices) + 1 \in DOMAIN devices'
            BY <1>4, <2>1
        <3> QED
            BY <1>4, <2>1, <3>1, <3>2 DEF SeenIsListed
    <2>3. ListedOnce'
        <3>1. \A k \in DOMAIN devices : Key(devices[k]) # Key(e)
            BY <1>4, <1>7 DEF SeenIsListed
        <3>2. \A k \in DOMAIN devices' : k \in DOMAIN devices \/ k = Len(devices) + 1
            BY <1>4, <2>1
        <3>3. \A j, k \in DOMAIN devices : j # k => Key(devices[j]) # Key(devices[k])
            BY <1>4 DEF ListedOnce
        <3> SUFFICES ASSUME NEW j \in DOMAIN devices', NEW k \in DOMAIN devices', j # k
                     PROVE  Key(devices'[j]) # Key(devices'[k])
            BY DEF ListedOnce
        <3> QED
            BY <2>1, <3>1, <3>2, <3>3
    <2>4. ASSUME NEW i \in 1 .. Taken'
          PROVE  Keyless(heard[i]) \/ \E j \in 1 .. i, k \in DOMAIN devices' :
                     heard[j] = devices'[k] /\ Key(heard[j]) = Key(heard[i])
        <3>1. CASE i \in 1 .. Taken
            BY <3>1, <1>4, <2>1 DEF TakenIsListed
        <3>2. CASE i = Taken + 1
            <4>1. i \in 1 .. i /\ Len(devices) + 1 \in DOMAIN devices'
                BY <1>4, <2>1
            <4>2. heard[i] = devices'[Len(devices) + 1]
                BY <3>2, <1>3, <2>1
            <4> QED
                BY <4>1, <4>2
        <3> QED
            BY <3>1, <3>2, <1>2
    <2>5. \A k \in DOMAIN devices' : \E i \in 1 .. Taken' : heard[i] = devices'[k]
        <3>1. ASSUME NEW k \in DOMAIN devices PROVE \E i \in 1 .. Taken' : heard[i] = devices[k]
            <4>1. PICK i \in 1 .. Taken : heard[i] = devices[k]
                BY <1>4
            <4> QED
                BY <4>1, <1>2
        <3>2. Taken + 1 \in 1 .. Taken'
            BY <1>2
        <3>3. \A k \in DOMAIN devices' : k \in DOMAIN devices \/ k = Len(devices) + 1
            BY <1>4, <2>1
        <3> SUFFICES ASSUME NEW k \in DOMAIN devices'
                     PROVE  \E i \in 1 .. Taken' : heard[i] = devices'[k]
            OBVIOUS
        <3> QED
            BY <3>1, <3>2, <3>3, <2>1, <1>3
    <2> QED
        BY <1>1, <1>3, <2>1, <2>2, <2>3, <2>4, <2>5
           DEF DiscoveryInv, DiscoveryTypeOK, TakenIsListed
<1> QED
    BY <1>6, <1>7

\* Sorting moves the devices and keeps each.
LEMMA SortStep == DiscoveryInv /\ Sort => DiscoveryInv'
<1> SUFFICES ASSUME DiscoveryInv, Sort PROVE DiscoveryInv'
    OBVIOUS
<1>1. PICK place \in Bijection(DOMAIN devices, DOMAIN devices) :
          devices' = [i \in DOMAIN devices |-> devices[place[i]]] /\ InOrder(devices')
    BY DEF Sort
<1>2. /\ pc = "drain" /\ pc' = "listed" /\ channel = <<>> /\ channel' = channel
      /\ heard' = heard /\ seen' = seen
    BY DEF Sort
<1>3. /\ DiscoveryTypeOK /\ devices \in Seq(Entries)
      /\ DOMAIN devices = 1 .. Len(devices) /\ Len(devices) \in Nat
    BY DEF DiscoveryInv, DiscoveryTypeOK
<1>4. /\ place \in [DOMAIN devices -> DOMAIN devices]
      /\ \A i, j \in DOMAIN devices : place[i] = place[j] => i = j
      /\ \A k \in DOMAIN devices : \E i \in DOMAIN devices : place[i] = k
    BY DEF Bijection, Injection, Surjection, IsInjective
<1>5. DOMAIN devices' = DOMAIN devices /\ devices' \in Seq(Entries)
    <2>1. DOMAIN devices' = DOMAIN devices
        BY <1>1
    <2>2. \A i \in DOMAIN devices : devices'[i] \in Entries
        BY <1>1, <1>3, <1>4
    <2>3. devices' = [i \in 1 .. Len(devices) |-> devices'[i]]
        BY <1>1, <1>3
    <2> QED
        BY <1>3, <2>1, <2>2, <2>3, IsASeq
<1>6. \A i \in DOMAIN devices : devices'[i] = devices[place[i]]
    BY <1>1
<1>7. /\ Kept' = Kept /\ Taken' = Taken /\ ChannelIsRest'
    BY <1>2 DEF Kept, Taken, DiscoveryInv, ChannelIsRest
<1>8. SeenIsListed'
    BY <1>2, <1>4, <1>5, <1>6 DEF DiscoveryInv, SeenIsListed
<1>9. ListedOnce'
    BY <1>4, <1>5, <1>6 DEF DiscoveryInv, ListedOnce
<1>10. TakenIsListed'
    <2> SUFFICES ASSUME NEW i \in 1 .. Taken, ~ Keyless(heard[i])
                 PROVE  \E j \in 1 .. i, k \in DOMAIN devices :
                            heard[j] = devices'[k] /\ Key(heard[j]) = Key(heard[i])
        BY <1>2, <1>5, <1>7 DEF TakenIsListed
    <2>1. PICK j \in 1 .. i, k \in DOMAIN devices :
              heard[j] = devices[k] /\ Key(heard[j]) = Key(heard[i])
        BY DEF DiscoveryInv, TakenIsListed
    <2>2. PICK m \in DOMAIN devices : place[m] = k
        BY <1>4
    <2> QED
        BY <2>1, <2>2, <1>6
<1>11. \A k \in DOMAIN devices' : \E i \in 1 .. Taken' : heard'[i] = devices'[k]
    <2>1. \A k \in DOMAIN devices : \E i \in 1 .. Taken : heard[i] = devices[k]
        BY DEF DiscoveryInv
    <2>2. ASSUME NEW k \in DOMAIN devices PROVE \E i \in 1 .. Taken : heard[i] = devices'[k]
        <3>1. place[k] \in DOMAIN devices /\ devices'[k] = devices[place[k]]
            BY <1>4, <1>6
        <3> QED
            BY <2>1, <3>1
    <2> QED
        BY <1>2, <1>5, <1>7, <2>2
<1> QED
    BY <1>1, <1>2, <1>3, <1>5, <1>7, <1>8, <1>9, <1>10, <1>11
       DEF DiscoveryInv, DiscoveryTypeOK

-----------------------------------------------------------------------------
\* What a lookup knows of the answers holds at each of its steps, for every
\* order of the answers (FromEntry, Lookup).
THEOREM DiscoveryInvariance == Spec => []DiscoveryInv
<1>1. DiscoveryInv /\ [Next]_vars => DiscoveryInv'
    <2>1. DiscoveryInv /\ UNCHANGED vars => DiscoveryInv'
        BY DEF DiscoveryInv, vars, DiscoveryTypeOK, ChannelIsRest, SeenIsListed, TakenIsListed,
               Taken, Kept, ListedOnce
    <2> QED
        BY <2>1, AnswerStep, QueryEndsStep, TakeStep, SortStep DEF Next
<1> QED
    BY <1>1, DiscoveryInvInit, PTL DEF Spec

\* No device is listed twice under one key (Lookup).
THEOREM NoDeviceTwice == Spec => []ListedOnce
<1>1. DiscoveryInv => ListedOnce
    BY DEF DiscoveryInv
<1> QED
    BY <1>1, DiscoveryInvariance, PTL

\* Whatever the capacity, that many first answers are not lost (Lookup).
THEOREM FirstAnswersAreListed == Spec => []HeardIsListed
<1>1. DiscoveryInv => HeardIsListed
    <2> SUFFICES ASSUME DiscoveryInv, pc = "listed",
                        NEW i \in DOMAIN heard, i <= Capacity, ~ Keyless(heard[i])
                 PROVE  \E j \in DOMAIN heard, k \in DOMAIN devices :
                            j <= i /\ heard[j] = devices[k] /\ Key(heard[j]) = Key(heard[i])
        BY DEF HeardIsListed
    <2>1. DOMAIN heard = 1 .. Len(heard) /\ Len(heard) \in Nat /\ Len(channel) = 0
        BY DEF DiscoveryInv, DiscoveryTypeOK
    <2>2. i \in 1 .. Taken
        BY <2>1, DiscoveryAssumption DEF Taken, Kept
    <2>3. PICK j \in 1 .. i, k \in DOMAIN devices :
              heard[j] = devices[k] /\ Key(heard[j]) = Key(heard[i])
        BY <2>2 DEF DiscoveryInv, TakenIsListed
    <2> QED
        BY <2>1, <2>3
<1> QED
    BY <1>1, DiscoveryInvariance, PTL
=============================================================================
