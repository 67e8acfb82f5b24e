----------------------------- MODULE Discovery -----------------------------
(***************************************************************************)
(* `relay devices` (Lookup in internal/discovery): an mDNS query collects  *)
(* answers for some time in a channel of limited capacity, and only when   *)
(* it is over are they taken out, reduced to one device per key and        *)
(* sorted.  The query is hashicorp/mdns: it sends an entry once, and drops *)
(* it when the channel is full.                                            *)
(***************************************************************************)
EXTENDS Naturals, Sequences, Functions

CONSTANTS
    Entries,      \* what the listeners of the network may answer
    Instance,     \* Instance[e]: the name of the mDNS instance of e,
    TxtName,      \* the name in its TXT record, 0 for none,
    Fingerprint,  \* the fingerprint there, 0 for none,
    Address,      \* and the address and port, 0 for none
    Capacity      \* of the channel (16 in the code)

ASSUME DiscoveryAssumption ==
    /\ Instance \in [Entries -> Nat]
    /\ TxtName \in [Entries -> Nat]
    /\ Fingerprint \in [Entries -> Nat]
    /\ Address \in [Entries -> Nat]
    /\ Capacity \in Nat \ {0}

VARIABLES
    pc,
    heard,      \* aux: the entries answered, in this order
    channel,    \* entries
    seen,       \* the keys taken
    devices     \* the entry each listed device was made from

vars == <<pc, heard, channel, seen, devices>>

-----------------------------------------------------------------------------
(* FromEntry; a name, an address and a fingerprint are numbers, in the order *)
(* of their texts.                                                           *)

Name(e) == IF TxtName[e] # 0 THEN TxtName[e] ELSE Instance[e]

Endpoint(e) == Address[e]

\* The key of Lookup; a fingerprint and an endpoint never coincide.
Key(e) ==
    IF Fingerprint[e] # 0 THEN <<"fingerprint", Fingerprint[e]>> ELSE <<"endpoint", Endpoint(e)>>

\* There is no way to tell it from others, or to reach it.
Keyless(e) == Key(e) = <<"endpoint", 0>>

-----------------------------------------------------------------------------
Init ==
    /\ pc = "query"
    /\ heard = <<>> /\ channel = <<>>
    /\ seen = {} /\ devices = <<>>

\* An answer arrives; the library does not wait for a free place.
Answer(e) ==
    /\ pc = "query"
    /\ e \notin Range(heard)
    /\ heard' = Append(heard, e)
    /\ channel' = IF Len(channel) < Capacity THEN Append(channel, e) ELSE channel
    /\ UNCHANGED <<pc, seen, devices>>

\* The query is over: an error, or the timeout.
QueryEnds ==
    /\ pc = "query"
    /\ pc' \in {"drain", "failed"}
    /\ UNCHANGED <<heard, channel, seen, devices>>

\* Mutant: devices are told apart by their names.
TakeByName ==
    /\ pc = "drain" /\ channel # <<>>
    /\ channel' = Tail(channel)
    /\ LET e == Head(channel)
           key == <<"name", Name(e)>> IN
       IF Keyless(e) \/ key \in seen
         THEN UNCHANGED <<seen, devices>>
         ELSE seen' = seen \cup {key} /\ devices' = Append(devices, e)
    /\ UNCHANGED <<pc, heard>>

\* Mutant: a known device is not skipped.
TakeEvery ==
    /\ pc = "drain" /\ channel # <<>>
    /\ channel' = Tail(channel)
    /\ LET e == Head(channel) IN
       IF Keyless(e)
         THEN UNCHANGED <<seen, devices>>
         ELSE seen' = seen \cup {Key(e)} /\ devices' = Append(devices, e)
    /\ UNCHANGED <<pc, heard>>

\* One round of the loop over the entries.
Take ==
    /\ pc = "drain" /\ channel # <<>>
    /\ channel' = Tail(channel)
    /\ LET e == Head(channel) IN
       IF Keyless(e) \/ Key(e) \in seen
         THEN UNCHANGED <<seen, devices>>
         ELSE seen' = seen \cup {Key(e)} /\ devices' = Append(devices, e)
    /\ UNCHANGED <<pc, heard>>

\* The order of the list: by name, then by endpoint.
Before(d, e) == Name(d) < Name(e) \/ (Name(d) = Name(e) /\ Endpoint(d) <= Endpoint(e))

InOrder(list) == \A i, j \in DOMAIN list : i < j => Before(list[i], list[j])

\* Mutant: the channel is never closed.
SortNever ==
    /\ pc = "drain" /\ channel = <<>>
    /\ UNCHANGED vars

\* sort.Slice keeps no order among equals.
Sort ==
    /\ pc = "drain" /\ channel = <<>>
    /\ \E place \in Bijection(DOMAIN devices, DOMAIN devices) :
         /\ devices' = [i \in DOMAIN devices |-> devices[place[i]]]
         /\ InOrder(devices')
    /\ pc' = "listed"
    /\ UNCHANGED <<heard, channel, seen>>

Next == (\E e \in Entries : Answer(e)) \/ QueryEnds \/ Take \/ Sort

\* The timeout comes, and the loop runs.
Spec == Init /\ [][Next]_vars /\ WF_vars(QueryEnds) /\ WF_vars(Take \/ Sort)

-----------------------------------------------------------------------------
(* Properties. *)

\* No key is listed twice: one line per device, whatever number of interfaces
\* and instances it answers on (Lookup).
ListedOnce ==
    \A i, j \in DOMAIN devices : i # j => Key(devices[i]) # Key(devices[j])

\* Each of the first answers, as many as the channel holds, that can be told
\* from others is in the list under its key, also if others share its name;
\* the list names the first answer of a key (Lookup).
HeardIsListed ==
    pc = "listed" =>
        \A i \in DOMAIN heard :
            i <= Capacity /\ ~ Keyless(heard[i]) =>
                \E j \in DOMAIN heard, k \in DOMAIN devices :
                    /\ j <= i /\ heard[j] = devices[k]
                    /\ Key(heard[j]) = Key(heard[i])

\* A lookup ends, with a full channel too: nobody waits for a place in it or
\* for an entry (Lookup closes the channel before it takes them out).
LookupEnds == pc = "query" ~> pc \in {"listed", "failed"}

-----------------------------------------------------------------------------
(* The inductive invariant (DiscoveryProofs). *)

DiscoveryTypeOK ==
    /\ pc \in {"query", "drain", "listed", "failed"}
    /\ heard \in Seq(Entries) /\ channel \in Seq(Entries) /\ devices \in Seq(Entries)

\* How many answers found a place, and how many were taken out again.
Kept == IF Len(heard) < Capacity THEN Len(heard) ELSE Capacity
Taken == Kept - Len(channel)

\* The channel holds the kept answers that were not taken, in their order.
ChannelIsRest ==
    /\ Len(channel) <= Kept
    /\ \A i \in 1 .. Len(channel) : channel[i] = heard[Taken + i]

SeenIsListed ==
    /\ \A k \in DOMAIN devices : Key(devices[k]) \in seen
    /\ \A key \in seen : \E k \in DOMAIN devices : Key(devices[k]) = key

\* The key of a taken answer is listed with the first answer that had it.
TakenIsListed ==
    \A i \in 1 .. Taken :
        Keyless(heard[i]) \/ \E j \in 1 .. i, k \in DOMAIN devices :
                                heard[j] = devices[k] /\ Key(heard[j]) = Key(heard[i])

\* What a lookup knows of the answers at each step (FromEntry, Lookup).
DiscoveryInv ==
    /\ DiscoveryTypeOK
    /\ ChannelIsRest
    /\ SeenIsListed
    /\ TakenIsListed
    /\ ListedOnce
    /\ \A k \in DOMAIN devices : \E i \in 1 .. Taken : heard[i] = devices[k]
    /\ pc = "query" => devices = <<>> /\ Taken = 0
    /\ pc = "listed" => channel = <<>> /\ InOrder(devices)
=============================================================================
