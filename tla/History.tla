------------------------------ MODULE History ------------------------------
(***************************************************************************)
(* The ledger of received sessions (internal/history) and `relay history`. *)
(* Every handler takes the time, and later records a row with it; rows are *)
(* listed in the order of the column stored_at, which is text: RFC 3339    *)
(* with a fraction whose trailing zeros are dropped.                       *)
(***************************************************************************)
EXTENDS Integers, Sequences, FiniteSets, Functions

CONSTANTS
    Handlers,   \* requests, in one or more listeners
    Id,         \* Id[h]: the receipt id, a number in the order of the texts
    Base,       \* digits of a fraction are less than Base (10 in the code)
    Places,     \* and this many (9 in the code)
    Weight,     \* Weight[n]: what the digit at place n counts, the second at 0
    MaxTime,    \* bound: the last instant
    Default,    \* the limit when none is given (20 in the code)
    Limits,     \* the limits asked for
    None

ASSUME HistoryAssumption ==
    /\ IsFiniteSet(Handlers)
    /\ Id \in [Handlers -> Nat]
    /\ Base \in Nat \ {0, 1} /\ Places \in Nat \ {0}
    /\ Weight \in [0 .. Places -> Nat \ {0}] /\ Weight[Places] = 1
    /\ \A n \in 1 .. Places : Weight[n - 1] = Base * Weight[n]
    /\ MaxTime \in Nat
    /\ Default \in Nat \ {0}
    /\ Limits \subseteq Int
    /\ None \notin Nat

Ids == {Id[h] : h \in Handlers}

VARIABLES
    now,
    stamp,      \* stamp[h]: StoredAt of the event, or None
    recorded,   \* the handlers whose Record returned
    row,        \* row[id]: stored_at of the row, or None
    listed,     \* the ids of the last listing
    limit,      \* its limit
    rowThen,      \* aux: the rows
    recordedThen  \* and the recorded requests at that moment

listing == <<listed, limit, rowThen, recordedThen>>
vars == <<now, stamp, recorded, row, listing>>

-----------------------------------------------------------------------------
(* formatTime. *)

Second(t) == t \div Weight[0]
Digit(t, n) == (t \div Weight[n]) % Base

\* The last digit of the fraction that is written; 0 if there is no fraction.
LastDigit(t) ==
    CHOOSE n \in 0 .. Places :
        /\ n = 0 \/ Digit(t, n) # 0
        /\ \A m \in n + 1 .. Places : Digit(t, m) = 0

\* In the order of ASCII the point stands before the digits, the Z after them.
Point == -1
Zed == Base

\* Mutant: time.RFC3339 has no fraction.
TextOfSecond(t) == <<Second(t), Zed>>

\* The characters of stored_at; those of the second are one, of equal length.
Text(t) ==
    IF LastDigit(t) = 0 THEN <<Second(t), Zed>>
    ELSE <<Second(t), Point>> \o [n \in 1 .. LastDigit(t) |-> Digit(t, n)] \o <<Zed>>

\* Comparison of two texts, byte by byte.  None is the start of another.
TextLess(a, b) ==
    \E n \in DOMAIN a \cap DOMAIN b :
        a[n] < b[n] /\ \A m \in 1 .. n - 1 : a[m] = b[m]

-----------------------------------------------------------------------------
Init ==
    /\ now = 0
    /\ stamp = [h \in Handlers |-> None]
    /\ recorded = {}
    /\ row = [id \in Ids |-> None]
    /\ listed = <<>> /\ limit = Default
    /\ rowThen = row /\ recordedThen = {}

Tick ==
    /\ now < MaxTime
    /\ now' = now + 1
    /\ UNCHANGED <<stamp, recorded, row, listing>>

\* NewReceivedEvent(..., time.Now()), when the file is stored.
NewReceivedEvent(h) ==
    /\ stamp[h] = None
    /\ stamp' = [stamp EXCEPT ![h] = now]
    /\ UNCHANGED <<now, recorded, row, listing>>

\* INSERT OR REPLACE, in its own time.
Record(h) ==
    /\ stamp[h] # None /\ h \notin recorded
    /\ row' = [row EXCEPT ![Id[h]] = stamp[h]]
    /\ recorded' = recorded \cup {h}
    /\ UNCHANGED <<now, stamp, listing>>

Rows == {id \in Ids : row[id] # None}

\* ORDER BY stored_at DESC, id DESC.
Above(a, b) ==
    \/ TextLess(Text(row[b]), Text(row[a]))
    \/ Text(row[a]) = Text(row[b]) /\ a > b

\* The ids of a set in that order, which is total.
Sorted(ids) ==
    {all \in Bijection(1 .. Cardinality(ids), ids) :
        \A i, j \in DOMAIN all : i < j => Above(all[i], all[j])}

\* LIMIT n.
Cut(n, ids) == IF Cardinality(ids) < n THEN Cardinality(ids) ELSE n

\* Mutant: the rows are sorted after LIMIT took the first of them by id.
ListLimitFirst(asked) ==
    /\ limit' = IF asked <= 0 THEN Default ELSE asked
    /\ \E ids \in SUBSET Rows :
         /\ Cardinality(ids) = Cut(limit', Rows)
         /\ \A a \in ids, b \in Rows \ ids : a < b
         /\ listed' \in Sorted(ids)
    /\ rowThen' = row /\ recordedThen' = recorded
    /\ UNCHANGED <<now, stamp, recorded, row>>

\* One SQL statement; LIMIT cuts the sorted rows.
List(asked) ==
    /\ limit' = IF asked <= 0 THEN Default ELSE asked
    /\ \E all \in Sorted(Rows) : listed' = [n \in 1 .. Cut(limit', Rows) |-> all[n]]
    /\ rowThen' = row /\ recordedThen' = recorded
    /\ UNCHANGED <<now, stamp, recorded, row>>

Next ==
    \/ Tick
    \/ \E h \in Handlers : NewReceivedEvent(h) \/ Record(h)
    \/ \E asked \in Limits : List(asked)

Spec == Init /\ [][Next]_vars

-----------------------------------------------------------------------------
(* Properties. *)

\* b is not newer than a, but for two instants of one second that are written
\* with a different number of digits.
NotNewer(b, a) ==
    \/ b <= a
    \/ Second(b) = Second(a) /\ LastDigit(b) # LastDigit(a)

\* The listing shows the newest first, whatever order the handlers recorded
\* their rows in, exactly down to the second: that its order is the one of
\* texts shows only between instants of the same second (List, formatTime).
NewestFirst ==
    \A i, j \in DOMAIN listed :
        i < j => NotNewer(rowThen[listed[j]], rowThen[listed[i]])

\* Every request recorded before the listing is in it under its id, unless
\* the limit is reached and nothing shown is older, again down to the second.
\* (A request under the same id in a second inbox replaces it: Receive.)
CutIsOlder ==
    \A h \in recordedThen :
        \/ Id[h] \in Range(listed)
        \/ /\ Len(listed) = limit
           /\ \A i \in DOMAIN listed : NotNewer(rowThen[Id[h]], rowThen[listed[i]])

-----------------------------------------------------------------------------
(* The inductive invariant (HistoryProofs). *)

HistoryTypeOK ==
    /\ now \in Nat
    /\ stamp \in [Handlers -> Nat \cup {None}]
    /\ recorded \subseteq Handlers
    /\ row \in [Ids -> Nat \cup {None}]

\* Who recorded a row finds one under its id, and the listing is in order.
HistoryInv ==
    /\ HistoryTypeOK
    /\ \A h \in recorded : row[Id[h]] # None
    /\ NewestFirst
    /\ CutIsOlder
=============================================================================
