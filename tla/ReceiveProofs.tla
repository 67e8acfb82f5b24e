--------------------------- MODULE ReceiveProofs ---------------------------
(***************************************************************************)
(* Proofs about Receive and InboxReaders, for any number of runs,          *)
(* sessions, listeners, inboxes, attempts and reading commands.            *)
(***************************************************************************)
EXTENDS InboxReaders, TLAPS

USE DEF Answer, Active, senderVars, handlerVars, storeVars

-----------------------------------------------------------------------------
(* Types. *)

\* A handler works on an inbox of its listener, under a name of its stem.
LEMMA NameTypes ==
  ASSUME TypeOK, NEW r \in Runs
  PROVE  /\ Box(r) \in Inboxes
         /\ Row(r) \in Rows
         /\ attempt[r] < MaxAttempts => Name(r) \in Ids
<1>1. Box(r) \in Inboxes
  BY ReceiveAssumption DEF TypeOK, Box
<1>2. Row(r) \in Rows
  BY <1>1 DEF TypeOK, Row, Rows
<1>3. ASSUME attempt[r] < MaxAttempts PROVE Name(r) \in Ids
  <2>1. BaseOf[session[r]] \in Bases
    BY DEF TypeOK, Bases
  <2>2. attempt[r] + 1 \in 1 .. MaxAttempts
    BY <1>3, ReceiveAssumption DEF TypeOK
  <2> QED
    BY <2>1, <2>2 DEF Name, Ids
<1> QED
  BY <1>1, <1>2, <1>3

\* Writing one file of one inbox changes that file and no other.
LEMMA OneFileWritten ==
  ASSUME NEW S, NEW f \in [Inboxes -> [Ids -> S]],
         NEW i \in Inboxes, NEW id, NEW c \in S,
         NEW g, g = [f EXCEPT ![i][id] = c]
  PROVE  /\ g \in [Inboxes -> [Ids -> S]]
         /\ \A j \in Inboxes, d \in Ids :
              g[j][d] = IF j = i /\ d = id THEN c ELSE f[j][d]
<1>1. g = [j \in Inboxes |-> IF j = i THEN [f[i] EXCEPT ![id] = c] ELSE f[j]]
  OBVIOUS
<1>2. [f[i] EXCEPT ![id] = c] = [d \in Ids |-> IF d = id THEN c ELSE f[i][d]]
  OBVIOUS
<1>3. [d \in Ids |-> IF d = id THEN c ELSE f[i][d]] \in [Ids -> S]
  OBVIOUS
<1> QED
  BY <1>1, <1>2, <1>3

\* Every variable starts with its type and keeps it, in every step of senders,
\* handlers and listeners.
LEMMA InitTypeOK == Init => TypeOK
  BY ReceiveAssumption DEF Init, TypeOK

LEMMA NextTypeOK == TypeOK /\ [Next]_vars => TypeOK'
<1> SUFFICES ASSUME TypeOK, [Next]_vars PROVE TypeOK'
  OBVIOUS
<1> USE ReceiveAssumption
<1>1. ASSUME NEW r \in Runs, Post(r) PROVE TypeOK'
  BY <1>1 DEF TypeOK, Post
<1>2. ASSUME NEW r \in Runs, PostRefused(r) PROVE TypeOK'
  BY <1>2 DEF TypeOK, PostRefused
<1>3. ASSUME NEW r \in Runs, ReceiveReply(r) PROVE TypeOK'
  BY <1>3 DEF TypeOK, ReceiveReply
<1>4. ASSUME NEW r \in Runs, ConnectionLost(r) PROVE TypeOK'
  BY <1>4 DEF TypeOK, ConnectionLost
<1>5. ASSUME NEW r \in Runs, GiveUp(r) PROVE TypeOK'
  BY <1>5 DEF TypeOK, GiveUp
<1>6. ASSUME NEW r \in Runs, Decode(r) PROVE TypeOK'
  BY <1>6 DEF TypeOK, Decode
<1>7. ASSUME NEW r \in Runs, DecodeFails(r) PROVE TypeOK'
  BY <1>7 DEF TypeOK, DecodeFails
<1>8. ASSUME NEW r \in Runs, Create(r) PROVE TypeOK'
  <2>1. Name(r) \in Ids /\ Box(r) \in Inboxes
    BY <1>8, NameTypes DEF Create
  <2>2. inbox' \in [Inboxes -> [Ids -> Sessions \cup {Absent, Partial}]]
    BY <1>8, <2>1, OneFileWritten, Partial \in Sessions \cup {Absent, Partial}
    DEF TypeOK, Create
  <2> QED
    BY <1>8, <2>1, <2>2 DEF TypeOK, Create
<1>9. ASSUME NEW r \in Runs, NameTaken(r) PROVE TypeOK'
  BY <1>9 DEF TypeOK, NameTaken
<1>10. ASSUME NEW r \in Runs, CreateFails(r) PROVE TypeOK'
  BY <1>10 DEF TypeOK, CreateFails
<1>11. ASSUME NEW r \in Runs, Write(r) PROVE TypeOK'
  <2>1. inbox' \in [Inboxes -> [Ids -> Sessions \cup {Absent, Partial}]]
    BY <1>11, NameTypes, OneFileWritten, session[r] \in Sessions \cup {Absent, Partial}
    DEF TypeOK, Write
  <2>2. handler' \in [Runs -> Active \cup {"none", "done", "killed"}]
    BY <1>11 DEF TypeOK, Write
  <2>3. reply' \in [Runs -> Ids \cup {None, Refused}]
    BY <1>11 DEF TypeOK, Write
  <2> QED
    BY <1>11, <2>1, <2>2, <2>3 DEF TypeOK, Write
<1>12. ASSUME NEW r \in Runs, WriteFails(r) PROVE TypeOK'
  <2>1. PICK c \in {Partial, session[r]} : inbox' = [inbox EXCEPT ![Box(r)][slot[r]] = c]
    BY <1>12 DEF WriteFails
  <2>2. inbox' \in [Inboxes -> [Ids -> Sessions \cup {Absent, Partial}]]
    BY <2>1, NameTypes, OneFileWritten, c \in Sessions \cup {Absent, Partial} DEF TypeOK
  <2> QED
    BY <1>12, <2>2 DEF TypeOK, WriteFails
<1>13. ASSUME NEW r \in Runs, Record(r) PROVE TypeOK'
  BY <1>13, NameTypes DEF TypeOK, Record
<1>14. ASSUME NEW r \in Runs, RecordFails(r) PROVE TypeOK'
  BY <1>14 DEF TypeOK, RecordFails
<1>15. ASSUME NEW l \in Listeners, Stop(l) PROVE TypeOK'
  BY <1>15 DEF TypeOK, Stop
<1>16. ASSUME NEW l \in Listeners, Start(l) PROVE TypeOK'
  BY <1>16 DEF TypeOK, Start
<1>17. CASE UNCHANGED vars
  BY <1>17 DEF TypeOK, vars
<1> QED
  BY <1>1, <1>2, <1>3, <1>4, <1>5, <1>6, <1>7, <1>8, <1>9, <1>10, <1>11, <1>12, <1>13, <1>14, <1>15, <1>16, <1>17 DEF Next, SenderStep, HandlerStep, Answered

\* Type correctness of senders, handlers and stores, whatever fails.
THEOREM Typing == Spec => []TypeOK
  BY InitTypeOK, NextTypeOK, PTL DEF Spec

-----------------------------------------------------------------------------
(* The inductive invariant. *)

\* What a run sends, and where to, is fixed.
LEMMA RequestFixed ==
  ASSUME [Next]_vars
  PROVE  /\ session' = session /\ target' = target
         /\ \A r \in Runs : Box(r)' = Box(r) /\ Row(r)' = Row(r)
<1>1. session' = session /\ target' = target
  BY DEF Next, SenderStep, HandlerStep, Answered, Post, PostRefused, ReceiveReply,
         ConnectionLost, GiveUp, Decode, DecodeFails, Create, NameTaken, CreateFails,
         Write, WriteFails, Record, RecordFails, Stop, Start, vars
<1> QED
  BY <1>1 DEF Box, Row

\* The steps that touch an inbox: a handler creates a file under a name that is
\* free, or fills the file it created itself.
LEMMA FileSteps ==
  ASSUME TypeOK, ProgressInv, [Next]_vars, inbox' # inbox
  PROVE  \E r \in Runs :
           /\ \/ /\ handler[r] = "create"
                 /\ slot' = [slot EXCEPT ![r] = Name(r)]
                 /\ inbox[Box(r)][slot'[r]] = Absent
                 /\ inbox'[Box(r)][slot'[r]] = Partial
              \/ /\ handler[r] = "write" /\ handler'[r] # "write"
                 /\ slot' = slot
                 /\ inbox[Box(r)][slot'[r]] = Partial
                 /\ inbox'[Box(r)][slot'[r]] \in {Partial, session[r]}
           /\ Box(r) \in Inboxes /\ slot'[r] \in Ids
           /\ \A i \in Inboxes, id \in Ids :
                i # Box(r) \/ id # slot'[r] => inbox'[i][id] = inbox[i][id]
<1>1. ASSUME NEW r \in Runs, Create(r)
      PROVE  /\ handler[r] = "create"
             /\ slot' = [slot EXCEPT ![r] = Name(r)]
             /\ inbox[Box(r)][slot'[r]] = Absent
             /\ inbox'[Box(r)][slot'[r]] = Partial
             /\ Box(r) \in Inboxes /\ slot'[r] \in Ids
             /\ \A i \in Inboxes, id \in Ids :
                  i # Box(r) \/ id # slot'[r] => inbox'[i][id] = inbox[i][id]
  <2>1. Name(r) \in Ids /\ Box(r) \in Inboxes
    BY <1>1, NameTypes DEF Create
  <2>2. slot'[r] = Name(r)
    BY <1>1 DEF Create, TypeOK
  <2>3. \A i \in Inboxes, id \in Ids :
          inbox'[i][id] = IF i = Box(r) /\ id = Name(r) THEN Partial ELSE inbox[i][id]
    BY <1>1, <2>1, OneFileWritten, Partial \in Sessions \cup {Absent, Partial}
    DEF TypeOK, Create
  <2> QED
    BY <1>1, <2>1, <2>2, <2>3 DEF Create, Taken
<1>2. ASSUME NEW r \in Runs, Write(r) \/ WriteFails(r)
      PROVE  /\ handler[r] = "write" /\ handler'[r] # "write"
             /\ slot' = slot
             /\ inbox[Box(r)][slot'[r]] = Partial
             /\ inbox'[Box(r)][slot'[r]] \in {Partial, session[r]}
             /\ Box(r) \in Inboxes /\ slot'[r] \in Ids
             /\ \A i \in Inboxes, id \in Ids :
                  i # Box(r) \/ id # slot'[r] => inbox'[i][id] = inbox[i][id]
  <2>1. handler[r] = "write" /\ handler'[r] # "write" /\ slot' = slot
    BY <1>2 DEF Write, WriteFails, TypeOK
  <2>2. PICK c \in {Partial, session[r]} : inbox' = [inbox EXCEPT ![Box(r)][slot[r]] = c]
    BY <1>2 DEF Write, WriteFails
  <2>3. slot[r] \in Ids /\ inbox[Box(r)][slot[r]] = Partial /\ Box(r) \in Inboxes
    BY <2>1, NameTypes DEF ProgressInv, Progress, Holds
  <2>4. \A i \in Inboxes, id \in Ids :
          inbox'[i][id] = IF i = Box(r) /\ id = slot[r] THEN c ELSE inbox[i][id]
    BY <2>2, <2>3, OneFileWritten, c \in Sessions \cup {Absent, Partial} DEF TypeOK
  <2> QED
    BY <2>1, <2>2, <2>3, <2>4
<1>3. \E r \in Runs : Create(r) \/ Write(r) \/ WriteFails(r)
  BY DEF Next, SenderStep, HandlerStep, Answered, Post, PostRefused, ReceiveReply,
         ConnectionLost, GiveUp, Decode, DecodeFails, NameTaken, CreateFails,
         Record, RecordFails, Stop, Start, vars
<1> QED
  BY <1>1, <1>2, <1>3

\* No file disappears, and a file that holds a session keeps it.
LEMMA FilesOnlyGrow ==
  ASSUME TypeOK, ProgressInv, [Next]_vars, NEW i \in Inboxes, NEW id \in Ids
  PROVE  /\ inbox[i][id] # Absent => inbox'[i][id] # Absent
         /\ inbox[i][id] \in Sessions => inbox'[i][id] = inbox[i][id]
<1>1. CASE inbox' = inbox
  BY <1>1
<1>2. CASE inbox' # inbox
  BY <1>2, FileSteps, ReceiveAssumption DEF TypeOK
<1> QED
  BY <1>1, <1>2

\* A name is given to a handler only together with a new file.
LEMMA SlotSteps ==
  ASSUME TypeOK, ProgressInv, [Next]_vars, inbox' = inbox
  PROVE  slot' = slot
<1>1. ASSUME NEW r \in Runs, Create(r) PROVE FALSE
  <2>1. Name(r) \in Ids /\ Box(r) \in Inboxes
    BY <1>1, NameTypes DEF Create
  <2>2. inbox'[Box(r)][Name(r)] = Partial
    BY <1>1, <2>1, OneFileWritten, Partial \in Sessions \cup {Absent, Partial}
    DEF TypeOK, Create
  <2> QED
    BY <1>1, <2>2, ReceiveAssumption DEF Create, Taken
<1> QED
  BY <1>1 DEF Next, SenderStep, HandlerStep, Answered, Post, PostRefused, ReceiveReply,
         ConnectionLost, GiveUp, Decode, DecodeFails, NameTaken, CreateFails,
         Write, WriteFails, Record, RecordFails, Stop, Start, vars

LEMMA NextNamesNotShared ==
  ASSUME TypeOK, ProgressInv, NamesNotShared, [Next]_vars
  PROVE  NamesNotShared'
<1> SUFFICES ASSUME NEW r \in Runs, NEW q \in Runs,
                    slot'[r] # None, slot'[r] = slot'[q], Box(r)' = Box(q)', r # q
             PROVE  FALSE
  BY DEF NamesNotShared
<1>1. Box(r) = Box(q)
  BY RequestFixed
<1>2. inbox' # inbox
  BY <1>1, SlotSteps DEF NamesNotShared
<1>3. PICK p \in Runs : /\ handler[p] = "create"
                         /\ slot' = [slot EXCEPT ![p] = Name(p)]
                         /\ inbox[Box(p)][slot'[p]] = Absent
  BY <1>1, <1>2, FileSteps DEF NamesNotShared
<1>4. \A o \in Runs : o # p => slot'[o] = slot[o]
  BY <1>3 DEF TypeOK
<1>5. \A o \in Runs : slot[o] # None => inbox[Box(o)][slot[o]] # Absent
  BY ReceiveAssumption DEF ProgressInv, Progress, Holds, TypeOK
<1> QED
  BY <1>1, <1>3, <1>4, <1>5 DEF NamesNotShared

LEMMA NextFilesHaveWriters ==
  ASSUME TypeOK, ProgressInv, FilesHaveWriters, [Next]_vars
  PROVE  FilesHaveWriters'
<1> SUFFICES ASSUME NEW i \in Inboxes, NEW id \in Ids, inbox'[i][id] # Absent
             PROVE  \E r \in Runs : Box(r) = i /\ slot'[r] = id
  BY RequestFixed DEF FilesHaveWriters
<1>1. CASE inbox' = inbox
  BY <1>1, SlotSteps DEF FilesHaveWriters
<1>2. CASE inbox' # inbox
  <2>1. PICK p \in Runs :
          /\ \/ handler[p] = "create" /\ slot' = [slot EXCEPT ![p] = Name(p)]
             \/ slot' = slot
          /\ \A j \in Inboxes, d \in Ids :
               j # Box(p) \/ d # slot'[p] => inbox'[j][d] = inbox[j][d]
    BY <1>2, FileSteps
  <2>2. CASE i = Box(p) /\ id = slot'[p]
    BY <2>2
  <2>3. CASE ~ (i = Box(p) /\ id = slot'[p])
    <3>1. PICK r \in Runs : Box(r) = i /\ slot[r] = id
      BY <2>1, <2>3 DEF FilesHaveWriters
    <3>2. slot[r] # None
      BY <3>1, ReceiveAssumption
    <3>3. slot'[r] = slot[r]
      BY <2>1, <3>2 DEF TypeOK, ProgressInv, Progress
    <3> QED
      BY <3>1, <3>3
  <2> QED
    BY <2>2, <2>3
<1> QED
  BY <1>1, <1>2

LEMMA NextNamesTried ==
  ASSUME TypeOK, ProgressInv, NamesTried, [Next]_vars
  PROVE  NamesTried'
<1> SUFFICES ASSUME NEW r \in Runs, NEW k \in 1 .. attempt'[r]
             PROVE  inbox'[Box(r)][<<BaseOf[session[r]], k>>] # Absent
  BY RequestFixed DEF NamesTried, Taken
<1>1. k \in 1 .. MaxAttempts
  BY NextTypeOK, ReceiveAssumption DEF TypeOK
<1>2. Box(r) \in Inboxes /\ <<BaseOf[session[r]], k>> \in Ids
  BY <1>1, NameTypes DEF TypeOK, Ids, Bases
<1>3. attempt'[r] = attempt[r] \/ NameTaken(r)
  BY DEF TypeOK, Next, SenderStep, HandlerStep, Answered, Post, PostRefused, ReceiveReply,
         ConnectionLost, GiveUp, Decode, DecodeFails, Create, NameTaken, CreateFails,
         Write, WriteFails, Record, RecordFails, Stop, Start, vars
<1>4. inbox[Box(r)][<<BaseOf[session[r]], k>>] # Absent
  <2>1. CASE attempt'[r] = attempt[r]
    BY <2>1 DEF NamesTried, Taken
  <2>2. CASE NameTaken(r)
    <3>1. attempt[r] \in Nat /\ attempt'[r] = attempt[r] + 1 /\ Taken(Box(r), Name(r))
      BY <2>2 DEF NameTaken, TypeOK
    <3>2. k \in 1 .. attempt[r] \/ k = attempt[r] + 1
      BY <3>1
    <3> QED
      BY <3>1, <3>2 DEF NamesTried, Taken, Name
  <2> QED
    BY <1>3, <2>1, <2>2
<1> QED
  BY <1>2, <1>4, FilesOnlyGrow

\* The file of a run changes in no step but the one that fills it.
LEMMA OwnFile ==
  ASSUME TypeOK, ProgressInv, NamesNotShared, [Next]_vars,
         NEW r \in Runs, slot[r] # None
  PROVE  /\ slot'[r] = slot[r]
         /\ Box(r) \in Inboxes /\ slot[r] \in Ids
         /\ handler[r] # "write" \/ handler'[r] = "write" =>
              inbox'[Box(r)][slot[r]] = inbox[Box(r)][slot[r]]
         /\ inbox'[Box(r)][slot[r]] \in {Partial, session[r]}
<1>1. /\ Box(r) \in Inboxes /\ slot[r] \in Ids
      /\ inbox[Box(r)][slot[r]] \in {Partial, session[r]}
  BY NameTypes DEF ProgressInv, Progress, Holds
<1>2. CASE inbox' = inbox
  BY <1>1, <1>2, SlotSteps
<1>3. CASE inbox' # inbox
  <2>1. PICK p \in Runs :
           /\ \/ /\ handler[p] = "create"
                 /\ slot' = [slot EXCEPT ![p] = Name(p)]
                 /\ inbox[Box(p)][slot'[p]] = Absent
              \/ /\ handler[p] = "write" /\ handler'[p] # "write"
                 /\ slot' = slot
                 /\ inbox'[Box(p)][slot'[p]] \in {Partial, session[p]}
           /\ \A i \in Inboxes, id \in Ids :
                i # Box(p) \/ id # slot'[p] => inbox'[i][id] = inbox[i][id]
    BY <1>3, FileSteps
  <2>2. handler[r] # "create"
    BY DEF ProgressInv, Progress
  <2>3. slot'[r] = slot[r]
    BY <2>1, <2>2 DEF TypeOK
  <2>4. CASE p = r
    BY <1>1, <2>1, <2>2, <2>3, <2>4
  <2>5. CASE p # r
    <3>1. ~ (Box(r) = Box(p) /\ slot[r] = slot'[p])
      <4>1. CASE slot' = slot
        BY <2>5, <4>1 DEF NamesNotShared
      <4>2. CASE inbox[Box(p)][slot'[p]] = Absent
        BY <1>1, <4>2, ReceiveAssumption DEF TypeOK
      <4> QED
        BY <2>1, <4>1, <4>2
    <3> QED
      BY <1>1, <2>1, <2>3, <3>1
  <2> QED
    BY <2>4, <2>5
<1> QED
  BY <1>2, <1>3

\* A run stays as it is while others move, or when its listener dies.
LEMMA ProgressKept ==
  ASSUME TypeOK, ProgressInv, NamesNotShared, [Next]_vars, NEW r \in Runs,
         sender'[r] = sender[r], told'[r] = told[r], reply'[r] = reply[r],
         slot'[r] = slot[r],
         \/ handler'[r] = handler[r]
         \/ handler[r] \in Active /\ handler'[r] = "killed"
  PROVE  Progress(r)'
<1>1. CASE slot[r] = None
  BY <1>1, ReceiveAssumption DEF ProgressInv, Progress, Holds
<1>2. CASE slot[r] # None
  <2>1. Box(r)' = Box(r) /\ session' = session
    BY RequestFixed
  <2>2. Progress(r)
    BY DEF ProgressInv
  <2> QED
    BY <1>2, <2>1, <2>2, OwnFile DEF Progress, Holds
<1> QED
  BY <1>1, <1>2

LEMMA NextProgress ==
  ASSUME TypeOK, ProgressInv, NamesNotShared, [Next]_vars
  PROVE  ProgressInv'
<1> SUFFICES ASSUME NEW r \in Runs PROVE Progress(r)'
  BY DEF ProgressInv
<1> USE ReceiveAssumption
<1>0. /\ Progress(r)
      /\ Box(r)' = Box(r) /\ session' = session
      /\ slot[r] \in Ids => slot[r] # None
      /\ reply[r] \in Ids => reply[r] # None
  BY RequestFixed DEF ProgressInv
<1>1. ASSUME NEW q \in Runs, Post(q) PROVE Progress(r)'
  <2>1. CASE q = r
    BY <1>0, <1>1, <2>1 DEF Post, Progress, Holds, TypeOK
  <2>2. CASE q # r
    BY <1>1, <2>2, ProgressKept DEF Post, TypeOK
  <2> QED
    BY <2>1, <2>2
<1>2. ASSUME NEW q \in Runs, PostRefused(q) PROVE Progress(r)'
  <2>1. CASE q = r
    BY <1>0, <1>2, <2>1 DEF PostRefused, Progress, Holds, TypeOK
  <2>2. CASE q # r
    BY <1>2, <2>2, ProgressKept DEF PostRefused, TypeOK
  <2> QED
    BY <2>1, <2>2
<1>3. ASSUME NEW q \in Runs, ReceiveReply(q) PROVE Progress(r)'
  <2>1. CASE q = r
    BY <1>0, <1>3, <2>1 DEF ReceiveReply, Progress, Holds, TypeOK
  <2>2. CASE q # r
    BY <1>3, <2>2, ProgressKept DEF ReceiveReply, TypeOK
  <2> QED
    BY <2>1, <2>2
<1>4. ASSUME NEW q \in Runs, ConnectionLost(q) PROVE Progress(r)'
  <2>1. CASE q = r
    BY <1>0, <1>4, <2>1 DEF ConnectionLost, Progress, Holds, TypeOK
  <2>2. CASE q # r
    BY <1>4, <2>2, ProgressKept DEF ConnectionLost, TypeOK
  <2> QED
    BY <2>1, <2>2
<1>5. ASSUME NEW q \in Runs, GiveUp(q) PROVE Progress(r)'
  <2>1. CASE q = r
    BY <1>0, <1>5, <2>1 DEF GiveUp, Progress, Holds, TypeOK
  <2>2. CASE q # r
    BY <1>5, <2>2, ProgressKept DEF GiveUp, TypeOK
  <2> QED
    BY <2>1, <2>2
<1>6. ASSUME NEW q \in Runs, Decode(q) PROVE Progress(r)'
  <2>1. CASE q = r
    BY <1>0, <1>6, <2>1 DEF Decode, Progress, Holds, TypeOK
  <2>2. CASE q # r
    BY <1>6, <2>2, ProgressKept DEF Decode, TypeOK
  <2> QED
    BY <2>1, <2>2
<1>7. ASSUME NEW q \in Runs, DecodeFails(q) PROVE Progress(r)'
  <2>1. CASE q = r
    BY <1>0, <1>7, <2>1 DEF DecodeFails, Progress, Holds, TypeOK
  <2>2. CASE q # r
    BY <1>7, <2>2, ProgressKept DEF DecodeFails, TypeOK
  <2> QED
    BY <2>1, <2>2
<1>8. ASSUME NEW q \in Runs, Create(q) PROVE Progress(r)'
  <2>1. CASE q = r
    <3>1. slot'[r] = Name(r) /\ Name(r) \in Ids /\ Box(r) \in Inboxes
      BY <1>8, <2>1, NameTypes DEF Create, TypeOK
    <3>2. inbox'[Box(r)][Name(r)] = Partial
      BY <1>8, <2>1, <3>1, OneFileWritten, Partial \in Sessions \cup {Absent, Partial}
      DEF Create, TypeOK
    <3> QED
      BY <1>0, <1>8, <2>1, <3>1, <3>2 DEF Create, Progress, Holds, TypeOK
  <2>2. CASE q # r
    BY <1>8, <2>2, ProgressKept DEF Create, TypeOK
  <2> QED
    BY <2>1, <2>2
<1>9. ASSUME NEW q \in Runs, NameTaken(q) PROVE Progress(r)'
  <2>1. CASE q = r
    BY <1>0, <1>9, <2>1 DEF NameTaken, Progress, Holds, TypeOK
  <2>2. CASE q # r
    BY <1>9, <2>2, ProgressKept DEF NameTaken, TypeOK
  <2> QED
    BY <2>1, <2>2
<1>10. ASSUME NEW q \in Runs, CreateFails(q) PROVE Progress(r)'
  <2>1. CASE q = r
    BY <1>0, <1>10, <2>1 DEF CreateFails, Progress, Holds, TypeOK
  <2>2. CASE q # r
    BY <1>10, <2>2, ProgressKept DEF CreateFails, TypeOK
  <2> QED
    BY <2>1, <2>2
<1>11. ASSUME NEW q \in Runs, Write(q) PROVE Progress(r)'
  <2>1. CASE q = r
    <3>1. Holds(r, {Partial}) /\ slot[r] # None /\ Box(r) \in Inboxes
      BY <1>0, <1>11, <2>1, NameTypes DEF Write, Progress, Holds
    <3>2. inbox'[Box(r)][slot[r]] = session[r]
      BY <1>11, <2>1, <3>1, OneFileWritten, session[r] \in Sessions \cup {Absent, Partial}
      DEF Write, TypeOK, Holds
    <3>3. Holds(r, {session[r]})'
      BY <1>0, <1>11, <2>1, <3>1, <3>2 DEF Write, Holds
    <3>4. handler'[r] = "done" \/ (handler'[r] = "record" /\ Recording)
      BY <1>11, <2>1 DEF Write, TypeOK
    <3>5. reply'[r] # None => handler'[r] = "done" /\ reply'[r] = slot'[r]
      BY <1>0, <1>11, <2>1 DEF Write, TypeOK, Progress
    <3>6. sender' = sender /\ told' = told /\ sender[r] # "receipt" /\ sender[r] # "idle"
      BY <1>0, <1>11, <2>1 DEF Write, Progress
    <3> QED
      BY <1>0, <3>3, <3>4, <3>5, <3>6 DEF Progress, Holds
  <2>2. CASE q # r
    BY <1>11, <2>2, ProgressKept DEF Write, TypeOK
  <2> QED
    BY <2>1, <2>2
<1>12. ASSUME NEW q \in Runs, WriteFails(q) PROVE Progress(r)'
  <2>1. CASE q = r
    <3>1. Holds(r, {Partial}) /\ slot[r] # None
      BY <1>0, <1>12, <2>1 DEF WriteFails, Progress, Holds
    <3>2. Holds(r, {Partial, session[r]})'
      BY <1>0, <1>12, <2>1, <3>1, OwnFile DEF WriteFails, Holds
    <3> QED
      BY <1>0, <1>12, <2>1, <3>1, <3>2 DEF WriteFails, Progress, TypeOK
  <2>2. CASE q # r
    BY <1>12, <2>2, ProgressKept DEF WriteFails, TypeOK
  <2> QED
    BY <2>1, <2>2
<1>13. ASSUME NEW q \in Runs, Record(q) PROVE Progress(r)'
  <2>1. CASE q = r
    BY <1>0, <1>13, <2>1 DEF Record, Progress, Holds, TypeOK
  <2>2. CASE q # r
    BY <1>13, <2>2, ProgressKept DEF Record, TypeOK
  <2> QED
    BY <2>1, <2>2
<1>14. ASSUME NEW q \in Runs, RecordFails(q) PROVE Progress(r)'
  <2>1. CASE q = r
    BY <1>0, <1>14, <2>1 DEF RecordFails, Progress, Holds, TypeOK
  <2>2. CASE q # r
    BY <1>14, <2>2, ProgressKept DEF RecordFails, TypeOK
  <2> QED
    BY <2>1, <2>2
<1>15. ASSUME NEW l \in Listeners, Stop(l) PROVE Progress(r)'
  BY <1>15, ProgressKept DEF Stop, TypeOK
<1>16. ASSUME NEW l \in Listeners, Start(l) PROVE Progress(r)'
  BY <1>16, ProgressKept DEF Start
<1>17. CASE UNCHANGED vars
  BY <1>17, ProgressKept DEF vars
<1> QED
  BY <1>1, <1>2, <1>3, <1>4, <1>5, <1>6, <1>7, <1>8, <1>9, <1>10, <1>11, <1>12, <1>13, <1>14, <1>15, <1>16, <1>17 DEF Next, SenderStep, HandlerStep, Answered

LEMMA NextHistoryRowsHaveFiles ==
  ASSUME TypeOK, ProgressInv, HistoryRowsHaveFiles, [Next]_vars
  PROVE  HistoryRowsHaveFiles'
<1> SUFFICES ASSUME NEW id \in Ids, history'[id] # None
             PROVE  inbox'[history'[id].inbox][id] = history'[id].session
  BY DEF HistoryRowsHaveFiles
<1>1. CASE history'[id] = history[id]
  <2>1. history[id].inbox \in Inboxes /\ history[id].session \in Sessions
    BY <1>1 DEF TypeOK, Rows
  <2>2. inbox[history[id].inbox][id] = history[id].session
    BY <1>1 DEF HistoryRowsHaveFiles
  <2> QED
    BY <1>1, <2>1, <2>2, FilesOnlyGrow
<1>2. ASSUME NEW r \in Runs, Record(r), history'[id] # history[id]
      PROVE  inbox'[history'[id].inbox][id] = history'[id].session
  <2>1. id = slot[r] /\ history'[id] = Row(r) /\ inbox' = inbox
    BY <1>2 DEF Record, TypeOK
  <2>2. inbox[Box(r)][slot[r]] = session[r]
    BY <1>2 DEF Record, ProgressInv, Progress, Holds
  <2> QED
    BY <2>1, <2>2 DEF Row
<1>3. history' = history \/ \E r \in Runs : Record(r)
  BY DEF Next, SenderStep, HandlerStep, Answered, Post, PostRefused, ReceiveReply,
         ConnectionLost, GiveUp, Decode, DecodeFails, Create, NameTaken, CreateFails,
         Write, WriteFails, RecordFails, Stop, Start, vars
<1> QED
  BY <1>1, <1>2, <1>3

\* A file that is delivered stays so.
LEMMA PlacedStays ==
  ASSUME TypeOK, ProgressInv, NamesNotShared, [Next]_vars, NEW r \in Runs, Placed(r)
  PROVE  Placed(r)'
BY OwnFile, FilesOnlyGrow, RequestFixed DEF Placed

\* A request that is neither too long nor abandoned is refused in two ways only.
LEMMA NewRefusal ==
  ASSUME TypeOK, ProgressInv, [Next]_vars, ~ IOFaults,
         NEW r \in Runs, reply'[r] = Refused, reply[r] # Refused,
         session[r] \notin Oversized, sender'[r] # "gaveUp"
  PROVE  CreateFails(r) \/ (RecordFails(r) /\ Busy(r))
<1>1. sender[r] # "gaveUp"
  BY DEF TypeOK, Next, SenderStep, HandlerStep, Answered, Post, PostRefused, ReceiveReply,
         ConnectionLost, GiveUp, Decode, DecodeFails, Create, NameTaken, CreateFails,
         Write, WriteFails, Record, RecordFails, Stop, Start, vars
<1>2. ASSUME NEW q \in Runs, Write(q), reply'[r] # reply[r] PROVE FALSE
  <2>1. q = r /\ reply'[r] = slot[r] /\ slot[r] \in Ids
    BY <1>2, ReceiveAssumption DEF Write, TypeOK, ProgressInv, Progress, Holds
  <2> QED
    BY <2>1, ReceiveAssumption
<1>3. ASSUME NEW q \in Runs, Record(q), reply'[r] # reply[r] PROVE FALSE
  <2>1. q = r /\ reply'[r] = slot[r] /\ slot[r] \in Ids
    BY <1>3, ReceiveAssumption DEF Record, TypeOK, ProgressInv, Progress, Holds
  <2> QED
    BY <2>1, ReceiveAssumption
<1>4. ASSUME NEW q \in Runs, RecordFails(q), reply'[r] # reply[r] PROVE RecordFails(r) /\ Busy(r)
  <2>1. q = r
    BY <1>4 DEF RecordFails, TypeOK
  <2> QED
    BY <1>1, <1>4, <2>1 DEF RecordFails, ContextCancelled
<1> QED
  BY <1>1, <1>2, <1>3, <1>4
  DEF TypeOK, Next, SenderStep, HandlerStep, Answered, Post, PostRefused, ReceiveReply,
      ConnectionLost, GiveUp, Decode, DecodeFails, Create, NameTaken, CreateFails,
      WriteFails, Stop, Start, ContextCancelled, vars

LEMMA NextNoSpuriousRefusal ==
  ASSUME TypeOK, ProgressInv, NamesNotShared, NamesTried, NoSpuriousRefusal, [Next]_vars
  PROVE  NoSpuriousRefusal'
<1> DEFINE NoName(r) == /\ slot[r] = None
                        /\ \A k \in 1 .. MaxAttempts : Taken(Box(r), <<BaseOf[session[r]], k>>)
           Locked(r) == Recording /\ Placed(r) /\ \E q \in Runs \ {r} : Placed(q)
<1> SUFFICES ASSUME NEW r \in Runs, ~ IOFaults, reply'[r] = Refused,
                    session[r] \notin Oversized, sender'[r] # "gaveUp"
             PROVE  NoName(r)' \/ Locked(r)'
  BY RequestFixed DEF NoSpuriousRefusal, ContextCancelled
<1>1. ASSUME NoName(r), slot'[r] = None PROVE NoName(r)'
  <2> SUFFICES ASSUME NEW k \in 1 .. MaxAttempts
               PROVE  inbox'[Box(r)][<<BaseOf[session[r]], k>>] # Absent
    BY <1>1, RequestFixed DEF Taken
  <2>1. Box(r) \in Inboxes /\ <<BaseOf[session[r]], k>> \in Ids
    BY NameTypes DEF TypeOK, Ids, Bases
  <2> QED
    BY <1>1, <2>1, FilesOnlyGrow DEF Taken
<1>2. Locked(r) => Locked(r)'
  BY PlacedStays
<1>3. CASE reply[r] = Refused
  <2>1. sender[r] # "gaveUp"
    BY DEF TypeOK, Next, SenderStep, HandlerStep, Answered, Post, PostRefused, ReceiveReply,
           ConnectionLost, GiveUp, Decode, DecodeFails, Create, NameTaken, CreateFails,
           Write, WriteFails, Record, RecordFails, Stop, Start, vars
  <2>2. NoName(r) \/ Locked(r)
    BY <1>3, <2>1 DEF NoSpuriousRefusal, ContextCancelled
  <2>3. handler[r] = "done"
    BY <1>3, ReceiveAssumption DEF ProgressInv, Progress
  <2>4. slot'[r] = slot[r]
    <3>1. CASE slot' = slot
      BY <3>1
    <3>2. CASE inbox' # inbox
      BY <2>3, <3>2, FileSteps DEF TypeOK
    <3> QED
      BY <3>1, <3>2, SlotSteps
  <2> QED
    BY <1>1, <1>2, <2>2, <2>4
<1>4. CASE CreateFails(r)
  <2>1. attempt[r] = MaxAttempts /\ slot'[r] = None
    BY <1>4 DEF CreateFails, ProgressInv, Progress
  <2>2. NoName(r)
    BY <1>4, <2>1 DEF CreateFails, NamesTried
  <2> QED
    BY <1>1, <2>1, <2>2
<1>5. CASE RecordFails(r) /\ Busy(r)
  <2>1. PICK q \in Runs \ {r} : handler[q] = "record"
    BY <1>5 DEF Busy
  <2>2. \A p \in {q, r} : Placed(p)
    BY <1>5, <2>1, ReceiveAssumption
    DEF RecordFails, Placed, ProgressInv, Progress, Holds, TypeOK
  <2>3. Recording
    BY <2>1 DEF ProgressInv, Progress
  <2> QED
    BY <1>2, <2>1, <2>2, <2>3
<1> QED
  BY <1>3, <1>4, <1>5, NewRefusal

LEMMA InitReceiveInv == Init => ReceiveInv
<1> SUFFICES ASSUME Init PROVE ReceiveInv
  OBVIOUS
<1>1. TypeOK
  BY InitTypeOK
<1>2. ProgressInv
  BY ReceiveAssumption DEF Init, ProgressInv, Progress, Holds
<1>3. NamesNotShared
  BY DEF Init, NamesNotShared
<1>4. FilesHaveWriters /\ HistoryRowsHaveFiles
  BY DEF Init, FilesHaveWriters, HistoryRowsHaveFiles
<1>5. NamesTried
  BY DEF Init, NamesTried
<1>6. NoSpuriousRefusal
  BY ReceiveAssumption DEF Init, NoSpuriousRefusal
<1> QED
  BY <1>1, <1>2, <1>3, <1>4, <1>5, <1>6 DEF ReceiveInv

LEMMA NextReceiveInv == ReceiveInv /\ [Next]_vars => ReceiveInv'
  BY NextTypeOK, NextProgress, NextNamesNotShared, NextFilesHaveWriters, NextNamesTried,
     NextHistoryRowsHaveFiles, NextNoSpuriousRefusal DEF ReceiveInv

-----------------------------------------------------------------------------
(* What the invariant gives. *)

\* The inductive invariant holds in every reachable state.
THEOREM Invariance == Spec => []ReceiveInv
  BY InitReceiveInv, NextReceiveInv, PTL DEF Spec

\* A printed receipt names a file with exactly the session that was sent.
THEOREM ReceiptsAreTrue == Spec => []ReceiptMeansStored
<1>1. ReceiveInv => ReceiptMeansStored
  BY ReceiveAssumption
  DEF ReceiveInv, ProgressInv, Progress, Holds, ReceiptMeansStored
<1> QED
  BY <1>1, Invariance, PTL

\* Every file has the one run that created it, and only its content.
THEOREM FilesHaveOneWriter == Spec => []EveryFileHasOneWriter
<1>1. ReceiveInv => EveryFileHasOneWriter
  BY ReceiveAssumption
  DEF ReceiveInv, ProgressInv, Progress, Holds, NamesNotShared, FilesHaveWriters,
      EveryFileHasOneWriter
<1> QED
  BY <1>1, Invariance, PTL

\* The history never names a session that its inbox does not hold.
THEOREM HistoryIsBacked == Spec => []HistoryRowsHaveFiles
<1>1. ReceiveInv => HistoryRowsHaveFiles
  BY DEF ReceiveInv
<1> QED
  BY <1>1, Invariance, PTL

\* Every refusal without an I/O error has one of its four causes.
THEOREM RefusalsHaveCauses == Spec => []NoSpuriousRefusal
<1>1. ReceiveInv => NoSpuriousRefusal
  BY DEF ReceiveInv
<1> QED
  BY <1>1, Invariance, PTL

\* No step changes a session that reached an inbox.
THEOREM StoredSessionsStay == Spec => StoredImmutable
<1>1. ReceiveInv /\ [Next]_vars =>
        [\A i \in Inboxes, id \in Ids :
           inbox[i][id] \in Sessions => inbox'[i][id] = inbox[i][id]]_vars
  BY FilesOnlyGrow DEF ReceiveInv
<1> QED
  BY <1>1, Invariance, PTL DEF Spec, StoredImmutable

-----------------------------------------------------------------------------
(* The ledger of one inbox. *)

Recorded ==
    Recording => \A r \in Runs : reply[r] \in Ids => history[reply[r]] = Row(r)

\* When all listeners serve one inbox, a receipt also means that the history
\* has the session's own row, for good.
THEOREM ReceiptsAreRecorded ==
  ASSUME \A l, k \in Listeners : InboxOf[l] = InboxOf[k]
  PROVE  Spec => []ReceiptMeansRecorded
<1>1. Init => Recorded
  BY ReceiveAssumption DEF Init, Recorded
<1>2. ReceiveInv /\ Recorded /\ [Next]_vars => Recorded'
  <2> SUFFICES ASSUME ReceiveInv, Recorded, [Next]_vars, Recording,
                      NEW r \in Runs, reply'[r] \in Ids
               PROVE  history'[reply'[r]] = Row(r)
    BY RequestFixed DEF Recorded
  <2> USE DEF ReceiveInv
  <2>1. ASSUME NEW q \in Runs, Record(q) PROVE history'[reply'[r]] = Row(r)
    <3>1. slot[q] \in Ids /\ slot[q] # None
      BY <2>1, ReceiveAssumption DEF Record, ProgressInv, Progress, Holds
    <3>2. CASE q = r
      BY <2>1, <3>1, <3>2 DEF Record, TypeOK
    <3>3. CASE q # r
      <4>1. reply'[r] = reply[r] /\ reply[r] = slot[r]
        BY <2>1, <3>3 DEF Record, TypeOK, ProgressInv, Progress
      <4>2. Box(q) = Box(r)
        BY DEF TypeOK, Box
      <4>3. slot[r] # slot[q]
        BY <3>1, <3>3, <4>2 DEF NamesNotShared
      <4> QED
        BY <2>1, <4>1, <4>3 DEF Record, TypeOK, Recorded
    <3> QED
      BY <3>2, <3>3
  <2>2. ASSUME \A q \in Runs : ~ Record(q) PROVE history' = history /\ reply'[r] = reply[r]
    BY <2>2, ReceiveAssumption
    DEF TypeOK, Next, SenderStep, HandlerStep, Answered, Post, PostRefused, ReceiveReply,
        ConnectionLost, GiveUp, Decode, DecodeFails, Create, NameTaken, CreateFails,
        Write, WriteFails, RecordFails, Stop, Start, vars
  <2> QED
    BY <2>1, <2>2 DEF Recorded
<1>3. ReceiveInv /\ Recorded => ReceiptMeansRecorded
  BY DEF ReceiveInv, ProgressInv, Progress, Recorded, ReceiptMeansRecorded
<1> QED
  BY <1>1, <1>2, <1>3, Invariance, PTL DEF Spec

\* A row came from a handler that has left the name in the row's inbox alone
\* ever since: nobody will record under that name there again.
Settled ==
    \A id \in Ids :
        history[id] # None =>
            \E r \in Runs : /\ Box(r) = history[id].inbox /\ slot[r] = id
                            /\ handler[r] \in {"done", "killed"}

\* A handler that ended keeps its name and stays ended.
LEMMA EndedStays ==
  ASSUME ReceiveInv, [Next]_vars, NEW r \in Runs,
         slot[r] # None, handler[r] \in {"done", "killed"}
  PROVE  slot'[r] = slot[r] /\ handler'[r] = handler[r] /\ Box(r)' = Box(r)
<1>1. slot'[r] = slot[r] /\ Box(r)' = Box(r)
  BY OwnFile, RequestFixed DEF ReceiveInv
<1>2. ASSUME NEW q \in Runs, Post(q) PROVE handler'[r] = handler[r]
  BY <1>2 DEF Post, ReceiveInv, ProgressInv, Progress, TypeOK
<1>3. ASSUME \A q \in Runs : ~ Post(q) PROVE handler'[r] = handler[r]
  BY <1>3
  DEF ReceiveInv, TypeOK, Next, SenderStep, HandlerStep, Answered, PostRefused, ReceiveReply,
      ConnectionLost, GiveUp, Decode, DecodeFails, Create, NameTaken, CreateFails,
      Write, WriteFails, Record, RecordFails, Stop, Start, vars
<1> QED
  BY <1>1, <1>2, <1>3

LEMMA RecordedBySomeone ==
  ASSUME ReceiveInv, [Next]_vars, NEW id \in Ids, history'[id] # history[id]
  PROVE  \E r \in Runs : /\ handler[r] = "record" /\ slot[r] = id
                         /\ history'[id] = Row(r) /\ Record(r)
<1>1. ASSUME \A q \in Runs : ~ Record(q) PROVE history' = history
  BY <1>1
  DEF Next, SenderStep, HandlerStep, Answered, Post, PostRefused, ReceiveReply,
      ConnectionLost, GiveUp, Decode, DecodeFails, Create, NameTaken, CreateFails,
      Write, WriteFails, RecordFails, Stop, Start, vars
<1>2. PICK r \in Runs : Record(r)
  BY <1>1
<1> QED
  BY <1>2 DEF Record, ReceiveInv, TypeOK

\* A row of the ledger is only ever replaced by a row of another inbox: within
\* one inbox a name, and with it the primary key, is given out once.
LEMMA ReplacedFromElsewhere ==
  ASSUME ReceiveInv, Settled, [Next]_vars,
         NEW id \in Ids, history[id] # None, history'[id] # history[id]
  PROVE  history'[id].inbox # history[id].inbox
<1>1. PICK r \in Runs : handler[r] = "record" /\ slot[r] = id /\ history'[id] = Row(r)
  BY RecordedBySomeone
<1>2. PICK q \in Runs : /\ Box(q) = history[id].inbox /\ slot[q] = id
                        /\ handler[q] \in {"done", "killed"}
  BY DEF Settled
<1>3. q # r /\ slot[r] # None
  BY <1>1, <1>2, ReceiveAssumption DEF Ids
<1>4. Box(q) # Box(r)
  BY <1>1, <1>2, <1>3 DEF ReceiveInv, NamesNotShared
<1> QED
  BY <1>1, <1>2, <1>4 DEF Row

LEMMA NextSettled == ReceiveInv /\ Settled /\ [Next]_vars => Settled'
<1> SUFFICES ASSUME ReceiveInv, Settled, [Next]_vars, NEW id \in Ids, history'[id] # None
             PROVE  \E r \in Runs : /\ Box(r)' = history'[id].inbox /\ slot'[r] = id
                                    /\ handler'[r] \in {"done", "killed"}
  BY DEF Settled
<1>0. None \notin Ids
  BY ReceiveAssumption
<1>1. CASE history'[id] = history[id]
  <2>1. PICK q \in Runs : /\ Box(q) = history[id].inbox /\ slot[q] = id
                          /\ handler[q] \in {"done", "killed"}
    BY <1>1 DEF Settled
  <2>2. slot'[q] = slot[q] /\ handler'[q] = handler[q] /\ Box(q)' = Box(q)
    BY <1>0, <2>1, EndedStays
  <2> QED
    BY <1>1, <2>1, <2>2
<1>2. CASE history'[id] # history[id]
  <2>1. PICK r \in Runs : slot[r] = id /\ history'[id] = Row(r) /\ Record(r)
    BY <1>2, RecordedBySomeone
  <2>2. slot'[r] = id /\ handler'[r] = "done"
    BY <2>1 DEF Record, ReceiveInv, TypeOK
  <2>3. Box(r)' = Box(r)
    BY RequestFixed
  <2> QED
    BY <2>1, <2>2, <2>3 DEF Row
<1> QED
  BY <1>1, <1>2

\* When all listeners use one inbox the ledger keeps every row it committed
\* (Store.Record, http.go's O_EXCL): the promise of README.md:31 that a shared
\* database breaks for listeners with inboxes of their own.
THEOREM OneInboxKeepsRows ==
  ASSUME \A l, k \in Listeners : InboxOf[l] = InboxOf[k]
  PROVE  Spec => HistoryDurable
<1>1. Init => Settled
  BY DEF Init, Settled
<1>2. ReceiveInv /\ Settled /\ [Next]_vars =>
        [\A id \in Ids : history[id] # None => history'[id] = history[id]]_vars
  <2> SUFFICES ASSUME ReceiveInv, Settled, [Next]_vars, NEW id \in Ids,
                      history[id] # None, history'[id] # history[id]
               PROVE  FALSE
    OBVIOUS
  <2>1. PICK r \in Runs : history'[id] = Row(r)
    BY RecordedBySomeone
  <2>2. PICK q \in Runs : Box(q) = history[id].inbox
    BY DEF Settled
  <2>3. Box(r) = Box(q)
    BY DEF Box, ReceiveInv, TypeOK
  <2>4. history'[id].inbox # history[id].inbox
    BY ReplacedFromElsewhere
  <2> QED
    BY <2>1, <2>2, <2>3, <2>4 DEF Row
<1> QED
  BY <1>1, <1>2, NextSettled, Invariance, PTL DEF Spec, HistoryDurable

-----------------------------------------------------------------------------
(* Receive implements Mailbox. *)

LEMMA InitMailbox == Init => M!Init
<1> SUFFICES ASSUME Init PROVE M!Init
  OBVIOUS
<1>1. Delivered = [i \in Inboxes |-> [id \in Ids |-> Absent]]
  BY DEF Init, Delivered
<1>2. Places = [r \in Runs |-> None]
  BY DEF Init, Places, Placed
<1> QED
  BY <1>1, <1>2 DEF Init, M!Init

\* A step that gives no file its last byte leaves box and place alone.
LEMMA NothingDelivered ==
  ASSUME ReceiveInv, [Next]_vars,
         \A i \in Inboxes, id \in Ids :
            inbox[i][id] \notin Sessions => inbox'[i][id] \notin Sessions
  PROVE  Delivered' = Delivered /\ Places' = Places
<1> USE ReceiveAssumption DEF ReceiveInv
<1>0. TypeOK'
  BY NextTypeOK
<1>1. \A i \in Inboxes, id \in Ids :
        (IF inbox'[i][id] = Partial THEN Absent ELSE inbox'[i][id])
          = (IF inbox[i][id] = Partial THEN Absent ELSE inbox[i][id])
  BY <1>0, FilesOnlyGrow DEF TypeOK
<1>2. Delivered' = Delivered
  BY <1>1 DEF Delivered
<1>3. ASSUME NEW r \in Runs
      PROVE  (Placed(r)' <=> Placed(r)) /\ (Placed(r) => slot'[r] = slot[r] /\ Box(r)' = Box(r))
  <2>1. CASE slot[r] # None
    <3>1. slot'[r] = slot[r] /\ Box(r) \in Inboxes /\ slot[r] \in Ids /\ Box(r)' = Box(r)
      BY <2>1, OwnFile, RequestFixed
    <3>2. inbox[Box(r)][slot[r]] \in Sessions <=> inbox'[Box(r)][slot[r]] \in Sessions
      BY <3>1, FilesOnlyGrow
    <3> QED
      BY <3>1, <3>2 DEF Placed
  <2>2. CASE slot[r] = None
    <3>1. ~ Placed(r)
      BY <2>2 DEF Placed
    <3>2. ASSUME Placed(r)' PROVE FALSE
      <4>1. slot'[r] \in Ids /\ Box(r)' \in Inboxes /\ Box(r)' = Box(r)
        BY <1>0, <3>2, RequestFixed, NameTypes DEF Placed, TypeOK
      <4>2. inbox[Box(r)][slot'[r]] \in Sessions
        BY <3>2, <4>1 DEF Placed
      <4>3. PICK q \in Runs : Box(q) = Box(r) /\ slot[q] = slot'[r]
        BY <4>1, <4>2, ReceiveAssumption DEF FilesHaveWriters
      <4>4. slot'[q] = slot'[r] /\ Box(q)' = Box(r)' /\ slot[q] # None
        BY <4>1, <4>3, OwnFile, RequestFixed
      <4>5. q = r
        BY <4>1, <4>4, NextNamesNotShared DEF NamesNotShared
      <4> QED
        BY <2>2, <4>4, <4>5
    <3> QED
      BY <3>1, <3>2
  <2> QED
    BY <2>1, <2>2
<1>4. Places' = Places
  BY <1>3 DEF Places
<1> QED
  BY <1>2, <1>4

\* The write that completes a file is the delivery.
LEMMA WriteDelivers ==
  ASSUME ReceiveInv, [Next]_vars, NEW r \in Runs, handler[r] = "write",
         inbox' = [inbox EXCEPT ![Box(r)][slot[r]] = session[r]],
         slot' = slot, UNCHANGED <<history, told>>
  PROVE  M!Deliver(r)
<1> USE ReceiveAssumption DEF ReceiveInv
<1>1. /\ Box(r) \in Inboxes /\ slot[r] \in Ids /\ slot[r] # None
      /\ inbox[Box(r)][slot[r]] = Partial /\ session[r] \in Sessions
  BY NameTypes DEF ProgressInv, Progress, Holds, TypeOK
<1>2. \A i \in Inboxes, id \in Ids :
        inbox'[i][id] = IF i = Box(r) /\ id = slot[r] THEN session[r] ELSE inbox[i][id]
  BY <1>1, OneFileWritten, session[r] \in Sessions \cup {Absent, Partial} DEF TypeOK
<1>3. Places[r] = None /\ Delivered[Box(r)][slot[r]] = Absent
  BY <1>1 DEF Places, Placed, Delivered
<1>4. Delivered' = [Delivered EXCEPT ![Box(r)][slot[r]] = session[r]]
  <2>1. Delivered' = [i \in Inboxes |-> [id \in Ids |->
           IF i = Box(r) /\ id = slot[r] THEN session[r] ELSE Delivered[i][id]]]
    BY <1>1, <1>2 DEF Delivered
  <2>2. [Delivered EXCEPT ![Box(r)][slot[r]] = session[r]]
          = [i \in Inboxes |-> [id \in Ids |->
               IF i = Box(r) /\ id = slot[r] THEN session[r] ELSE Delivered[i][id]]]
    BY <1>1 DEF Delivered
  <2> QED
    BY <2>1, <2>2
<1>5. Places' = [Places EXCEPT ![r] = <<Box(r), slot[r]>>]
  <2>1. ASSUME NEW q \in Runs, q # r PROVE Placed(q)' = Placed(q)
    <3>1. CASE slot[q] = None
      BY <3>1 DEF Placed
    <3>2. CASE slot[q] # None
      <4>1. ~ (Box(q) = Box(r) /\ slot[q] = slot[r])
        BY <1>1, <2>1 DEF NamesNotShared
      <4>2. Box(q) \in Inboxes /\ slot[q] \in Ids /\ Box(q)' = Box(q)
        BY <3>2, OwnFile, RequestFixed
      <4> QED
        BY <1>2, <4>1, <4>2 DEF Placed
    <3> QED
      BY <3>1, <3>2
  <2>2. Placed(r)'
    BY <1>1, <1>2, RequestFixed DEF Placed
  <2>3. \A q \in Runs : Box(q)' = Box(q)
    BY RequestFixed
  <2> QED
    BY <2>1, <2>2, <2>3 DEF Places
<1>6. session' = session
  BY RequestFixed
<1> QED
  BY <1>1, <1>3, <1>4, <1>5, <1>6 DEF M!Deliver

LEMMA NextMailbox == ReceiveInv /\ [Next]_vars => [M!Next]_(M!vars)
<1> SUFFICES ASSUME ReceiveInv, [Next]_vars PROVE [M!Next]_(M!vars)
  OBVIOUS
<1> USE ReceiveAssumption DEF ReceiveInv
<1>1. ASSUME inbox' = inbox, UNCHANGED <<history, told>> PROVE UNCHANGED M!vars
  BY <1>1, NothingDelivered, RequestFixed DEF M!vars
<1>2. ASSUME NEW r \in Runs, Create(r) PROVE UNCHANGED M!vars
  <2>1. Name(r) \in Ids /\ Box(r) \in Inboxes
    BY <1>2, NameTypes DEF Create
  <2>2. \A i \in Inboxes, id \in Ids :
          inbox'[i][id] = IF i = Box(r) /\ id = Name(r) THEN Partial ELSE inbox[i][id]
    BY <1>2, <2>1, OneFileWritten, Partial \in Sessions \cup {Absent, Partial}
    DEF TypeOK, Create
  <2> QED
    BY <1>2, <2>2, NothingDelivered, RequestFixed DEF M!vars, Create
<1>3. ASSUME NEW r \in Runs, Write(r) PROVE M!Next
  BY <1>3, WriteDelivers DEF Write, M!Next
<1>4. ASSUME NEW r \in Runs, WriteFails(r) PROVE [M!Next]_(M!vars)
  <2>1. CASE inbox' = [inbox EXCEPT ![Box(r)][slot[r]] = session[r]]
    BY <1>4, <2>1, WriteDelivers DEF WriteFails, M!Next
  <2>2. CASE inbox' = [inbox EXCEPT ![Box(r)][slot[r]] = Partial]
    <3>1. Box(r) \in Inboxes
      BY NameTypes
    <3>2. \A i \in Inboxes, id \in Ids :
            inbox'[i][id] = IF i = Box(r) /\ id = slot[r] THEN Partial ELSE inbox[i][id]
      BY <2>2, <3>1, OneFileWritten, Partial \in Sessions \cup {Absent, Partial} DEF TypeOK
    <3> QED
      BY <1>4, <3>2, NothingDelivered, RequestFixed DEF M!vars, WriteFails
  <2> QED
    BY <1>4, <2>1, <2>2 DEF WriteFails
<1>5. ASSUME NEW r \in Runs, Record(r) PROVE M!Next
  <2>1. Holds(r, {session[r]}) /\ slot[r] # None /\ session[r] \in Sessions
    BY <1>5 DEF Record, ProgressInv, Progress, Holds, TypeOK
  <2>2. Places[r] = <<Box(r), slot[r]>>
    BY <2>1 DEF Holds, Places, Placed
  <2>3. Places' = Places /\ Delivered' = Delivered /\ session' = session
    BY <1>5, NothingDelivered, RequestFixed DEF Record
  <2>4. Places[r] # None
    BY <2>1, <2>2, NameTypes, NoneIsNoValue DEF Holds
  <2>5. M!Enter(r)
    BY <1>5, <2>2, <2>3, <2>4 DEF Record, Row, M!Enter
  <2> QED
    BY <2>5 DEF M!Next
<1>6. ASSUME NEW r \in Runs, ReceiveReply(r), told' # told PROVE M!Next
  <2>1. reply[r] \in Ids /\ told' = [told EXCEPT ![r] = reply[r]]
    BY <1>6 DEF ReceiveReply, TypeOK
  <2>2. reply[r] = slot[r] /\ Holds(r, {session[r]}) /\ slot[r] # None
    BY <2>1 DEF ProgressInv, Progress
  <2>3. Places[r] = <<Box(r), slot[r]>> /\ told[r] = None
    BY <1>6, <2>2 DEF ReceiveReply, Places, Placed, Holds, TypeOK, ProgressInv, Progress
  <2>4. Places' = Places /\ Delivered' = Delivered /\ session' = session
    BY <1>6, NothingDelivered, RequestFixed DEF ReceiveReply
  <2>5. Places[r] # None
    BY <2>2, <2>3, NameTypes, NoneIsNoValue DEF Holds
  <2>6. M!Acknowledge(r)
    BY <1>6, <2>1, <2>2, <2>3, <2>4, <2>5 DEF ReceiveReply, M!Acknowledge
  <2> QED
    BY <2>6 DEF M!Next
<1>7. \/ inbox' = inbox /\ UNCHANGED <<history, told>>
      \/ \E r \in Runs : \/ Create(r) \/ Write(r) \/ WriteFails(r) \/ Record(r)
                         \/ ReceiveReply(r) /\ told' # told
  BY DEF Next, SenderStep, HandlerStep, Answered, Post, PostRefused, ReceiveReply,
         ConnectionLost, GiveUp, Decode, DecodeFails, NameTaken, CreateFails,
         RecordFails, Stop, Start, vars
<1> QED
  BY <1>1, <1>2, <1>3, <1>4, <1>5, <1>6, <1>7

\* Listeners, handlers, partial files and failures keep the promise of the
\* Inbox interface: every behaviour is one of the mailbox.
THEOREM Implements == Spec => MailboxSpec
<1>1. Spec => [][M!Next]_(M!vars)
  BY Invariance, NextMailbox, PTL DEF Spec
<1> QED
  BY <1>1, InitMailbox, PTL DEF Spec, MailboxSpec, M!Spec

-----------------------------------------------------------------------------
(* What the promise is worth: it follows from Mailbox alone. *)

LEMMA KeptInit == M!Init => M!Kept
BY DEF M!Init, M!Kept, M!MailboxTypeOK

LEMMA KeptStep == M!Kept /\ [M!Next]_(M!vars) => M!Kept' /\ M!NothingTaken
<1> SUFFICES ASSUME M!Kept, [M!Next]_(M!vars) PROVE M!Kept' /\ M!NothingTaken
  OBVIOUS
<1> USE ReceiveAssumption, NoneIsNoValue DEF M!Kept, M!MailboxTypeOK, M!NothingTaken, Rows
<1>1. ASSUME NEW r \in Runs, M!Deliver(r) PROVE M!Kept' /\ M!NothingTaken
  <2>1. PICK i \in Inboxes, id \in Ids :
          /\ Delivered[i][id] = Absent
          /\ Delivered' = [Delivered EXCEPT ![i][id] = session[r]]
          /\ Places' = [Places EXCEPT ![r] = <<i, id>>]
    BY <1>1 DEF M!Deliver
  <2>2. Places[r] = None /\ UNCHANGED <<session, history, told>> /\ session[r] \in Sessions
    BY <1>1 DEF M!Deliver
  <2>3. \A j \in Inboxes, k \in Ids :
          Delivered'[j][k] = IF j = i /\ k = id THEN session[r] ELSE Delivered[j][k]
    BY <2>1
  <2>4. \A q \in Runs : Places'[q] = IF q = r THEN <<i, id>> ELSE Places[q]
    BY <2>1
  <2>5. Absent \notin Sessions
    OBVIOUS
  <2>6. M!MailboxTypeOK'
    BY <2>1, <2>2
  <2>7. M!NothingTaken
    BY <2>1, <2>3
  <2>8. ASSUME NEW q \in Runs, q # r, Places[q] # None
        PROVE  /\ Places[q][1] \in Inboxes /\ Places[q][2] \in Ids
               /\ Places[q] = <<Places[q][1], Places[q][2]>>
               /\ Delivered[Places[q][1]][Places[q][2]] = session[q]
               /\ session[q] \in Sessions
    BY <2>8
  <2>9. \A q \in Runs : q # r /\ Places[q] # None => Places[q] # <<i, id>>
    BY <2>1, <2>5, <2>8
  <2>10. \A q \in Runs : Places'[q] # None => Delivered'[Places'[q][1]][Places'[q][2]] = session'[q]
    BY <2>2, <2>3, <2>4, <2>5, <2>1, <2>8
  <2>11. \A p, q \in Runs : Places'[p] # None /\ Places'[p] = Places'[q] => p = q
    BY <2>4, <2>9
  <2>12. \A q \in Runs : told'[q] # None => Places'[q] # None /\ told'[q] = Places'[q][2]
    BY <2>2, <2>4
  <2>13. \A k \in Ids : history'[k] # None =>
            Delivered'[history'[k].inbox][k] = history'[k].session
    <3> SUFFICES ASSUME NEW k \in Ids, history[k] # None
                 PROVE  Delivered'[history[k].inbox][k] = history[k].session
      BY <2>2
    <3>1. /\ history[k].inbox \in Inboxes /\ history[k].session \in Sessions
          /\ Delivered[history[k].inbox][k] = history[k].session
      OBVIOUS
    <3> QED BY <3>1, <2>1, <2>3, <2>5
  <2> QED
    BY <2>6, <2>7, <2>10, <2>11, <2>12, <2>13
<1>2. ASSUME NEW r \in Runs, M!Enter(r) PROVE M!Kept' /\ M!NothingTaken
  BY <1>2 DEF M!Enter
<1>3. ASSUME NEW r \in Runs, M!Acknowledge(r) PROVE M!Kept' /\ M!NothingTaken
  BY <1>3 DEF M!Acknowledge
<1>4. CASE UNCHANGED M!vars
  BY <1>4 DEF M!vars
<1> QED
  BY <1>1, <1>2, <1>3, <1>4 DEF M!Next

\* Whoever keeps the promise of the Inbox interface gives receipts and entries
\* only for sessions that are there, each at a place of its own, and never takes
\* one back (Inbox, FileInbox.Save).
THEOREM PromiseSuffices == MailboxSpec => []M!Kept /\ M!DeliveredStays
<1>1. M!Kept /\ [M!Next]_(M!vars) => [M!NothingTaken]_(M!vars)
  BY KeptStep
<1> QED
  BY <1>1, KeptInit, KeptStep, PTL DEF MailboxSpec, M!Spec, M!DeliveredStays

-----------------------------------------------------------------------------
(* What a command reads beside any number of listeners and other commands. *)

\* A reader whose variables and files stay as they are knows what it knew.
LEMMA OthersKnow ==
  ASSUME NEW q \in Readers, ReaderKnows(q),
         reader'[q] = reader[q], dir'[q] = dir[q], pending'[q] = pending[q],
         found'[q] = found[q], chosen'[q] = chosen[q], opened'[q] = opened[q],
         owed'[q] = owed[q], wanted'[q] = wanted[q], inbox' = inbox
  PROVE  ReaderKnows(q)'
BY DEF ReaderKnows, IsLatest, Listed, Age

\* The receipts given for an inbox name complete sessions in it.
LEMMA GivenAreStored ==
  ASSUME ReceiveInv, NEW i \in Inboxes
  PROVE  Given(i) \subseteq Ids /\ \A id \in Given(i) : inbox[i][id] \in Sessions
<1> SUFFICES ASSUME NEW r \in Runs, told[r] # None, Box(r) = i
             PROVE  told[r] \in Ids /\ inbox[i][told[r]] \in Sessions
  BY DEF Given
<1>1. Progress(r) /\ TypeOK
  BY DEF ReceiveInv, ProgressInv
<1>2. told[r] = reply[r] /\ told[r] \in Ids
  BY <1>1 DEF Progress
<1>3. reply[r] = slot[r] /\ inbox[Box(r)][slot[r]] \in {session[r]}
  BY <1>1, <1>2 DEF Progress, Holds
<1>4. session[r] \in Sessions
  BY <1>1 DEF TypeOK
<1> QED
  BY <1>2, <1>3, <1>4

\* A step of a handler, a sender or a listener leaves the readers alone.
LEMMA ReceiverKeeps ==
  ASSUME ReceiveInv, ReadersInv, [Next]_vars, UNCHANGED readerVars
  PROVE  ReadersInv'
<1>1. ReadersTypeOK'
  BY DEF ReadersInv, ReadersTypeOK, readerVars
<1>2. ASSUME NEW p \in Readers PROVE ReaderKnows(p)'
  <2>1. /\ ReaderKnows(p) /\ dir[p] \in Inboxes /\ TypeOK /\ ProgressInv
        /\ found[p] \in [Ids -> Sessions \cup {None}]
        /\ Listed(p) \subseteq Ids /\ owed[p] \subseteq Ids
    BY DEF ReadersInv, ReadersTypeOK, ReceiveInv, Listed
  <2>2. \A id \in Ids : inbox[dir[p]][id] \in Sessions => inbox'[dir[p]][id] = inbox[dir[p]][id]
    BY <2>1, FilesOnlyGrow
  <2>3. \A id \in Listed(p) : found[p][id] \in Sessions
    BY <2>1 DEF Listed
  <2>4. /\ reader' = reader /\ dir' = dir /\ pending' = pending /\ found' = found
        /\ chosen' = chosen /\ opened' = opened /\ owed' = owed /\ wanted' = wanted
        /\ Listed(p)' = Listed(p) /\ IsLatest(p)' = IsLatest(p)
    BY DEF readerVars, Listed, IsLatest, Age
  <2>5. \A id \in Listed(p) : found[p][id] = inbox'[dir[p]][id]
    BY <2>1, <2>2, <2>3 DEF ReaderKnows
  <2>6. \A id \in owed[p] : inbox'[dir[p]][id] \in Sessions
    BY <2>1, <2>2 DEF ReaderKnows
  <2>7. reader[p] = "named" => /\ chosen[p] \in Ids /\ wanted[p] \in Sessions
                                /\ inbox'[dir[p]][chosen[p]] = wanted[p]
    BY <2>1, <2>2 DEF ReaderKnows
  <2> QED
    BY <2>1, <2>4, <2>5, <2>6, <2>7 DEF ReaderKnows
<1> QED
  BY <1>1, <1>2 DEF ReadersInv

-----------------------------------------------------------------------------
(* The steps of the commands. *)

\* Each of them keeps the types.
LEMMA ReaderTypes ==
  ASSUME ReceiveInv, ReadersInv, NEW p \in Readers, ReaderStep(p), UNCHANGED vars
  PROVE  ReadersTypeOK'
<1> USE ReadersAssumption, ReceiveAssumption
<1>1. ReadersTypeOK /\ TypeOK /\ dir[p] \in Inboxes /\ pending[p] \subseteq Ids
  BY DEF ReadersInv, ReceiveInv, ReadersTypeOK
<1>2. CASE ReadDir(p)
  <2>1. Given(dir[p]) \subseteq Ids
    BY <1>1, GivenAreStored
  <2> QED
    BY <1>1, <1>2, <2>1 DEF ReadersTypeOK, ReadDir
<1>3. CASE ReadEntry(p)
  BY <1>1, <1>3 DEF ReadersTypeOK, ReadEntry
<1>4. CASE ReadEntryFails(p)
  BY <1>1, <1>4 DEF ReadersTypeOK, ReadEntryFails
<1>5. CASE ListDone(p)
  BY <1>1, <1>5 DEF ReadersTypeOK, ListDone
<1>6. CASE TakeLatest(p)
  BY <1>1, <1>6 DEF ReadersTypeOK, TakeLatest, Listed
<1>7. CASE Lookup(p)
  <2>1. PICK id \in Ids : /\ history[id] # None
                          /\ chosen' = [chosen EXCEPT ![p] = id]
                          /\ dir' = [dir EXCEPT ![p] = history[id].inbox]
                          /\ wanted' = [wanted EXCEPT ![p] = history[id].session]
    BY <1>7 DEF Lookup
  <2>2. history[id] \in Rows
    BY <1>1, <2>1 DEF TypeOK
  <2>3. history[id].inbox \in Inboxes /\ history[id].session \in Sessions
    BY <2>2 DEF Rows
  <2> QED
    BY <1>1, <1>7, <2>1, <2>3 DEF ReadersTypeOK, Lookup
<1>8. CASE TakeNamed(p)
  BY <1>1, <1>8 DEF ReadersTypeOK, TakeNamed, Listed
<1>9. CASE OpenSession(p)
  <2>1. chosen[p] \in Ids
    BY <1>9 DEF ReadersInv, ReaderKnows, IsLatest, OpenSession, Listed
  <2>2. inbox[dir[p]][chosen[p]] \in Contents
    BY <1>1, <2>1 DEF TypeOK, Contents
  <2> QED
    BY <1>1, <1>9, <2>2 DEF ReadersTypeOK, OpenSession
<1> QED
  BY <1>2, <1>3, <1>4, <1>5, <1>6, <1>7, <1>8, <1>9 DEF ReaderStep

\* And each concludes only what the files bear out.
LEMMA ReaderLearns ==
  ASSUME ReceiveInv, ReadersInv, NEW p \in Readers, ReaderStep(p), UNCHANGED vars
  PROVE  ReaderKnows(p)'
<1> USE ReadersAssumption, ReceiveAssumption
<1>1. /\ ReadersTypeOK /\ TypeOK /\ ReaderKnows(p) /\ dir[p] \in Inboxes
      /\ found[p] \in [Ids -> Sessions \cup {None}] /\ Listed(p) \subseteq Ids
      /\ inbox' = inbox
  BY DEF ReadersInv, ReceiveInv, ReadersTypeOK, Listed, vars, storeVars
<1>2. CASE ReadDir(p)
  <2>1. Given(dir[p]) \subseteq Ids /\ \A id \in Given(dir[p]) : inbox[dir[p]][id] \in Sessions
    BY <1>1, GivenAreStored
  <2>2. /\ reader[p] = "idle" /\ reader'[p] = "listing"
        /\ pending'[p] = {id \in Ids : inbox[dir[p]][id] # Absent}
        /\ owed'[p] = Given(dir[p])
        /\ dir' = dir /\ found' = found /\ chosen' = chosen /\ opened' = opened
        /\ wanted' = wanted
    BY <1>1, <1>2 DEF ReadDir, ReadersTypeOK
  <2>3. owed'[p] \subseteq pending'[p]
    BY <2>1, <2>2
  <2>4. Listed(p)' = {}
    BY <1>1, <2>2 DEF Listed, ReaderKnows
  <2> QED
    BY <1>1, <2>1, <2>2, <2>3, <2>4 DEF ReaderKnows
<1>3. CASE ReadEntry(p)
  <2>1. PICK id \in pending[p] : /\ inbox[dir[p]][id] \in Sessions
                                 /\ found' = [found EXCEPT ![p][id] = inbox[dir[p]][id]]
                                 /\ pending' = [pending EXCEPT ![p] = @ \ {id}]
    BY <1>3 DEF ReadEntry
  <2>2. /\ reader[p] = "listing" /\ reader' = reader /\ dir' = dir /\ chosen' = chosen
        /\ opened' = opened /\ owed' = owed /\ pending'[p] = pending[p] \ {id} /\ id \in Ids
        /\ wanted' = wanted
    BY <1>1, <1>3, <2>1 DEF ReadEntry, ReadersTypeOK
  <2>3. /\ found'[p][id] = inbox[dir[p]][id]
        /\ \A k \in Ids : k # id => found'[p][k] = found[p][k]
    BY <1>1, <2>1, <2>2 DEF ReadersTypeOK
  <2>4. Listed(p)' = Listed(p) \cup {id}
    BY <2>1, <2>2, <2>3 DEF Listed
  <2> QED
    BY <1>1, <2>1, <2>2, <2>3, <2>4 DEF ReaderKnows
<1>4. CASE ReadEntryFails(p)
  <2>1. /\ reader[p] = "listing" /\ reader'[p] = "failed"
        /\ UNCHANGED <<dir, pending, found, chosen, opened, owed, wanted>>
    BY <1>1, <1>4 DEF ReadEntryFails, ReadersTypeOK
  <2> QED
    BY <1>1, <2>1 DEF ReaderKnows, Listed
<1>5. CASE ListDone(p)
  <2>1. /\ reader[p] = "listing" /\ reader'[p] \in {"nothing", "listed"} /\ pending[p] = {}
        /\ UNCHANGED <<dir, pending, found, chosen, opened, owed, wanted>>
    BY <1>1, <1>5 DEF ListDone, ReadersTypeOK
  <2> QED
    BY <1>1, <2>1 DEF ReaderKnows, Listed
<1>6. CASE TakeLatest(p)
  <2>1. PICK id \in Listed(p) : /\ \A other \in Listed(p) : Age(p, id) >= Age(p, other)
                                /\ chosen' = [chosen EXCEPT ![p] = id]
    BY <1>6 DEF TakeLatest
  <2>2. /\ reader[p] = "listed" /\ reader'[p] = "chosen" /\ chosen'[p] = id
        /\ UNCHANGED <<dir, pending, found, opened, owed, wanted>>
    BY <1>1, <1>6, <2>1 DEF TakeLatest, ReadersTypeOK
  <2>3. IsLatest(p)' /\ Listed(p)' = Listed(p)
    BY <2>1, <2>2 DEF IsLatest, Listed, Age
  <2> QED
    BY <1>1, <2>2, <2>3 DEF ReaderKnows
<1>7. CASE Lookup(p)
  <2>1. PICK id \in Ids : /\ history[id] # None
                          /\ chosen' = [chosen EXCEPT ![p] = id]
                          /\ dir' = [dir EXCEPT ![p] = history[id].inbox]
                          /\ wanted' = [wanted EXCEPT ![p] = history[id].session]
    BY <1>7 DEF Lookup
  <2>2. history[id] \in Rows /\ inbox[history[id].inbox][id] = history[id].session
    BY <1>1, <2>1 DEF TypeOK, ReceiveInv, HistoryRowsHaveFiles
  <2>3. /\ reader[p] = "idle" /\ reader'[p] = "named" /\ chosen'[p] = id
        /\ dir'[p] = history[id].inbox /\ wanted'[p] = history[id].session
        /\ wanted'[p] \in Sessions
        /\ UNCHANGED <<pending, found, opened, owed>>
    BY <1>1, <1>7, <2>1, <2>2 DEF Lookup, ReadersTypeOK, Rows
  <2>4. Listed(p)' = {} /\ owed'[p] = {}
    BY <1>1, <2>3 DEF ReaderKnows, Listed
  <2> QED
    BY <1>1, <2>1, <2>2, <2>3, <2>4 DEF ReaderKnows
<1>8. CASE TakeNamed(p)
  <2>1. PICK id \in Listed(p) : /\ chosen' = [chosen EXCEPT ![p] = id]
                                /\ wanted' = [wanted EXCEPT ![p] = found[p][id]]
    BY <1>8 DEF TakeNamed
  <2>2. /\ reader[p] = "listed" /\ reader'[p] = "named"
        /\ chosen'[p] = id /\ wanted'[p] = found[p][id]
        /\ UNCHANGED <<dir, pending, found, opened, owed>>
    BY <1>1, <1>8, <2>1 DEF TakeNamed, ReadersTypeOK
  <2>3. id \in Ids /\ found[p][id] \in Sessions /\ inbox[dir[p]][id] = found[p][id]
    BY <1>1, <2>1 DEF ReaderKnows, Listed
  <2>4. Listed(p)' = Listed(p)
    BY <2>2 DEF Listed
  <2> QED
    BY <1>1, <2>2, <2>3, <2>4 DEF ReaderKnows
<1>9. CASE OpenSession(p)
  <2>1. /\ reader[p] \in {"chosen", "named"}
        /\ opened'[p] = inbox[dir[p]][chosen[p]]
        /\ reader'[p] = IF inbox[dir[p]][chosen[p]] \in Sessions THEN "read" ELSE "failed"
        /\ UNCHANGED <<dir, pending, found, chosen, owed, wanted>>
    BY <1>1, <1>9 DEF OpenSession, ReadersTypeOK
  <2>2. Listed(p)' = Listed(p) /\ IsLatest(p)' = IsLatest(p)
    BY <2>1 DEF Listed, IsLatest, Age
  <2>3. CASE reader[p] = "chosen"
    <3>1. IsLatest(p) /\ owed[p] \subseteq Listed(p) /\ chosen[p] \in Listed(p) /\ wanted[p] = None
      BY <1>1, <2>3 DEF ReaderKnows, IsLatest
    <3>2. inbox[dir[p]][chosen[p]] = found[p][chosen[p]] /\ found[p][chosen[p]] \in Sessions
      BY <1>1, <3>1 DEF ReaderKnows, Listed
    <3> QED
      BY <1>1, <2>1, <2>2, <3>1, <3>2 DEF ReaderKnows
  <2>4. CASE reader[p] = "named"
    <3>1. wanted[p] \in Sessions /\ inbox[dir[p]][chosen[p]] = wanted[p]
      BY <1>1, <2>4 DEF ReaderKnows
    <3> QED
      BY <1>1, <2>1, <2>2, <3>1 DEF ReaderKnows
  <2> QED
    BY <2>1, <2>3, <2>4
<1> QED
  BY <1>2, <1>3, <1>4, <1>5, <1>6, <1>7, <1>8, <1>9 DEF ReaderStep

\* The other commands are not concerned.
LEMMA ReaderKeepsOthers ==
  ASSUME ReadersInv, NEW p \in Readers, ReaderStep(p), UNCHANGED vars,
         NEW q \in Readers, q # p
  PROVE  ReaderKnows(q)'
<1>1. ReadersTypeOK /\ ReaderKnows(q) /\ inbox' = inbox
  BY DEF ReadersInv, vars, storeVars
<1>2. /\ reader'[q] = reader[q] /\ dir'[q] = dir[q] /\ pending'[q] = pending[q]
      /\ found'[q] = found[q] /\ chosen'[q] = chosen[q] /\ opened'[q] = opened[q]
      /\ owed'[q] = owed[q] /\ wanted'[q] = wanted[q]
  <2>1. CASE ReadDir(p)
    BY <1>1, <2>1 DEF ReadersTypeOK, ReadDir
  <2>2. CASE ReadEntry(p)
    BY <1>1, <2>2 DEF ReadersTypeOK, ReadEntry
  <2>3. CASE ReadEntryFails(p)
    BY <1>1, <2>3 DEF ReadersTypeOK, ReadEntryFails
  <2>4. CASE ListDone(p)
    BY <1>1, <2>4 DEF ReadersTypeOK, ListDone
  <2>5. CASE TakeLatest(p)
    BY <1>1, <2>5 DEF ReadersTypeOK, TakeLatest
  <2>6. CASE Lookup(p)
    BY <1>1, <2>6 DEF ReadersTypeOK, Lookup
  <2>7. CASE OpenSession(p)
    BY <1>1, <2>7 DEF ReadersTypeOK, OpenSession
  <2>8. CASE TakeNamed(p)
    BY <1>1, <2>8 DEF ReadersTypeOK, TakeNamed
  <2> QED
    BY <2>1, <2>2, <2>3, <2>4, <2>5, <2>6, <2>7, <2>8 DEF ReaderStep
<1> QED
  BY <1>1, <1>2, OthersKnow

\* Nothing is known, and nothing listed, in the beginning.
LEMMA InitReadersInv == ReadersInit => ReadersInv
<1> SUFFICES ASSUME ReadersInit PROVE ReadersInv
  OBVIOUS
<1>1. ReadersTypeOK
  BY DEF ReadersInit, ReadersTypeOK, Contents
<1>2. ASSUME NEW p \in Readers PROVE ReaderKnows(p)
  BY DEF ReadersInit, ReaderKnows, Listed
<1> QED
  BY <1>1, <1>2 DEF ReadersInv

-----------------------------------------------------------------------------
\* Listeners, senders and commands together keep what each may conclude
\* (FileInbox.Save, List, Store.Get, resolveRestoreSession).
THEOREM ReadersInvariance == ReadersSpec => [](ReceiveInv /\ ReadersInv)
<1>1. ReadersInit => ReceiveInv /\ ReadersInv
  BY InitReadersInv, InitReceiveInv DEF ReadersInit
<1>2. ReceiveInv /\ ReadersInv /\ [ReadersNext]_allVars => (ReceiveInv /\ ReadersInv)'
  <2> SUFFICES ASSUME ReceiveInv, ReadersInv, [ReadersNext]_allVars
               PROVE  (ReceiveInv /\ ReadersInv)'
    OBVIOUS
  <2>1. CASE ReceiverStep
    BY <2>1, NextReceiveInv, ReceiverKeeps DEF ReceiverStep
  <2>2. ASSUME NEW p \in Readers, ReaderStep(p), UNCHANGED vars
        PROVE  (ReceiveInv /\ ReadersInv)'
    <3>1. ReceiveInv'
      BY <2>2, NextReceiveInv
    <3>2. ReadersTypeOK'
      BY <2>2, ReaderTypes
    <3>3. \A q \in Readers : ReaderKnows(q)'
      BY <2>2, ReaderLearns, ReaderKeepsOthers
    <3> QED
      BY <3>1, <3>2, <3>3 DEF ReadersInv
  <2>3. CASE UNCHANGED allVars
    BY <2>3, NextReceiveInv, ReceiverKeeps DEF allVars
  <2> QED
    BY <2>1, <2>2, <2>3 DEF ReadersNext
<1> QED
  BY <1>1, <1>2, PTL DEF ReadersSpec

\* The invariant of the commands, by itself.
THEOREM ReadersKnow == ReadersSpec => []ReadersInv
  BY ReadersInvariance, PTL

\* A listing that succeeds has every session acknowledged before it.
THEOREM ListsAreComplete == ReadersSpec => []ListIsComplete
<1>1. ReadersInv => ListIsComplete
  BY DEF ReadersInv, ReaderKnows, ListIsComplete
<1> QED
  BY <1>1, ReadersInvariance, PTL

\* `restore latest` is never older than what was acknowledged before.
THEOREM LatestIsLatest == ReadersSpec => []LatestIsNotOlder
<1>1. ReadersInv => LatestIsNotOlder
  <2> SUFFICES ASSUME ReadersInv, NEW p \in Readers, reader[p] = "read", wanted[p] = None,
                      NEW id \in owed[p]
               PROVE  CapturedAt[opened[p]] >= CapturedAt[inbox[dir[p]][id]]
    BY DEF LatestIsNotOlder
  <2>1. ReaderKnows(p)
    BY DEF ReadersInv
  <2>2. IsLatest(p) /\ id \in Listed(p) /\ opened[p] = found[p][chosen[p]]
    BY <2>1 DEF ReaderKnows
  <2>3. found[p][id] = inbox[dir[p]][id] /\ Age(p, chosen[p]) >= Age(p, id)
    BY <2>1, <2>2 DEF ReaderKnows, IsLatest
  <2> QED
    BY <2>2, <2>3 DEF Age
<1> QED
  BY <1>1, ReadersInvariance, PTL

\* Nothing replaces a file between the listing, or the ledger, and the open.
THEOREM OpenedAsListed == ReadersSpec => []OpenedIsWhatWasListed
<1>1. ReadersInv => OpenedIsWhatWasListed
  BY DEF ReadersInv, ReaderKnows, IsLatest, OpenedIsWhatWasListed
<1> QED
  BY <1>1, ReadersInvariance, PTL

\* What a listing or the ledger names can be read.
THEOREM ChosenCanBeRead == ReadersSpec => []ChosenIsReadable
<1>1. ReadersInv => ChosenIsReadable
  BY DEF ReadersInv, ReaderKnows, ChosenIsReadable
<1> QED
  BY <1>1, ReadersInvariance, PTL
=============================================================================
