---------------------------- MODULE StoreProofs -----------------------------
(***************************************************************************)
(* Theorems about the threads and the deliveries of Messages: what a       *)
(* message replies to and what an address sees of its trash along a        *)
(* thread; the rows of local recipients, the requests that resolve them,   *)
(* the custody of what has been delivered, and what the routes of Reading  *)
(* show of all that.                                                       *)
(***************************************************************************)
EXTENDS Reading, MessagesProofs, FiniteSetTheorems, WellFoundedInduction

\* A reply may be written to p: on the host, sent and not terminal.
Repliable(p) == p \in Msg /\ IsSent(p) /\ ~msg[p].terminal

\* One message that is not sent yet is written, with a parent or none.
Writes(m) ==
    /\ \A x \in Msg \ {m} : msg'[x] = msg[x]
    /\ msg[m].phase \in {"none", "draft"}
    /\ msg'[m].phase \in {"draft", "sent"}
    /\ msg'[m].pid = NoMsg \/ Repliable(msg'[m].pid)

\* No parent, sender or terminal flag changes, and at most a draft is sent.
KeepsThreads ==
    \A x \in Msg :
        /\ msg'[x].pid = msg[x].pid
        /\ msg'[x].terminal = msg[x].terminal
        /\ msg'[x].from = msg[x].from
        /\ \/ msg'[x].phase = msg[x].phase
           \/ msg[x].phase = "draft" /\ msg'[x].phase = "sent"

LEMMA CreateWrites ==
    ASSUME TypeOK, NEW a \in Local, NEW m \in Msg, NEW tos,
           NEW p \in Msg \cup {NoMsg}, NEW f,
           Create(a, m, tos, p, f) \/ Update(a, m, tos, p, f)
    PROVE  Writes(m)
  <1>1. msg' = [msg EXCEPT ![m] = Draft(a, tos, p, f, msg[m])]
    BY DEF Create, Update
  <1>2. Draft(a, tos, p, f, msg[m]).pid = p
    BY DEF Draft, TypeOK, Message
  <1>3. msg'[m].pid = p
    BY <1>1, <1>2 DEF TypeOK
  <1>4. p = NoMsg \/ Repliable(p)
    BY DEF Create, Update, ValidParent, Repliable
  <1> QED BY <1>3, <1>4, CreateEffect DEF Writes

LEMMA ReactWrites ==
    ASSUME TypeOK, NEW a \in Local, NEW s \in Msg, NEW m \in Msg,
           React(a, s, m)
    PROVE  Writes(m)
  <1> DEFINE tos == (RecipientsOf(s) \cup {msg[s].from}) \ {a}
             d == Draft(a, tos, s, TRUE, msg[m])
  <1>1. d \in Message
    BY DraftType DEF TypeOK
  <1>2. d.pid = s
    BY DEF Draft, TypeOK, Message
  <1>3. msg' = [msg EXCEPT ![m] = [d EXCEPT !.phase = "sent"]]
    BY DEF React
  <1>4. [d EXCEPT !.phase = "sent"].pid = s
    <2> HIDE DEF d
    <2> QED BY <1>1, <1>2 DEF Message
  <1> HIDE DEF d
  <1>5. msg'[m].pid = s
    BY <1>3, <1>4 DEF TypeOK
  <1>6. Repliable(s)
    BY DEF React, Repliable
  <1> QED BY <1>5, <1>6, ReactEffect DEF Writes

LEMMA ReceiveWrites ==
    ASSUME TypeOK, NEW r \in Remote, NEW m \in Msg, NEW tos,
           NEW accepted, NEW p \in Msg \cup {NoMsg}, NEW f,
           FmsgdReceive(r, m, tos, accepted, p, f)
    PROVE  Writes(m)
  <1> DEFINE row == [a \in Addr |-> IF a \notin tos THEN "absent"
                                    ELSE IF a \in Remote THEN "notours"
                                    ELSE IF a \in accepted THEN "delivered"
                                    ELSE "refused"]
             n == [Blank("sent") EXCEPT !.from = r, !.pid = p,
                                        !.terminal = f, !.rows["to"] = row]
  <1>1. n.pid = p /\ n.phase = "sent"
    BY DEF Blank, NoRows, Table
  <1>2. /\ msg' = [msg EXCEPT ![m] = n]
        /\ msg[m].phase = "none"
        /\ p = NoMsg \/ Repliable(p)
    BY DEF FmsgdReceive, Repliable
  <1> HIDE DEF n
  <1> QED BY <1>1, <1>2 DEF TypeOK, Writes

LEMMA AddKeepsThreads ==
    ASSUME TypeOK, NEW a \in Local, NEW m \in Msg, NEW adds \in SUBSET Addr,
           AddRecipients(a, m, adds)
    PROVE  KeepsThreads
  <1>1. \A x \in Msg \ {m} : msg'[x] = msg[x]
    BY AddEffect
  <1>2. msg[m] \in Message
    BY DEF TypeOK
  <1>3. \E batch, rows, notify :
           msg'[m] = [msg[m] EXCEPT !.batch = batch, !.rows = rows,
                                    !.notify = notify]
    BY DEF AddRecipients, TypeOK, Message
  <1>4. /\ msg'[m].pid = msg[m].pid
        /\ msg'[m].terminal = msg[m].terminal
        /\ msg'[m].from = msg[m].from
        /\ msg'[m].phase = msg[m].phase
    BY <1>2, <1>3 DEF Message
  <1> QED BY <1>1, <1>4 DEF KeepsThreads

LEMMA SendKeepsThreads ==
    ASSUME TypeOK, NEW a \in Local, NEW m \in Msg, Send(a, m)
    PROVE  KeepsThreads
  BY DEF Send, TypeOK, Message, KeepsThreads

LEMMA ResolveKeepsThreads ==
    ASSUME TypeOK, NEW j \in jobs, NEW i \in Item, NEW outcome,
           Resolve(j, i, outcome)
    PROVE  KeepsThreads
  <1>1. i.msg \in Msg
    BY DEF Item
  <1>2. \/ msg' = msg
        \/ \E rows : msg' = [msg EXCEPT ![i.msg] = [@ EXCEPT !.rows = rows]]
    BY DEF Resolve
  <1>3. msg \in [Msg -> Message]
    BY DEF TypeOK
  <1>4. CASE msg' = msg
    BY <1>4 DEF KeepsThreads
  <1>5. ASSUME NEW rows, msg' = [msg EXCEPT ![i.msg] = [@ EXCEPT !.rows = rows]]
        PROVE  KeepsThreads
    <2>1. PICK d : d = [msg[i.msg] EXCEPT !.rows = rows]
      OBVIOUS
    <2>2. /\ d.pid = msg[i.msg].pid /\ d.terminal = msg[i.msg].terminal
          /\ d.from = msg[i.msg].from /\ d.phase = msg[i.msg].phase
      BY <1>1, <1>3, <2>1 DEF Message
    <2>3. \A x \in Msg : msg'[x] = IF x = i.msg THEN d ELSE msg[x]
      BY <1>3, <1>5, <2>1
    <2> QED BY <2>2, <2>3 DEF KeepsThreads
  <1> QED BY <1>2, <1>4, <1>5

LEMMA FmsgdKeepsThreads ==
    ASSUME TypeOK, NEW m \in Msg,
           \/ \E t \in Table, r \in Remote : \E outcome :
                 FmsgdAttempt(m, t, r, outcome)
           \/ \E n : FmsgdNotify(m, n)
           \/ \E b : RetryWindowOver(m, b)
    PROVE  KeepsThreads
  <1>1. CASE \E t \in Table, r \in Remote : \E outcome :
                 FmsgdAttempt(m, t, r, outcome)
    BY <1>1 DEF FmsgdAttempt, TypeOK, Message, KeepsThreads
  <1>2. CASE \E n : FmsgdNotify(m, n)
    BY <1>2 DEF FmsgdNotify, TypeOK, Message, KeepsThreads
  <1>3. CASE \E b : RetryWindowOver(m, b)
    BY <1>3 DEF RetryWindowOver, TypeOK, Message, KeepsThreads
  <1> QED BY <1>1, <1>2, <1>3

\* Every step erases messages, writes one, or leaves the threads alone.
LEMMA ThreadCases ==
    ASSUME TypeOK, [Next]_vars
    PROVE  \/ \E a \in Local, m \in Msg : DeleteDraft(a, m) \/ Purge(a, m)
           \/ \E m \in Msg : Writes(m)
           \/ KeepsThreads
  <1>1. CASE msg' = msg
    BY <1>1 DEF KeepsThreads
  <1>2. CASE LocalNext
    <2>1. PICK a \in Local, m \in Msg :
            \/ \E tos \in Recipients, p \in Msg \cup {NoMsg}, f \in Terminal :
                  Create(a, m, tos, p, f)
            \/ \E tos \in Recipients \cup {{}}, p \in Msg \cup {NoMsg},
                  f \in Terminal : "update" \in Ops /\ Update(a, m, tos, p, f)
            \/ DeleteDraft(a, m)
            \/ Send(a, m)
            \/ \E adds \in Recipients : AddRecipients(a, m, adds)
            \/ \E s \in Msg : React(a, s, m)
            \/ \E thread : TrashSent(a, m, thread)
            \/ \E thread : Restore(a, m, thread)
            \/ Purge(a, m)
      BY <1>2 DEF LocalNext
    <2>2. CASE \/ \E thread : TrashSent(a, m, thread)
               \/ \E thread : Restore(a, m, thread)
      BY <1>1, <2>2 DEF TrashSent, Restore
    <2>3. CASE \/ \E tos \in Recipients, p \in Msg \cup {NoMsg}, f \in Terminal :
                     Create(a, m, tos, p, f)
               \/ \E tos \in Recipients \cup {{}}, p \in Msg \cup {NoMsg},
                     f \in Terminal : "update" \in Ops /\ Update(a, m, tos, p, f)
      BY <2>3, CreateWrites, Zenon
    <2> QED BY <2>1, <2>2, <2>3, ReactWrites, AddKeepsThreads,
               SendKeepsThreads, InputAssumption
  <1>3. CASE FmsgdNext
    <2>1. PICK m \in Msg :
        \/ \E r \in Remote, tos \in Recipients, p \in Msg \cup {NoMsg},
              f \in Terminal : \E accepted \in SUBSET tos :
              FmsgdReceive(r, m, tos, accepted, p, f)
        \/ \E t \in Table, r \in Remote, outcome \in
              {"noresponse", "retryable", "refused", "delivered"} :
              FmsgdAttempt(m, t, r, outcome)
        \/ \E n \in msg[m].notify : FmsgdNotify(m, n)
        \/ \E b \in 0 .. MaxBatches : "age" \in Ops /\ RetryWindowOver(m, b)
      BY <1>3 DEF FmsgdNext
    <2>2. CASE \E r \in Remote, tos \in Recipients, p \in Msg \cup {NoMsg},
              f \in Terminal : \E accepted \in SUBSET tos :
              FmsgdReceive(r, m, tos, accepted, p, f)
      BY <2>2, ReceiveWrites, Zenon
    <2> QED BY <2>1, <2>2, FmsgdKeepsThreads
  <1>4. CASE \E j \in jobs, i \in Item : \E outcome : Resolve(j, i, outcome)
    BY <1>4, ResolveKeepsThreads
  <1>5. \/ msg' = msg
        \/ LocalNext
        \/ FmsgdNext
        \/ \E j \in jobs, i \in Item : \E outcome : Resolve(j, i, outcome)
    <2>1. \A j \in jobs : j.todo \subseteq Item
      BY DEF TypeOK, Job, Delivery
    <2> QED BY <2>1 DEF Next, vars, JobNext, FaultNext, SkipRecipient,
               RecordUsage, ReleaseUsage, LoseJob
  <1> QED BY <1>1, <1>2, <1>3, <1>4, <1>5

\* What deleting rows does to the fields of a message that stays.
LEMMA EraseThreads ==
    ASSUME TypeOK, NEW gone, NEW x \in Msg, msg' = Erase(gone)
    PROVE  /\ x \in gone => msg'[x].pid = NoMsg /\ msg'[x].phase = "removed"
           /\ x \notin gone =>
                 /\ msg'[x].pid = IF msg[x].pid \in gone THEN NoMsg
                                  ELSE msg[x].pid
                 /\ msg'[x].terminal = msg[x].terminal
                 /\ msg'[x].from = msg[x].from
                 /\ msg'[x].phase = msg[x].phase
  <1>1. x \in gone => msg'[x] = Blank("removed")
    BY DEF Erase
  <1>2. x \notin gone => msg'[x] = IF msg[x].pid \in gone
                                   THEN [msg[x] EXCEPT !.pid = NoMsg]
                                   ELSE msg[x]
    BY DEF Erase
  <1>3. msg[x] \in Message
    BY DEF TypeOK
  <1>4. LET n == [msg[x] EXCEPT !.pid = NoMsg] IN
           n.pid = NoMsg /\ n.terminal = msg[x].terminal
           /\ n.from = msg[x].from /\ n.phase = msg[x].phase
    BY <1>3 DEF Message
  <1>5. x \in gone => msg'[x].pid = NoMsg /\ msg'[x].phase = "removed"
    BY <1>1 DEF Blank
  <1> QED BY <1>2, <1>4, <1>5

\* A draft or a purge is the only step that deletes rows of messages.
LEMMA Erases ==
    ASSUME NEW a \in Local, NEW m \in Msg, DeleteDraft(a, m) \/ Purge(a, m)
    PROVE  \E gone : msg' = Erase(gone)
  BY DEF DeleteDraft, Purge

LEMMA ParentStep ==
    ASSUME StoreInv, ParentOnHost, [Next]_vars
    PROVE  ParentOnHost'
  <1> USE DEF StoreInv
  <1>0. /\ \A x \in Msg : msg[x].pid \in Msg \cup {NoMsg}
        /\ NoMsg \notin Msg
    BY FieldTypes, MsgAssumption DEF TypeOK
  <1> SUFFICES ASSUME NEW x \in Msg, msg'[x].pid # NoMsg
               PROVE  /\ msg'[msg'[x].pid].phase = "sent"
                      /\ ~msg'[msg'[x].pid].terminal
    BY DEF ParentOnHost, IsSent
  <1>1. ASSUME NEW gone, msg' = Erase(gone)
        PROVE  /\ msg'[msg'[x].pid].phase = "sent"
               /\ ~msg'[msg'[x].pid].terminal
    <2>1. x \notin gone /\ msg'[x].pid = msg[x].pid /\ msg[x].pid \notin gone
      BY <1>1, EraseThreads
    <2>2. /\ msg[x].pid \in Msg
          /\ msg[msg[x].pid].phase = "sent" /\ ~msg[msg[x].pid].terminal
      BY <1>0, <2>1 DEF ParentOnHost, IsSent
    <2> QED BY <1>1, <2>1, <2>2, EraseThreads
  <1>2. ASSUME NEW m \in Msg, Writes(m)
        PROVE  /\ msg'[msg'[x].pid].phase = "sent"
               /\ ~msg'[msg'[x].pid].terminal
    <2>1. Repliable(msg'[x].pid)
      BY <1>0, <1>2 DEF Writes, ParentOnHost, Repliable
    <2>2. msg'[x].pid # m
      BY <1>2, <2>1 DEF Writes, Repliable, IsSent
    <2> QED BY <1>2, <2>1, <2>2 DEF Writes, Repliable, IsSent
  <1>3. CASE KeepsThreads
    <2>1. Repliable(msg[x].pid)
      BY <1>0, <1>3 DEF KeepsThreads, ParentOnHost, Repliable
    <2> QED BY <1>3, <2>1 DEF KeepsThreads, Repliable, IsSent
  <1> QED BY <1>1, <1>2, <1>3, ThreadCases, Erases

\* Whatever is edited, sent, purged or removed, what a message replies to is
\* on the host, sent, and open to replies.
THEOREM RepliesToWhatIsThere == Spec => []ParentOnHost
  <1>1. Init => ParentOnHost
    BY BlankRows DEF Init, ParentOnHost
  <1>2. StoreInv /\ ParentOnHost /\ [Next]_vars => ParentOnHost'
    BY ParentStep
  <1> QED BY <1>1, <1>2, StoreInit, StoreStep, PTL DEF Spec

-----------------------------------------------------------------------------
(***************************************************************************)
(* No message is its own ancestor.  A set of messages closed under parents *)
(* that has the parent of m and not m shows it for m; the sent messages    *)
(* are closed, so such a set can always be found among them.               *)
(***************************************************************************)

Closed(S) == \A y \in S : msg[y].pid # NoMsg => msg[y].pid \in S

Above(m, S) == msg[m].pid \in S /\ Closed(S) /\ m \notin S

Acyclic == \A m \in Msg : msg[m].pid # NoMsg => \E S \in SUBSET Msg : Above(m, S)

\* What the walk up from a message reaches is the least closed set.
LEMMA UpLeast ==
    ASSUME TypeOK, NEW m \in Msg
    PROVE  /\ m \in Up(m)
           /\ Up(m) \subseteq Msg
           /\ Closed(Up(m))
           /\ \A S \in SUBSET Msg : m \in S /\ Closed(S) => Up(m) \subseteq S
  <1>1. m \in Up(m) /\ Up(m) \subseteq Msg
    BY DEF Up
  <1>2. \A S \in SUBSET Msg : m \in S /\ Closed(S) => Up(m) \subseteq S
    BY DEF Up, Closed
  <1>3. ASSUME NEW y \in Up(m), msg[y].pid # NoMsg
        PROVE  msg[y].pid \in Up(m)
    <2>1. y \in Msg /\ msg[y].pid \in Msg
      BY <1>1, <1>3, FieldTypes DEF TypeOK
    <2>2. ASSUME NEW S \in SUBSET Msg, m \in S, Closed(S)
          PROVE  msg[y].pid \in S
      BY <1>2, <1>3, <2>2 DEF Closed
    <2> QED BY <2>1, <2>2 DEF Up, Closed
  <1> QED BY <1>1, <1>2, <1>3 DEF Closed

LEMMA AcyclicUp ==
    ASSUME TypeOK, Acyclic
    PROVE  ThreadsAcyclic
  <1> SUFFICES ASSUME NEW m \in Msg, msg[m].pid # NoMsg
               PROVE  m \notin Up(msg[m].pid)
    BY DEF ThreadsAcyclic
  <1>1. msg[m].pid \in Msg
    BY FieldTypes DEF TypeOK
  <1>2. PICK S \in SUBSET Msg : Above(m, S)
    BY DEF Acyclic
  <1> QED BY <1>1, <1>2, UpLeast DEF Above

\* The messages that are sent are closed under parents, and so is what of
\* a closed set is sent.
LEMMA SentClosed ==
    ASSUME TypeOK, ParentOnHost, NEW S \in SUBSET Msg, Closed(S)
    PROVE  Closed({y \in S : IsSent(y)})
  BY DEF Closed, ParentOnHost, IsSent

LEMMA AcyclicStep ==
    ASSUME StoreInv, ParentOnHost, Acyclic, [Next]_vars
    PROVE  Acyclic'
  <1> USE DEF StoreInv
  <1>0. /\ \A x \in Msg : msg[x].pid \in Msg \cup {NoMsg}
        /\ NoMsg \notin Msg
    BY FieldTypes, MsgAssumption DEF TypeOK
  <1> SUFFICES ASSUME NEW x \in Msg, msg'[x].pid # NoMsg
               PROVE  \E S \in SUBSET Msg : Above(x, S)'
    BY DEF Acyclic
  <1>1. ASSUME \A y \in Msg : msg'[y].pid = msg[y].pid \/ msg'[y].pid = NoMsg
        PROVE  \E S \in SUBSET Msg : Above(x, S)'
    <2>1. PICK S \in SUBSET Msg : Above(x, S)
      BY <1>1 DEF Acyclic
    <2>2. Above(x, S)'
      BY <1>1, <2>1 DEF Above, Closed
    <2> QED BY <2>2
  <1>2. ASSUME NEW gone, msg' = Erase(gone)
        PROVE  \A y \in Msg : msg'[y].pid = msg[y].pid \/ msg'[y].pid = NoMsg
    BY <1>2, EraseThreads
  <1>3. ASSUME NEW CONSTANT S \in SUBSET Msg, Closed(S), msg'[x].pid \in S,
               x \notin S, \A y \in S : msg'[y].pid = msg[y].pid
        PROVE  \E T \in SUBSET Msg : Above(x, T)'
    BY <1>3 DEF Above, Closed
  <1>4. ASSUME NEW m \in Msg, Writes(m)
        PROVE  \E S \in SUBSET Msg : Above(x, S)'
    <2>1. /\ \A y \in Msg \ {m} : msg'[y].pid = msg[y].pid
          /\ ~IsSent(m)
      BY <1>4 DEF Writes, IsSent
    <2>2. CASE x = m
      <3> DEFINE S == {y \in Msg : IsSent(y)}
      <3>1. Closed(Msg)
        BY <1>0 DEF Closed
      <3>2. Closed(S) /\ S \in SUBSET Msg
        BY <3>1, SentClosed
      <3>3. msg'[x].pid \in S /\ x \notin S
        BY <1>4, <2>1, <2>2 DEF Writes, Repliable
      <3>4. \A y \in S : msg'[y].pid = msg[y].pid
        BY <2>1
      <3> HIDE DEF S
      <3> QED BY <1>3, <3>2, <3>3, <3>4
    <2>3. CASE x # m
      <3>1. PICK T \in SUBSET Msg : Above(x, T)
        BY <2>1, <2>3 DEF Acyclic
      <3> DEFINE S == {y \in T : IsSent(y)}
      <3>2. Closed(S)
        BY <3>1, SentClosed DEF Above
      <3>3. msg'[x].pid \in S /\ x \notin S /\ m \notin S
        BY <2>1, <2>3, <3>1 DEF Above, ParentOnHost
      <3> HIDE DEF S
      <3>4. S \in SUBSET Msg
        BY DEF S
      <3>5. \A y \in S : msg'[y].pid = msg[y].pid
        BY <2>1, <3>3, <3>4
      <3> QED BY <1>3, <3>2, <3>3, <3>4, <3>5
    <2> QED BY <2>2, <2>3
  <1>5. CASE KeepsThreads
    BY <1>1, <1>5 DEF KeepsThreads
  <1> QED BY <1>1, <1>2, <1>4, <1>5, ThreadCases, Erases

\* No sequence of requests and deliveries makes a message its own ancestor,
\* in threads of any length: the walks up and down a thread end.
THEOREM ThreadsEnd == Spec => []ThreadsAcyclic
  <1>1. Init => ParentOnHost /\ Acyclic
    BY BlankRows DEF Init, ParentOnHost, Acyclic
  <1>2. StoreInv /\ ParentOnHost /\ Acyclic /\ [Next]_vars
           => ParentOnHost' /\ Acyclic'
    BY ParentStep, AcyclicStep
  <1>3. StoreInv /\ Acyclic => ThreadsAcyclic
    BY AcyclicUp DEF StoreInv
  <1> QED BY <1>1, <1>2, <1>3, StoreInit, StoreStep, PTL DEF Spec
-----------------------------------------------------------------------------
(***************************************************************************)
(* Trash along a thread                                                    *)
(***************************************************************************)

\* A walk up whose messages keep their parents is the same walk.
LEMMA UpKept ==
    ASSUME TypeOK, NEW m \in Msg, \A x \in Up(m) : msg'[x].pid = msg[x].pid
    PROVE  Up(m)' = Up(m)
  <1> DEFINE U == Up(m)
             Closed2(S) == \A y \in S : msg'[y].pid # NoMsg => msg'[y].pid \in S
  <1>1. /\ m \in U /\ U \in SUBSET Msg /\ Closed(U)
        /\ \A S \in SUBSET Msg : m \in S /\ Closed(S) => U \subseteq S
    BY UpLeast
  <1>2. \A x \in U : msg'[x].pid = msg[x].pid
    OBVIOUS
  <1>3. Up(m)' = {x \in Msg : \A S \in SUBSET Msg :
                                 m \in S /\ Closed2(S) => x \in S}
    BY DEF Up
  <1> HIDE DEF U
  <1>4. Closed2(U)
    BY <1>1, <1>2 DEF Closed
  <1>5. ASSUME NEW S \in SUBSET Msg, m \in S, Closed2(S)
        PROVE  U \subseteq S
    <2>1. Closed(S \cap U)
      BY <1>1, <1>2, <1>5 DEF Closed
    <2> QED BY <1>1, <1>5, <2>1
  <1>6. Up(m)' = U
    BY <1>1, <1>3, <1>4, <1>5
  <1> QED BY <1>6 DEF U

\* A step that writes messages leaves the trash alone, unless it is a purge.
LEMMA TrashFrame ==
    ASSUME TypeOK, [Next]_vars, msg' # msg
    PROVE  trash' = trash \/ \E a \in Local, m \in Msg : Purge(a, m)
  <1>1. CASE FmsgdNext
    BY <1>1, FmsgdEffect
  <1>2. CASE LocalNext
    <2>1. PICK a \in Local, m \in Msg :
            \/ \E tos, p, f : Create(a, m, tos, p, f) \/ Update(a, m, tos, p, f)
            \/ DeleteDraft(a, m)
            \/ Send(a, m)
            \/ \E adds : AddRecipients(a, m, adds)
            \/ \E s \in Msg : React(a, s, m)
            \/ \E thread : TrashSent(a, m, thread) \/ Restore(a, m, thread)
            \/ Purge(a, m)
      BY <1>2 DEF LocalNext
    <2> QED BY <2>1 DEF Create, Update, DeleteDraft, Send, AddRecipients,
               React, TrashSent, Restore
  <1>3. CASE JobNext \/ FaultNext
    BY <1>3 DEF JobNext, FaultNext, Resolve, SkipRecipient, RecordUsage,
       ReleaseUsage, LoseJob
  <1> QED BY <1>1, <1>2, <1>3 DEF Next, vars

\* While a holds all of a thread above m, and deletes none of it for good, the
\* thread above m stays as it is and so, if a does nothing, does its trash.
LEMMA HeldThread ==
    ASSUME StoreInv, [Next]_vars, NEW a \in Local, NEW m \in Msg,
           \A x \in Up(m) : a \in Holders(x) /\ x \notin forGood[a],
           forGood'[a] = forGood[a]
    PROVE  /\ Up(m)' = Up(m)
           /\ trash'[a] = trash[a] \/ msg' # msg =>
                 \A x \in Up(m) : trash'[a][x] = trash[a][x]
  <1> USE DEF StoreInv
  <1>1. /\ Up(m) \subseteq Msg /\ Closed(Up(m))
        /\ \A x \in Up(m) : msg[x].phase = "sent"
    BY UpLeast, HeldIsSent
  <1>2. \A x \in Up(m) : msg'[x].phase # "removed" /\ x \notin forGood'[a]
    BY <1>1, HeldStep
  <1>3. \A x \in Up(m) : msg'[x].pid = msg[x].pid
    <2> SUFFICES ASSUME NEW x \in Up(m)
                 PROVE  msg'[x].pid = msg[x].pid
      OBVIOUS
    <2>1. ASSUME NEW gone, msg' = Erase(gone)
          PROVE  msg'[x].pid = msg[x].pid
      <3>1. x \notin gone /\ x \in Msg
        BY <1>1, <1>2, <2>1, EraseThreads
      <3>2. msg[x].pid # NoMsg => msg[x].pid \in Msg /\ msg[x].pid \notin gone
        BY <1>1, <1>2, <2>1, EraseThreads DEF Closed
      <3> QED BY <2>1, <3>1, <3>2, EraseThreads
    <2>2. ASSUME NEW w \in Msg, Writes(w)
          PROVE  msg'[x].pid = msg[x].pid
      BY <1>1, <2>2 DEF Writes
    <2>3. CASE KeepsThreads
      BY <1>1, <2>3 DEF KeepsThreads
    <2> QED BY <2>1, <2>2, <2>3, ThreadCases, Erases
  <1>4. ASSUME NEW h \in Local, NEW y \in Msg, Purge(h, y), NEW x \in Up(m)
        PROVE  trash'[a][x] = trash[a][x]
    <2> DEFINE ids == TrashSubtree(h, y)
               gone == Unheld(ids, MarkPurged(h, ids))
    <2>1. /\ \A g \in Local, z \in Msg : trash'[g][z] =
                IF z \in gone THEN "none"
                ELSE IF g = h /\ z \in ids THEN "purged" ELSE trash[g][z]
          /\ \A z \in Msg : msg'[z].phase =
                IF z \in gone THEN "removed" ELSE msg[z].phase
          /\ \A g \in Local : forGood'[g] =
                IF g = h THEN forGood[g] \cup ids ELSE forGood[g]
      BY <1>4, PurgeEffect
    <2> HIDE DEF ids, gone
    <2> QED BY <1>1, <1>2, <1>4, <2>1
  <1> QED BY <1>3, <1>4, UpKept, TrashFrame

\* What an address has in its trash is its own business, along threads of
\* any length: no request of another address, and nothing fmsgd does, changes
\* the trash state of a message it holds with all that message replies to.
THEOREM TrashStaysPrivate == Spec => TrashIsPrivate
  <1> DEFINE A == \A a \in Local, m \in Msg :
                    /\ \A x \in Up(m) : a \in Holders(x) /\ x \notin forGood[a]
                    /\ forGood'[a] = forGood[a]
                    /\ trash'[a] = trash[a] \/ msg' # msg
                    => TrashState(a, m)' = TrashState(a, m)
  <1>1. StoreInv /\ [Next]_vars => [A]_vars
    <2> SUFFICES ASSUME StoreInv, [Next]_vars, NEW a \in Local, NEW m \in Msg,
                        \A x \in Up(m) : a \in Holders(x) /\ x \notin forGood[a],
                        forGood'[a] = forGood[a],
                        trash'[a] = trash[a] \/ msg' # msg
                 PROVE  TrashState(a, m)' = TrashState(a, m)
      OBVIOUS
    <2>1. Up(m)' = Up(m) /\ \A x \in Up(m) : trash'[a][x] = trash[a][x]
      BY HeldThread
    <2>2. m \in Up(m)
      BY UpLeast DEF StoreInv
    <2>3. {trash'[a][x] : x \in Up(m)'} = {trash[a][x] : x \in Up(m)}
      BY <2>1
    <2> QED BY <2>1, <2>2, <2>3 DEF TrashState
  <1>2. [][A]_vars => TrashIsPrivate
    BY DEF TrashIsPrivate
  <1> HIDE DEF A
  <1> QED BY <1>1, <1>2, StoreInit, StoreStep, PTL DEF Spec
-----------------------------------------------------------------------------
(***************************************************************************)
(* The outcome of a local delivery                                         *)
(***************************************************************************)

\* The row of a local recipient of a sent message changes only when it is
\* added to the message, or when a request resolves it.
LEMMA LocalRowStep ==
    ASSUME StoreInv, [Next]_vars, NEW x \in Msg, NEW t \in Table,
           NEW a \in Local, msg[x].phase = "sent", msg'[x].phase = "sent"
    PROVE  \/ msg'[x].rows[t][a] = msg[x].rows[t][a]
           \/ msg[x].rows[t][a] = "absent"
           \/ /\ msg[x].rows[t][a] = "pending"
              /\ \E j \in jobs, i \in Item : \E outcome :
                    /\ Resolve(j, i, outcome)
                    /\ i.msg = x /\ i.kind = t /\ i.addr = a
  <1> USE DEF StoreInv
  <1> DEFINE Goal ==
               \/ msg'[x].rows[t][a] = msg[x].rows[t][a]
               \/ msg[x].rows[t][a] = "absent"
               \/ /\ msg[x].rows[t][a] = "pending"
                  /\ \E j \in jobs, i \in Item : \E outcome :
                        /\ Resolve(j, i, outcome)
                        /\ i.msg = x /\ i.kind = t /\ i.addr = a
  <1>0. a \in Addr /\ a \notin Remote
    BY AddrAssumption DEF Addr
  <1>1. ASSUME NEW h \in Local, NEW m \in Msg, Send(h, m)
        PROVE  Goal
    BY <1>1, SendEffect
  <1>2. ASSUME NEW h \in Local, NEW m \in Msg, NEW adds \in SUBSET Addr,
               AddRecipients(h, m, adds)
        PROVE  Goal
    <2>1. /\ \A y \in Msg \ {m} : msg'[y] = msg[y]
          /\ \A r \in adds : msg[m].rows["addTo"][r] = "absent"
          /\ \A u \in Table, r \in Addr :
                \/ msg'[m].rows[u][r] = msg[m].rows[u][r]
                \/ u = "addTo" /\ r \in adds
      BY <1>2, AddEffect
    <2> QED BY <1>0, <2>1
  <1>3. ASSUME NEW gone, msg' = Erase(gone)
        PROVE  Goal
    BY <1>3, EraseEffect, BlankRows
  <1>4. ASSUME NEW j \in jobs, NEW i \in Item, NEW outcome,
               Resolve(j, i, outcome)
        PROVE  Goal
    <2>1. \/ msg'[x].rows[t][a] = msg[x].rows[t][a]
          \/ /\ x = i.msg /\ t = i.kind /\ a = i.addr
             /\ msg[x].rows[t][a] = "pending"
      BY <1>0, <1>4, ResolveEffect
    <2> QED BY <1>4, <2>1
  <1>5. ASSUME FmsgdNext
        PROVE  Goal
    <2>1. \/ msg[x].phase = "none"
          \/ \A u \in Table, r \in Addr :
                msg'[x].rows[u][r] = msg[x].rows[u][r] \/ r \in Remote
      BY <1>5, FmsgdEffect
    <2> QED BY <1>0, <2>1
  <1>6. ASSUME msg' = msg
        PROVE  Goal
    BY <1>6
  <1>7. ASSUME NEW h \in Local, NEW m \in Msg,
               \/ \E tos, p, f : Create(h, m, tos, p, f)
                                 \/ Update(h, m, tos, p, f)
               \/ \E s \in Msg : React(h, s, m)
        PROVE  Goal
    <2>1. /\ \A y \in Msg \ {m} : msg'[y] = msg[y]
          /\ msg[m].phase \in {"none", "draft"}
      <3>1. CASE \E tos, p, f : Create(h, m, tos, p, f) \/ Update(h, m, tos, p, f)
        BY <1>0, <3>1, CreateEffect
      <3>2. CASE \E s \in Msg : React(h, s, m)
        BY <1>0, <3>2, ReactEffect
      <3> QED BY <1>7, <3>1, <3>2
    <2> QED BY <2>1
  <1> HIDE DEF Goal
  <1>8. \/ msg' = msg
        \/ \E h \in Local, m \in Msg :
              \/ \E tos, p, f : Create(h, m, tos, p, f)
                                \/ Update(h, m, tos, p, f)
              \/ Send(h, m)
              \/ \E adds \in SUBSET Addr : AddRecipients(h, m, adds)
              \/ \E s \in Msg : React(h, s, m)
        \/ \E gone : msg' = Erase(gone)
        \/ \E j \in jobs, i \in Item : \E outcome : Resolve(j, i, outcome)
        \/ FmsgdNext
    BY StepCases DEF vars, DeleteDraft, TrashSent, Restore, Purge,
       SkipRecipient, RecordUsage, ReleaseUsage, LoseJob
  <1>9. Goal
    <2>1. CASE \E h \in Local, m \in Msg :
              \/ \E tos, p, f : Create(h, m, tos, p, f)
                                \/ Update(h, m, tos, p, f)
              \/ Send(h, m)
              \/ \E adds \in SUBSET Addr : AddRecipients(h, m, adds)
              \/ \E s \in Msg : React(h, s, m)
      BY <2>1, <1>1, <1>2, <1>7, Zenon
    <2>2. CASE \E j \in jobs, i \in Item : \E outcome : Resolve(j, i, outcome)
      BY <2>2, <1>4, Zenon
    <2> QED BY <1>3, <1>5, <1>6, <1>8, <2>1, <2>2
  <1> QED BY <1>9 DEF Goal

\* The outcome of a local delivery is written once, whatever requests,
\* deliveries and failures interleave.
THEOREM OutcomeWrittenOnce == Spec => LocalOutcomeFinal
  <1> DEFINE A == \A m \in Msg, t \in Table, a \in Local :
                    /\ IsSent(m)
                    /\ msg'[m].phase = "sent"
                    /\ msg[m].rows[t][a] \notin {"absent", "pending"}
                    => msg'[m].rows[t][a] = msg[m].rows[t][a]
  <1>1. StoreInv /\ [Next]_vars => [A]_vars
    BY LocalRowStep DEF IsSent
  <1>2. [][A]_vars => LocalOutcomeFinal
    BY DEF LocalOutcomeFinal
  <1> HIDE DEF A
  <1> QED BY <1>1, <1>2, StoreInit, StoreStep, PTL DEF Spec
-----------------------------------------------------------------------------
(***************************************************************************)
(* The work requests still have.  An item waits while its message is sent  *)
(* and its row has no outcome, or its message has left the host; an        *)
(* original recipient's message does not leave, since its delivery is      *)
(* pending and its retry window, which outlasts the request, is open.      *)
(***************************************************************************)

Waits(i) ==
    /\ msg[i.msg].phase \in {"sent", "removed"}
    /\ IsSent(i.msg) => msg[i.msg].rows[i.kind][i.addr] = "pending"
    /\ i.kind = "to" => IsSent(i.msg) /\ 0 \notin msg[i.msg].lapsed

WorkInv ==
    /\ \A m \in Msg : msg[m].phase \in {"none", "draft"} => 0 \notin msg[m].lapsed
    /\ \A j \in jobs : \A i \in j.todo : Waits(i)
    /\ \A j, k \in jobs : j # k => j.todo \cap k.todo = {}

\* A window closes by itself only, and not while a request has work there.
LEMMA LapsedStep ==
    ASSUME TypeOK, [Next]_vars, NEW x \in Msg
    PROVE  \/ msg'[x].lapsed = msg[x].lapsed
           \/ msg'[x].phase = "removed"
           \/ msg[x].phase = "none" /\ msg'[x].phase = "sent"
           \/ \E b : /\ RetryWindowOver(x, b)
                     /\ msg'[x].lapsed = msg[x].lapsed \cup {b}
  <1> DEFINE Goal == \/ msg'[x].lapsed = msg[x].lapsed
                     \/ msg'[x].phase = "removed"
                     \/ msg[x].phase = "none" /\ msg'[x].phase = "sent"
                     \/ \E b : /\ RetryWindowOver(x, b)
                               /\ msg'[x].lapsed = msg[x].lapsed \cup {b}
  <1>0. msg[x] \in Message /\ msg \in [Msg -> Message]
    BY DEF TypeOK
  <1>1. ASSUME NEW a \in Local, NEW m \in Msg, NEW tos, NEW p, NEW f,
               Create(a, m, tos, p, f) \/ Update(a, m, tos, p, f)
        PROVE  Goal
    <2>1. msg' = [msg EXCEPT ![m] = Draft(a, tos, p, f, msg[m])]
      BY <1>1 DEF Create, Update
    <2>2. Draft(a, tos, p, f, msg[m]).lapsed = msg[m].lapsed
      BY DEF Draft, TypeOK, Message
    <2> QED BY <1>0, <2>1, <2>2
  <1>2. ASSUME NEW a \in Local, NEW m \in Msg, Send(a, m)
        PROVE  Goal
    BY <1>0, <1>2 DEF Send, Message
  <1>3. ASSUME NEW a \in Local, NEW m \in Msg, NEW adds \in SUBSET Addr,
               AddRecipients(a, m, adds)
        PROVE  Goal
    <2>1. x # m => msg'[x] = msg[x]
      BY <1>3, AddEffect
    <2>2. \E batch, rows, notify :
             msg'[m] = [msg[m] EXCEPT !.batch = batch, !.rows = rows,
                                      !.notify = notify]
      BY <1>0, <1>3 DEF AddRecipients, Message
    <2>3. msg'[m].lapsed = msg[m].lapsed
      BY <1>0, <2>2 DEF Message
    <2> QED BY <2>1, <2>3
  <1>4. ASSUME NEW a \in Local, NEW s \in Msg, NEW m \in Msg, React(a, s, m)
        PROVE  Goal
    BY <1>4, ReactEffect
  <1>5. ASSUME NEW gone, msg' = Erase(gone)
        PROVE  Goal
    <2>1. x \in gone => msg'[x].phase = "removed"
      BY <1>5, EraseThreads
    <2>2. x \notin gone => \/ msg'[x] = msg[x]
                           \/ msg'[x] = [msg[x] EXCEPT !.pid = NoMsg]
      BY <1>5 DEF Erase
    <2>3. [msg[x] EXCEPT !.pid = NoMsg].lapsed = msg[x].lapsed
      BY <1>0 DEF Message
    <2> QED BY <2>1, <2>2, <2>3
  <1>6. ASSUME NEW j \in jobs, NEW i \in Item, NEW outcome,
               Resolve(j, i, outcome)
        PROVE  Goal
    BY <1>0, <1>6 DEF Resolve, Message, Item
  <1>7. ASSUME NEW m \in Msg, NEW t \in Table, NEW r \in Remote, NEW outcome,
               FmsgdAttempt(m, t, r, outcome)
        PROVE  Goal
    BY <1>0, <1>7 DEF FmsgdAttempt, Message
  <1>8. ASSUME NEW m \in Msg, NEW n, FmsgdNotify(m, n)
        PROVE  Goal
    BY <1>0, <1>8 DEF FmsgdNotify, Message
  <1>9. ASSUME NEW m \in Msg, NEW b, RetryWindowOver(m, b)
        PROVE  Goal
    <2>1. msg' = [msg EXCEPT ![m].lapsed = @ \cup {b}]
      BY <1>9 DEF RetryWindowOver
    <2>2. x # m => msg'[x] = msg[x]
      BY <1>0, <2>1
    <2>3. x = m => msg'[x].lapsed = msg[x].lapsed \cup {b}
      BY <1>0, <2>1 DEF Message
    <2> QED BY <1>9, <2>2, <2>3
  <1>10. ASSUME NEW r, NEW m \in Msg, NEW tos, NEW accepted, NEW p, NEW f,
                FmsgdReceive(r, m, tos, accepted, p, f), FmsgdNext
         PROVE  Goal
    <2>1. x # m => msg'[x] = msg[x]
      BY <1>0, <1>10 DEF FmsgdReceive
    <2>2. msg[m].phase = "none" /\ msg'[m].phase = "sent"
      BY <1>0, <1>10 DEF FmsgdReceive, Blank
    <2> QED BY <2>1, <2>2
  <1>11. ASSUME msg' = msg
         PROVE  Goal
    BY <1>11
  <1> HIDE DEF Goal
  <1>12. CASE FmsgdNext
    <2>1. PICK m \in Msg :
        \/ \E r \in Remote, tos \in Recipients, p \in Msg \cup {NoMsg},
              f \in Terminal : \E accepted \in SUBSET tos :
              FmsgdReceive(r, m, tos, accepted, p, f)
        \/ \E t \in Table, r \in Remote, outcome \in
              {"noresponse", "retryable", "refused", "delivered"} :
              FmsgdAttempt(m, t, r, outcome)
        \/ \E n \in msg[m].notify : FmsgdNotify(m, n)
        \/ \E b \in 0 .. MaxBatches : "age" \in Ops /\ RetryWindowOver(m, b)
      BY <1>12 DEF FmsgdNext
    <2>2. Goal
      BY <1>12, <2>1, <1>7, <1>8, <1>9, <1>10, Zenon
    <2> QED BY <2>2 DEF Goal
  <1>13. CASE ~FmsgdNext
    <2>1. \/ msg' = msg
          \/ \E a \in Local, m \in Msg :
              \/ \E tos, p, f : Create(a, m, tos, p, f)
                                \/ Update(a, m, tos, p, f)
              \/ Send(a, m)
              \/ \E adds \in SUBSET Addr : AddRecipients(a, m, adds)
              \/ \E s \in Msg : React(a, s, m)
          \/ \E gone : msg' = Erase(gone)
          \/ \E j \in jobs, i \in Item : \E outcome : Resolve(j, i, outcome)
      BY <1>13, StepCases DEF vars, DeleteDraft, TrashSent, Restore, Purge,
         SkipRecipient, RecordUsage, ReleaseUsage, LoseJob
    <2>2. Goal
      BY <2>1, <1>1, <1>2, <1>3, <1>4, <1>5, <1>6, <1>11, Zenon
    <2> QED BY <2>2 DEF Goal
  <1> QED BY <1>12, <1>13
\* A message with an original recipient still to resolve is not removed.
LEMMA PurgeSpares ==
    ASSUME TypeOK, NEW a \in Local, NEW m \in Msg, Purge(a, m), NEW i \in Item,
           Waits(i), i.kind = "to"
    PROVE  msg'[i.msg].phase = "sent"
  <1> DEFINE ids == TrashSubtree(a, m)
             gone == Unheld(ids, MarkPurged(a, ids))
  <1>1. i.msg \in Msg /\ i.addr \in Addr
    BY DEF Item, Addr
  <1>2. DeliveryPending(i.msg)
    <2>1. msg[i.msg].rows["to"][i.addr] \in Undelivered
      BY DEF Waits, Undelivered
    <2>2. Group(i.msg, "to", i.addr) \notin msg[i.msg].lapsed
      BY DEF Waits, Group
    <2> QED BY <1>1, <2>1, <2>2 DEF Waits, DeliveryPending, Table
  <1>3. i.msg \notin gone
    BY <1>2 DEF Unheld
  <1>4. \A x \in Msg : msg'[x].phase =
           IF x \in gone THEN "removed" ELSE msg[x].phase
    BY PurgeEffect
  <1> HIDE DEF gone
  <1> QED BY <1>1, <1>3, <1>4 DEF Waits, IsSent

\* A removed message stays removed, and a sent one stays sent or is removed,
\* by a purge.
LEMMA SentOrRemoved ==
    ASSUME TypeOK, Shape, [Next]_vars, NEW x \in Msg
    PROVE  /\ msg[x].phase = "removed" => msg'[x].phase = "removed"
           /\ msg[x].phase = "sent" =>
                 \/ msg'[x].phase = "sent"
                 \/ /\ msg'[x].phase = "removed"
                    /\ \E a \in Local, m \in Msg : Purge(a, m)
  <1>1. ASSUME NEW a \in Local, NEW m \in Msg, Purge(a, m)
        PROVE  \/ msg'[x].phase = msg[x].phase
               \/ msg[x].phase = "sent" /\ msg'[x].phase = "removed"
    <2> DEFINE ids == TrashSubtree(a, m)
               gone == Unheld(ids, MarkPurged(a, ids))
    <2>1. /\ gone \subseteq ids
          /\ \A y \in ids : msg[y].phase = "sent"
          /\ \A y \in Msg : msg'[y].phase =
                IF y \in gone THEN "removed" ELSE msg[y].phase
      BY <1>1, PurgeEffect DEF IsSent
    <2> HIDE DEF ids, gone
    <2> QED BY <2>1
  <1> QED BY <1>1, PhaseStep

LEMMA WaitsStep ==
    ASSUME StoreInv, [Next]_vars, NEW i \in Delivery, Waits(i),
           \E j \in jobs : i \in j.todo,
           ~ \E j \in jobs, k \in Item : \E outcome :
                /\ Resolve(j, k, outcome)
                /\ k.msg = i.msg /\ k.kind = i.kind /\ k.addr = i.addr
    PROVE  Waits(i)'
  <1> USE DEF StoreInv
  <1>0. i \in Item /\ i.msg \in Msg /\ i.addr \in Local /\ i.kind \in Table
    BY DEF Delivery, Item
  <1>1. CASE msg[i.msg].phase = "removed"
    BY <1>0, <1>1, SentOrRemoved DEF Waits, IsSent
  <1>2. CASE msg[i.msg].phase = "sent" /\ msg'[i.msg].phase = "sent"
    <2>1. msg'[i.msg].rows[i.kind][i.addr] = "pending"
      BY <1>0, <1>2, LocalRowStep DEF Waits, IsSent
    <2>2. \A b : ~RetryWindowOver(i.msg, b)
      BY DEF RetryWindowOver
    <2>3. msg'[i.msg].lapsed = msg[i.msg].lapsed
      BY <1>0, <1>2, <2>2, LapsedStep
    <2> QED BY <1>2, <2>1, <2>3 DEF Waits, IsSent
  <1>3. CASE msg[i.msg].phase = "sent" /\ msg'[i.msg].phase = "removed"
    BY <1>0, <1>3, SentOrRemoved, PurgeSpares DEF Waits, IsSent
  <1> QED BY <1>0, <1>1, <1>2, <1>3, SentOrRemoved DEF Waits

\* At most one request starts with new recipients to resolve, which nobody
\* had to resolve before and which wait now; the others keep theirs.
Begins(T) ==
    /\ \A i \in T : ~Waits(i) /\ Waits(i)'
    /\ \A k \in jobs' : k \in jobs \/ k.todo = T
    /\ \A k, l \in jobs' : k \in jobs \/ l \in jobs \/ k = l

LEMMA SendBegins ==
    ASSUME StoreInv, WorkInv, NEW a \in Local, NEW m \in Msg, Send(a, m)
    PROVE  \E T : Begins(T)
  <1> USE DEF StoreInv
  <1> DEFINE T == UNION {LocalRows(m, t, {r \in Local :
                           msg[m].rows[t][r] # "absent"}) : t \in Table}
  <1>1. jobs' = Start(T, {SendItem(a, m)}, {})
    BY DEF Send
  <1>2. /\ msg[m].phase = "draft" /\ msg'[m].phase = "sent"
        /\ msg'[m].rows = msg[m].rows
    BY SendEffect
  <1>3. msg'[m].lapsed = msg[m].lapsed /\ 0 \notin msg[m].lapsed
    BY <1>2 DEF Send, TypeOK, Message, WorkInv
  <1>4. ASSUME NEW i \in T
        PROVE  ~Waits(i) /\ Waits(i)'
    <2>1. PICK t \in Table : i \in LocalRows(m, t, {r \in Local :
                                     msg[m].rows[t][r] # "absent"})
      OBVIOUS
    <2>2. /\ i.msg = m /\ i.kind = t /\ i.addr \in Addr
          /\ msg[m].rows[t][i.addr] # "absent"
      BY <2>1 DEF LocalRows, Addr
    <2>3. msg[m].rows[t][i.addr] = "pending"
      BY <1>2, <2>2 DEF Shape
    <2> QED BY <1>2, <1>3, <2>2, <2>3 DEF Waits, IsSent
  <1> HIDE DEF T
  <1>5. \A k \in jobs' : k \in jobs \/ k.todo = T
    BY <1>1, StartJobs
  <1>6. \A k, l \in jobs' : k \in jobs \/ l \in jobs \/ k = l
    BY <1>1 DEF Start
  <1> QED BY <1>4, <1>5, <1>6 DEF Begins

LEMMA AddBegins ==
    ASSUME StoreInv, WorkInv, NEW a \in Local, NEW m \in Msg,
           NEW adds \in SUBSET Addr, AddRecipients(a, m, adds)
    PROVE  jobs' = jobs \/ \E T : Begins(T)
  <1> USE DEF StoreInv
  <1> DEFINE T == LocalRows(m, "addTo", adds)
  <1>1. SUFFICES ASSUME IsSent(m)
                 PROVE  \E S : Begins(S)
    BY DEF AddRecipients
  <1>2. jobs' = Start(T, {}, {})
    BY <1>1 DEF AddRecipients
  <1>3. /\ msg'[m].phase = "sent"
        /\ \A r \in adds : /\ msg[m].rows["addTo"][r] = "absent"
                           /\ msg'[m].rows["addTo"][r] = "pending"
    <2>1. /\ msg'[m].phase = msg[m].phase
          /\ \A r \in adds : /\ msg[m].rows["addTo"][r] = "absent"
                             /\ msg'[m].rows["addTo"][r] = "pending"
      BY AddEffect
    <2> QED BY <1>1, <2>1 DEF IsSent
  <1>4. \A i \in T : ~Waits(i) /\ Waits(i)'
    BY <1>1, <1>3 DEF LocalRows, Waits, IsSent
  <1> HIDE DEF T
  <1>5. \A k \in jobs' : k \in jobs \/ k.todo = T
    BY <1>2, StartJobs
  <1>6. \A k, l \in jobs' : k \in jobs \/ l \in jobs \/ k = l
    BY <1>2 DEF Start
  <1> QED BY <1>4, <1>5, <1>6 DEF Begins

LEMMA ReactBegins ==
    ASSUME StoreInv, WorkInv, NEW a \in Local, NEW s \in Msg, NEW m \in Msg,
           React(a, s, m)
    PROVE  \E T : Begins(T)
  <1> USE DEF StoreInv
  <1> DEFINE tos == (RecipientsOf(s) \cup {msg[s].from}) \ {a}
             d == Draft(a, tos, s, TRUE, msg[m])
             T == LocalRows(m, "to", tos)
  <1>1. jobs' = Start(T, {SendItem(a, m)}, {})
    BY DEF React
  <1>2. msg[m].phase = "none" /\ msg'[m].phase = "sent"
    BY ReactEffect
  <1>3. /\ d.rows = [msg[m].rows EXCEPT !["to"] = PendingRows(tos)]
        /\ d.lapsed = msg[m].lapsed
    <2> HIDE DEF tos
    <2> QED BY DEF Draft, TypeOK, Message
  <1>4. msg' = [msg EXCEPT ![m] = [d EXCEPT !.phase = "sent"]]
    BY DEF React
  <1>5. msg'[m].rows = d.rows /\ msg'[m].lapsed = d.lapsed
    <2>1. d \in Message
      BY DraftType DEF TypeOK
    <2> HIDE DEF d
    <2> QED BY <1>4, <2>1 DEF TypeOK, Message
  <1>6. 0 \notin msg[m].lapsed
    BY <1>2 DEF WorkInv
  <1>7. \A r \in tos \cap Addr : msg'[m].rows["to"][r] = "pending"
    <2>1. msg[m].rows \in [Table -> [Addr -> RowState]]
      BY RowsFunction
    <2> HIDE DEF tos, d
    <2> QED BY <1>3, <1>5, <2>1 DEF PendingRows, Table
  <1>8. \A i \in T : i.msg = m /\ i.kind = "to" /\ i.addr \in tos \cap Addr
    BY DEF LocalRows, Item, Addr
  <1> HIDE DEF T, tos, d
  <1>9. \A i \in T : ~Waits(i) /\ Waits(i)'
    BY <1>2, <1>3, <1>5, <1>6, <1>7, <1>8 DEF Waits, IsSent
  <1>10. \A k \in jobs' : k \in jobs \/ k.todo = T
    BY <1>1, StartJobs
  <1>11. \A k, l \in jobs' : k \in jobs \/ l \in jobs \/ k = l
    BY <1>1 DEF Start
  <1> QED BY <1>9, <1>10, <1>11 DEF Begins
\* The request j goes on with the recipients in X, or has ended.
Narrows(j, X) ==
    /\ \A k \in jobs' : (k \in jobs /\ k # j) \/ k.todo = X
    /\ \A k, l \in jobs' : \/ k \in jobs /\ k # j
                           \/ l \in jobs /\ l # j
                           \/ k = l

LEMMA ContinueNarrows ==
    ASSUME NEW j \in jobs, NEW k, Continue(j, k)
    PROVE  Narrows(j, k.todo)
  BY DEF Continue, Narrows

LEMMA JobNarrows ==
    ASSUME TypeOK, NEW j \in jobs, NEW i \in Item,
           \/ \E outcome : Resolve(j, i, outcome)
           \/ SkipRecipient(j, i)
           \/ \E ok \in BOOLEAN : RecordUsage(j, i, ok) \/ ReleaseUsage(j, i, ok)
    PROVE  \E X \in SUBSET j.todo :
              /\ Narrows(j, X)
              /\ \A outcome : Resolve(j, i, outcome) => i \notin X
  <1>0. j \in Job
    BY DEF TypeOK
  <1>1. \A x, y : /\ [j EXCEPT !.todo = x, !.record = y].todo = x
                  /\ [j EXCEPT !.todo = x].todo = x
                  /\ [j EXCEPT !.record = y].todo = j.todo
                  /\ [j EXCEPT !.release = y].todo = j.todo
    BY <1>0 DEF Job
  <1>2. ASSUME NEW outcome, Resolve(j, i, outcome)
        PROVE  Narrows(j, j.todo \ {i})
    <2> DEFINE x == j.todo \ {i}
               y == IF /\ IsSent(i.msg)
                       /\ msg[i.msg].rows[i.kind][i.addr] = "pending"
                       /\ outcome = "delivered"
                    THEN {i} ELSE {}
    <2>1. Continue(j, [j EXCEPT !.todo = x, !.record = y])
      BY <1>2 DEF Resolve
    <2> HIDE DEF x, y
    <2>2. Narrows(j, [j EXCEPT !.todo = x, !.record = y].todo)
      BY <2>1, ContinueNarrows
    <2>3. Narrows(j, x)
      BY <1>1, <2>2
    <2> QED BY <2>3 DEF x
  <1>3. CASE \E outcome : Resolve(j, i, outcome)
    BY <1>2, <1>3
  <1>4. CASE ~ \E outcome : Resolve(j, i, outcome)
    <2>1. CASE SkipRecipient(j, i)
      <3> DEFINE x == j.todo \ {i}
      <3>1. Continue(j, [j EXCEPT !.todo = x])
        BY <2>1 DEF SkipRecipient
      <3>2. x \in SUBSET j.todo
        OBVIOUS
      <3> HIDE DEF x
      <3>3. Narrows(j, [j EXCEPT !.todo = x].todo)
        BY <3>1, ContinueNarrows
      <3>4. Narrows(j, x)
        BY <1>1, <3>3
      <3> QED BY <1>4, <3>2, <3>4
    <2>2. CASE \E ok \in BOOLEAN : RecordUsage(j, i, ok) \/ ReleaseUsage(j, i, ok)
      <3>1. \E y : \/ Continue(j, [j EXCEPT !.record = y])
                   \/ Continue(j, [j EXCEPT !.release = y])
        BY <2>2 DEF RecordUsage, ReleaseUsage
      <3>2. PICK y : \/ Continue(j, [j EXCEPT !.record = y])
                     \/ Continue(j, [j EXCEPT !.release = y])
        BY <3>1
      <3>3. \/ Narrows(j, [j EXCEPT !.record = y].todo)
            \/ Narrows(j, [j EXCEPT !.release = y].todo)
        BY <3>2, ContinueNarrows
      <3>4. Narrows(j, j.todo)
        BY <1>1, <3>3
      <3> QED BY <1>4, <3>4
    <2> QED BY <1>4, <2>1, <2>2
  <1> QED BY <1>3, <1>4

\* What a request has resolved, no request still has to resolve.
LEMMA ResolvedDone ==
    ASSUME TypeOK, WorkInv, NEW j \in jobs, NEW i \in Item, NEW outcome,
           Resolve(j, i, outcome), NEW l \in jobs'
    PROVE  i \notin l.todo
  <1>1. PICK X \in SUBSET j.todo : Narrows(j, X) /\ i \notin X
    BY JobNarrows
  <1>2. i \in j.todo
    BY DEF Resolve
  <1>3. (l \in jobs /\ l # j) \/ l.todo = X
    BY <1>1 DEF Narrows
  <1> QED BY <1>1, <1>2, <1>3 DEF WorkInv

LEMMA TodoCases ==
    ASSUME StoreInv, WorkInv, [Next]_vars
    PROVE  \/ \E T : Begins(T)
           \/ \E j \in jobs : \E X \in SUBSET j.todo : Narrows(j, X)
  <1> USE DEF StoreInv
  <1>1. ASSUME jobs' = jobs
        PROVE  \E T : Begins(T)
    <2>1. Begins({})
      BY <1>1 DEF Begins
    <2> QED BY <2>1
  <1>2. ASSUME NEW a \in Local, NEW m \in Msg, Purge(a, m)
        PROVE  \E T : Begins(T)
    <2>1. \E l : jobs' = Start({}, {}, l)
      BY <1>2 DEF Purge
    <2>2. PICK l : jobs' = Start({}, {}, l)
      BY <2>1
    <2>3. \A k \in jobs' : k \in jobs \/ k.todo = {}
      BY <2>2, StartJobs
    <2>4. \A k, n \in jobs' : k \in jobs \/ n \in jobs \/ k = n
      BY <2>2 DEF Start
    <2>5. Begins({})
      BY <2>3, <2>4 DEF Begins
    <2> QED BY <2>5
  <1>3. ASSUME NEW j \in jobs, LoseJob(j)
        PROVE  \E X \in SUBSET j.todo : Narrows(j, X)
    BY <1>3 DEF LoseJob, Narrows
  <1>4. ASSUME NEW a \in Local, NEW m \in Msg,
               \/ \E tos, p, f : Create(a, m, tos, p, f)
                                 \/ Update(a, m, tos, p, f)
               \/ DeleteDraft(a, m)
               \/ \E thread : TrashSent(a, m, thread) \/ Restore(a, m, thread)
        PROVE  jobs' = jobs
    BY <1>4 DEF Create, Update, DeleteDraft, TrashSent, Restore
  <1>5. CASE FmsgdNext
    BY <1>1, <1>5, FmsgdEffect
  <1>6. CASE UNCHANGED vars
    BY <1>1, <1>6 DEF vars
  <1>7. CASE \E a \in Local, m \in Msg :
                 \/ \E tos, p, f : Create(a, m, tos, p, f)
                                   \/ Update(a, m, tos, p, f)
                 \/ DeleteDraft(a, m)
                 \/ Send(a, m)
                 \/ \E adds \in SUBSET Addr : AddRecipients(a, m, adds)
                 \/ \E s \in Msg : React(a, s, m)
                 \/ \E thread : TrashSent(a, m, thread) \/ Restore(a, m, thread)
                 \/ Purge(a, m)
    BY <1>1, <1>2, <1>4, <1>7, SendBegins, AddBegins, ReactBegins
  <1>8. CASE \E j \in jobs, i \in Item :
                 \/ \E outcome : Resolve(j, i, outcome)
                 \/ SkipRecipient(j, i)
                 \/ \E ok \in BOOLEAN : RecordUsage(j, i, ok)
                 \/ \E ok \in BOOLEAN : ReleaseUsage(j, i, ok)
    BY <1>8, JobNarrows
  <1> QED BY <1>3, <1>5, <1>6, <1>7, <1>8, StepCases

LEMMA WorkStep ==
    ASSUME StoreInv, WorkInv, [Next]_vars
    PROVE  WorkInv'
  <1> USE DEF StoreInv
  <1>0. \A j \in jobs : j.todo \subseteq Delivery
    BY DEF TypeOK, Job
  <1>1. ASSUME NEW j \in jobs, NEW i \in j.todo, NEW l \in jobs', i \in l.todo
        PROVE  Waits(i)'
    <2>1. i \in Delivery /\ i \in Item
      BY <1>0 DEF Delivery
    <2>2. ASSUME NEW h \in jobs, NEW k \in Item, NEW outcome,
                 Resolve(h, k, outcome),
                 k.msg = i.msg, k.kind = i.kind, k.addr = i.addr
          PROVE  FALSE
      <3>1. k = i
        BY <2>1, <2>2 DEF Item
      <3> QED BY <1>1, <2>2, <3>1, ResolvedDone
    <2> QED BY <2>1, <2>2, WaitsStep DEF WorkInv
  <1>2. \A m \in Msg : msg'[m].phase \in {"none", "draft"}
                          => 0 \notin msg'[m].lapsed
    <2> SUFFICES ASSUME NEW m \in Msg, msg'[m].phase \in {"none", "draft"}
                 PROVE  0 \notin msg'[m].lapsed
      OBVIOUS
    <2>1. msg[m].phase \in {"none", "draft"}
      BY SentOrRemoved, RowsFunction DEF Phase
    <2>2. \A b : RetryWindowOver(m, b) => b # 0
      BY <2>1 DEF RetryWindowOver, IsSent
    <2> QED BY <2>1, <2>2, LapsedStep DEF WorkInv
  <1>3. ASSUME NEW T, Begins(T)
        PROVE  /\ \A j \in jobs' : \A i \in j.todo : Waits(i)'
               /\ \A j, k \in jobs' : j # k => j.todo \cap k.todo = {}
    <2>1. \A j \in jobs' : \A i \in j.todo : Waits(i)'
      BY <1>1, <1>3 DEF Begins
    <2>2. \A j \in jobs : j.todo \cap T = {}
      BY <1>3 DEF Begins, WorkInv
    <2>3. \A j, k \in jobs' : j # k => j.todo \cap k.todo = {}
      BY <1>3, <2>2 DEF Begins, WorkInv
    <2> QED BY <2>1, <2>3
  <1>4. ASSUME NEW j \in jobs, NEW X \in SUBSET j.todo, Narrows(j, X)
        PROVE  /\ \A l \in jobs' : \A i \in l.todo : Waits(i)'
               /\ \A k, l \in jobs' : k # l => k.todo \cap l.todo = {}
    <2>1. \A l \in jobs' : \A i \in l.todo : \E k \in jobs : i \in k.todo
      BY <1>4 DEF Narrows
    <2>2. \A l \in jobs' : \A i \in l.todo : Waits(i)'
      BY <1>1, <2>1
    <2>3. \A k, l \in jobs' : k # l => k.todo \cap l.todo = {}
      BY <1>4 DEF Narrows, WorkInv
    <2> QED BY <2>2, <2>3
  <1> QED BY <1>2, <1>3, <1>4, TodoCases DEF WorkInv

\* Whatever interleaves, is lost or fails, and for any number of requests: no
\* two requests resolve the same recipient, and a message is not removed from
\* under the request that resolves its original recipients.
THEOREM WorkIsThere == Spec => []WorkFindsItsRow
  <1>1. Init => WorkInv
    BY DEF Init, WorkInv, Blank
  <1>2. StoreInv /\ WorkInv /\ [Next]_vars => WorkInv'
    BY WorkStep
  <1>3. WorkInv => WorkFindsItsRow
    BY DEF WorkInv, Waits, WorkFindsItsRow
  <1> QED BY <1>1, <1>2, <1>3, StoreInit, StoreStep, PTL DEF Spec
-----------------------------------------------------------------------------
(***************************************************************************)
(* Custody: the store implements it, step by step.  A holder is a local    *)
(* sender or a recipient that accepted; every step that is not a purge or  *)
(* the deletion of a draft can only give one message more holders.         *)
(***************************************************************************)

NoneHeldUnsent == \A x \in Msg : msg[x].phase # "sent" => Holders(x) = {}

LEMMA UnsentUnheld == StoreInv => NoneHeldUnsent
  BY HeldIsSent DEF StoreInv, NoneHeldUnsent

\* The sender of a sent message does not change.
LEMMA SenderStays ==
    ASSUME TypeOK, [Next]_vars, NEW x \in Msg, msg[x].phase = "sent",
           msg'[x].phase = "sent"
    PROVE  msg'[x].from = msg[x].from
  <1>1. ASSUME NEW gone, msg' = Erase(gone)
        PROVE  msg'[x].from = msg[x].from
    BY <1>1, EraseThreads
  <1>2. ASSUME NEW m \in Msg, Writes(m)
        PROVE  msg'[x].from = msg[x].from
    BY <1>2 DEF Writes
  <1>3. CASE KeepsThreads
    BY <1>3 DEF KeepsThreads
  <1> QED BY <1>1, <1>2, <1>3, ThreadCases, Erases

\* Nobody who holds a message stops holding it while it is on the host.
LEMMA HoldersGrow ==
    ASSUME StoreInv, [Next]_vars, NEW x \in Msg, msg'[x].phase # "removed"
    PROVE  Holders(x) \subseteq Holders(x)'
  <1> USE DEF StoreInv
  <1> SUFFICES ASSUME NEW a \in Holders(x)
               PROVE  a \in Holders(x)'
    OBVIOUS
  <1>1. a \in Local /\ msg[x].phase = "sent"
    BY HeldIsSent
  <1>2. msg'[x].phase = "sent" /\ msg'[x].from = msg[x].from
    BY <1>1, SentOrRemoved, SenderStays
  <1>3. \A t \in Table : msg[x].rows[t][a] = "delivered"
                            => msg'[x].rows[t][a] = "delivered"
    BY <1>1, <1>2, LocalRowStep
  <1> QED BY <1>1, <1>2, <1>3 DEF Holders, IsSent

\* Other steps than a purge and the deletion of a draft write one message.
LEMMA OneWritten ==
    ASSUME TypeOK, [Next]_vars
    PROVE  \/ \E a \in Local, m \in Msg : Purge(a, m) \/ DeleteDraft(a, m)
           \/ /\ forGood' = forGood
              /\ \/ msg' = msg
                 \/ \E m \in Msg :
                       /\ \A x \in Msg \ {m} : msg'[x] = msg[x]
                       /\ msg[m].phase # "removed"
                       /\ msg'[m].phase # "removed"
  <1> DEFINE One == /\ forGood' = forGood
                    /\ \/ msg' = msg
                       \/ \E m \in Msg :
                             /\ \A x \in Msg \ {m} : msg'[x] = msg[x]
                             /\ msg[m].phase # "removed"
                             /\ msg'[m].phase # "removed"
  <1>1. ASSUME NEW a \in Local, NEW m \in Msg,
               \/ \E tos, p, f : Create(a, m, tos, p, f)
                                 \/ Update(a, m, tos, p, f)
               \/ Send(a, m)
               \/ \E adds \in SUBSET Addr : AddRecipients(a, m, adds)
               \/ \E s \in Msg : React(a, s, m)
        PROVE  One
    <2>1. /\ \A x \in Msg \ {m} : msg'[x] = msg[x]
          /\ msg[m].phase # "removed"
          /\ msg'[m].phase # "removed"
      <3>1. CASE \E tos, p, f : Create(a, m, tos, p, f)
                                \/ Update(a, m, tos, p, f)
        BY <3>1, CreateEffect
      <3>2. CASE Send(a, m)
        BY <3>2, SendEffect
      <3>3. CASE \E adds \in SUBSET Addr : AddRecipients(a, m, adds)
        BY <3>3, AddEffect
      <3>4. CASE \E s \in Msg : React(a, s, m)
        BY <3>4, ReactEffect
      <3> QED BY <1>1, <3>1, <3>2, <3>3, <3>4
    <2>2. forGood' = forGood
      BY <1>1 DEF Create, Update, Send, AddRecipients, React
    <2> QED BY <2>1, <2>2
  <1>2. ASSUME NEW j \in jobs, NEW i \in Item, NEW outcome,
               Resolve(j, i, outcome)
        PROVE  One
    <2>1. i.msg \in Msg /\ msg \in [Msg -> Message]
      BY DEF Item, TypeOK
    <2>2. \A x \in Msg \ {i.msg} : msg'[x] = msg[x]
      BY <1>2, <2>1 DEF Resolve
    <2>3. msg'[i.msg].phase = msg[i.msg].phase
      BY <1>2, <2>1, ResolveEffect
    <2>4. msg' = msg \/ msg[i.msg].phase = "sent"
      BY <1>2 DEF Resolve, IsSent
    <2>5. forGood' = forGood
      BY <1>2 DEF Resolve
    <2> QED BY <2>1, <2>2, <2>3, <2>4, <2>5
  <1>3. ASSUME FmsgdNext
        PROVE  One
    <2>1. PICK m \in Msg :
        \/ \E r \in Remote, tos \in Recipients, p \in Msg \cup {NoMsg},
              f \in Terminal : \E accepted \in SUBSET tos :
              FmsgdReceive(r, m, tos, accepted, p, f)
        \/ \E t \in Table, r \in Remote, outcome \in
              {"noresponse", "retryable", "refused", "delivered"} :
              FmsgdAttempt(m, t, r, outcome)
        \/ \E n \in msg[m].notify : FmsgdNotify(m, n)
        \/ \E b \in 0 .. MaxBatches : "age" \in Ops /\ RetryWindowOver(m, b)
      BY <1>3 DEF FmsgdNext
    <2>2. \A x \in Msg \ {m} : msg'[x] = msg[x]
      <3>1. \E n : msg' = [msg EXCEPT ![m] = n]
        BY <2>1 DEF FmsgdReceive, FmsgdAttempt, FmsgdNotify, RetryWindowOver
      <3> QED BY <3>1 DEF TypeOK
    <2>3. msg[m].phase # "removed"
      BY <2>1 DEF FmsgdReceive, FmsgdAttempt, FmsgdNotify, RetryWindowOver,
         IsSent
    <2>4. msg'[m].phase # "removed" /\ forGood' = forGood
      BY <1>3, <2>3, FmsgdEffect
    <2> QED BY <2>2, <2>3, <2>4
  <1>4. ASSUME UNCHANGED <<msg, forGood>>
        PROVE  One
    BY <1>4
  <1> HIDE DEF One
  <1>5. \/ One
        \/ \E a \in Local, m \in Msg : Purge(a, m) \/ DeleteDraft(a, m)
    <2>1. \/ UNCHANGED <<msg, forGood>>
          \/ \E a \in Local, m \in Msg :
               \/ \E tos, p, f : Create(a, m, tos, p, f)
                                 \/ Update(a, m, tos, p, f)
               \/ DeleteDraft(a, m)
               \/ Send(a, m)
               \/ \E adds \in SUBSET Addr : AddRecipients(a, m, adds)
               \/ \E s \in Msg : React(a, s, m)
               \/ Purge(a, m)
          \/ \E j \in jobs, i \in Item : \E outcome : Resolve(j, i, outcome)
          \/ FmsgdNext
      BY StepCases DEF vars, TrashSent, Restore, SkipRecipient, RecordUsage,
         ReleaseUsage, LoseJob
    <2>2. CASE \E j \in jobs, i \in Item : \E outcome : Resolve(j, i, outcome)
      BY <2>2, <1>2, Zenon
    <2> QED BY <2>1, <2>2, <1>1, <1>3, <1>4
  <1> QED BY <1>5 DEF One

\* Such a step only adds holders, to a message that is on the host.
LEMMA TakesOn ==
    ASSUME StoreInv, [Next]_vars, forGood' = forGood, NEW m \in Msg,
           \A x \in Msg \ {m} : msg'[x] = msg[x],
           msg[m].phase # "removed", msg'[m].phase # "removed"
    PROVE  C!TakeOn(m, Holders(m)')
  <1>1. \A x \in Msg \ {m} : Holders(x)' = Holders(x)
    BY DEF Holders, IsSent
  <1>2. Holders(m) \subseteq Holders(m)'
    BY HoldersGrow
  <1>3. \A x \in Msg : msg'[x].phase = "removed" <=> msg[x].phase = "removed"
    OBVIOUS
  <1>4. [x \in Msg |-> Holders(x)]' =
           [[x \in Msg |-> Holders(x)] EXCEPT ![m] = @ \cup Holders(m)']
    BY <1>1, <1>2
  <1>5. UNCHANGED <<[x \in Msg |-> {a \in Local : x \in forGood[a]}],
                    {x \in Msg : msg[x].phase = "removed"}>>
    BY <1>3
  <1>6. m \notin {x \in Msg : msg[x].phase = "removed"}
    OBVIOUS
  <1> QED BY <1>4, <1>5, <1>6 DEF C!TakeOn

\* Deleting rows takes the holders of those messages only.
LEMMA EraseHolders ==
    ASSUME TypeOK, NEW gone, msg' = Erase(gone), NEW x \in Msg
    PROVE  Holders(x)' = IF x \in gone THEN {} ELSE Holders(x)
  <1>0. \A a \in Local : a \in Addr
    BY DEF Addr
  <1>1. CASE x \in gone
    <2>1. msg'[x] = Blank("removed")
      BY <1>1, EraseEffect
    <2> QED BY <1>0, <1>1, <2>1, BlankRows DEF Holders, IsSent
  <1>2. CASE x \notin gone
    BY <1>2, EraseEffect, EraseThreads DEF Holders, IsSent
  <1> QED BY <1>1, <1>2

\* Nobody holds a draft, or has deleted it for good.
LEMMA Discards ==
    ASSUME StoreInv, [Next]_vars, NEW a \in Local, NEW m \in Msg,
           DeleteDraft(a, m)
    PROVE  C!Discard(m)
  <1> USE DEF StoreInv
  <1>1. msg[m].phase = "draft" /\ msg' = Erase({m}) /\ forGood' = forGood
    BY DEF DeleteDraft
  <1>2. Holders(m) = {}
    BY <1>1, UnsentUnheld DEF NoneHeldUnsent
  <1>3. {h \in Local : m \in forGood[h]} = {}
    BY <1>1 DEF PurgeInv
  <1>4. \A x \in Msg : Holders(x)' = Holders(x)
    BY <1>1, <1>2, EraseHolders
  <1>5. \A x \in Msg : msg'[x].phase = "removed"
                          <=> msg[x].phase = "removed" \/ x = m
    BY <1>1, EraseThreads
  <1>6. /\ [x \in Msg |-> Holders(x)][m] = {}
        /\ [x \in Msg |-> {h \in Local : x \in forGood[h]}][m] = {}
    BY <1>2, <1>3
  <1>7. /\ {x \in Msg : msg[x].phase = "removed"}' =
              {x \in Msg : msg[x].phase = "removed"} \cup {m}
        /\ UNCHANGED <<[x \in Msg |-> Holders(x)],
                       [x \in Msg |-> {h \in Local : x \in forGood[h]}]>>
    BY <1>1, <1>4, <1>5
  <1> QED BY <1>6, <1>7 DEF C!Discard

\* What a purge removes, all its holders let go of, the caller with it.
LEMMA LetsGo ==
    ASSUME StoreInv, [Next]_vars, NEW a \in Local, NEW m \in Msg, Purge(a, m)
    PROVE  \E S \in SUBSET Msg : \E leave \in SUBSET S : C!LetGo(a, S, leave)
  <1> USE DEF StoreInv
  <1> DEFINE ids == TrashSubtree(a, m)
             gone == Unheld(ids, MarkPurged(a, ids))
  <1>1. ids \in SUBSET Msg /\ gone \in SUBSET ids
    BY DEF TrashSubtree, Unheld
  <1>2. /\ \A x \in ids : msg[x].phase = "sent"
        /\ \A h \in Local : forGood'[h] =
              IF h = a THEN forGood[h] \cup ids ELSE forGood[h]
        /\ \A x \in Msg : msg'[x].phase =
              IF x \in gone THEN "removed" ELSE msg[x].phase
    BY PurgeEffect DEF IsSent
  <1>3. msg' = Erase(gone)
    BY DEF Purge
  <1> HIDE DEF ids, gone
  <1>4. \A x \in Msg : Holders(x)' = IF x \in gone THEN {} ELSE Holders(x)
    BY <1>3, EraseHolders
  <1>5. \A x \in gone : Holders(x) \subseteq {h \in Local : x \in forGood'[h]}
    BY <1>1, <1>2, HeldStep, HeldIsSent
  <1> DEFINE Left(x) == {h \in Local : x \in forGood[h]}
             Left2(x) == {h \in Local : x \in forGood'[h]}
  <1>6. \A x \in Msg : Left2(x) = Left(x) \cup (IF x \in ids THEN {a} ELSE {})
    BY <1>2
  <1>7. ids \cap {x \in Msg : msg[x].phase = "removed"} = {}
    BY <1>2
  <1>8. [x \in Msg |-> Left2(x)] =
           [x \in Msg |-> [y \in Msg |-> Left(y)][x]
                             \cup (IF x \in ids THEN {a} ELSE {})]
    BY <1>6
  <1>9. \A x \in gone : [y \in Msg |-> Holders(y)][x]
                           \subseteq [y \in Msg |-> Left2(y)][x]
    BY <1>1, <1>5
  <1>10. [x \in Msg |-> Holders(x)]' =
            [x \in Msg |-> IF x \in gone THEN {}
                           ELSE [y \in Msg |-> Holders(y)][x]]
    BY <1>4
  <1>11. {x \in Msg : msg[x].phase = "removed"}' =
            {x \in Msg : msg[x].phase = "removed"} \cup gone
    BY <1>1, <1>2
  <1>12. C!LetGo(a, ids, gone)
    BY <1>1, <1>7, <1>8, <1>9, <1>10, <1>11 DEF C!LetGo
  <1>13. \E leave \in SUBSET ids : C!LetGo(a, ids, leave)
    BY <1>1, <1>12 DEF C!LetGo
  <1> QED BY <1>1, <1>13 DEF C!LetGo

\* Every step of the store is a step of Custody or leaves it alone.
LEMMA CustodyStep == StoreInv /\ [Next]_vars => [C!Next]_(C!vars)
  <1> SUFFICES ASSUME StoreInv, [Next]_vars
               PROVE  [C!Next]_(C!vars)
    OBVIOUS
  <1>1. ASSUME NEW a \in Local, NEW m \in Msg, Purge(a, m)
        PROVE  C!Next
    BY <1>1, LetsGo DEF C!Next
  <1>2. ASSUME NEW a \in Local, NEW m \in Msg, DeleteDraft(a, m)
        PROVE  C!Next
    BY <1>2, Discards DEF C!Next
  <1>3. ASSUME UNCHANGED <<msg, forGood>>
        PROVE  UNCHANGED C!vars
    <2>1. \A x \in Msg : Holders(x)' = Holders(x)
      BY <1>3 DEF Holders, IsSent
    <2> QED BY <1>3, <2>1 DEF C!vars
  <1>4. ASSUME forGood' = forGood, NEW m \in Msg,
               \A x \in Msg \ {m} : msg'[x] = msg[x],
               msg[m].phase # "removed", msg'[m].phase # "removed"
        PROVE  C!Next
    <2>1. C!TakeOn(m, Holders(m)')
      BY <1>4, TakesOn
    <2>2. Holders(m)' \in SUBSET Local
      BY DEF Holders, IsSent
    <2> QED BY <2>1, <2>2 DEF C!Next
  <1> QED BY <1>1, <1>2, <1>3, <1>4, OneWritten DEF StoreInv

\* The store implements Custody, for any addresses, messages, inputs and
\* failures: whatever happens, the host keeps a message until each address
\* that sent or accepted it has let go of it, and never brings one back.
THEOREM StoreKeepsCustody == Spec => KeepsCustody
  <1>1. Init => C!Init
    <2> SUFFICES ASSUME Init PROVE C!Init
      OBVIOUS
    <2>1. \A x \in Msg : msg[x] = Blank("none")
      BY DEF Init
    <2>2. \A x \in Msg : Holders(x) = {}
      BY <2>1, BlankRows DEF Holders, IsSent, Addr
    <2>3. \A x \in Msg : {a \in Local : x \in forGood[a]} = {}
      BY DEF Init
    <2>4. {x \in Msg : msg[x].phase = "removed"} = {}
      BY <2>1, BlankRows
    <2> QED BY <2>2, <2>3, <2>4 DEF C!Init
  <1>2. Spec => C!Init /\ [][C!Next]_(C!vars)
    <2> HIDE DEF C!Init, C!Next, C!vars
    <2> QED BY <1>1, CustodyStep, StoreInit, StoreStep, PTL DEF Spec
  <1> QED BY <1>2 DEF KeepsCustody, C!Spec

-----------------------------------------------------------------------------
(***************************************************************************)
(* The read routes, in every state the store can reach.  What they show    *)
(* follows from the invariants of the store: its trash rows are what       *)
(* addresses deleted for good (StoreInv), what is replied to is on the     *)
(* host (ParentOnHost), threads end (Acyclic), and only finitely many ids  *)
(* have been used (FiniteStore).                                           *)
(***************************************************************************)

\* What the walk up from a message reaches besides it is sent.
LEMMA UpSent ==
    ASSUME TypeOK, ParentOnHost, NEW m \in Msg
    PROVE  \A x \in Up(m) : x = m \/ IsSent(x)
  <1> DEFINE S == {m} \cup {x \in Msg : IsSent(x)}
  <1>1. Closed(S)
    BY FieldTypes DEF Closed, ParentOnHost, TypeOK
  <1>2. Up(m) \subseteq S
    BY <1>1, UpLeast
  <1> QED BY <1>2

LEMMA UpInside ==
    ASSUME TypeOK, NEW m \in Msg, NEW x \in Up(m)
    PROVE  x \in Msg /\ Up(x) \subseteq Up(m)
  <1>1. Up(m) \subseteq Msg /\ Closed(Up(m))
    BY UpLeast
  <1> QED BY <1>1, UpLeast

\* A message is deleted for good for an address through its own rows alone.
LEMMA PurgedState ==
    ASSUME NEW a \in Local, NEW m \in Msg
    PROVE  PurgedFor(a, m) <=> \E x \in Up(m) : trash[a][x] = "purged"
  <1>1. m \in Up(m)
    BY DEF Up
  <1> QED BY <1>1 DEF PurgedFor, TrashState

LEMMA PurgedByOwn ==
    ASSUME StoreInv, ParentOnHost, NEW a \in Local, NEW m \in Msg
    PROVE  /\ Up(m) \cap forGood[a] = {} => ~PurgedFor(a, m)
           /\ IsSent(m) /\ Up(m) \cap forGood[a] # {} => PurgedFor(a, m)
  <1>1. TypeOK /\ PurgeInv
    BY DEF StoreInv
  <1>2. Up(m) \subseteq Msg
    BY DEF Up
  <1>3. \A x \in Up(m) : x = m \/ IsSent(x)
    BY <1>1, UpSent
  <1>4. \A x \in Up(m) : /\ trash[a][x] = "purged" => x \in forGood[a]
                         /\ x \in forGood[a] /\ IsSent(x)
                                => trash[a][x] = "purged"
    BY <1>1, <1>2 DEF PurgeInv
  <1> QED BY <1>3, <1>4, PurgedState

-----------------------------------------------------------------------------
(***************************************************************************)
(* What is hidden, and from whom                                           *)
(***************************************************************************)

ReadInv == StoreInv /\ ParentOnHost /\ Acyclic

LEMMA ReadInit == Init => ReadInv
  <1>1. Init => ParentOnHost /\ Acyclic
    BY BlankRows DEF Init, ParentOnHost, Acyclic
  <1> QED BY <1>1, StoreInit DEF ReadInv

LEMMA ReadStep == ReadInv /\ [Next]_vars => ReadInv'
  BY StoreStep, ParentStep, AcyclicStep DEF ReadInv

\* The messages both lists show are those count works on.
LEMMA ListedAre ==
    ASSUME NEW a \in Local, NEW mode
    PROVE  Listed(a, mode) = {m \in Msg : /\ IsSent(m)
                                          /\ Participates(a, m)
                                          /\ Filter(TrashState(a, m), mode)}
  BY DEF Listed, List, SentList, Participates, IsRecipient

\* Only its own deletes hide a message from an address, for any threads.
THEOREM WhatIsKeptIsReadable == Spec => []KeptIsReadable
  <1>1. ReadInv => KeptIsReadable
    <2> SUFFICES ASSUME ReadInv, NEW a \in Local, NEW m \in Msg, IsSent(m),
                        Participates(a, m), Up(m) \cap forGood[a] = {}
                 PROVE  /\ m \in Listed(a, "include")
                        /\ Get(a, m) /\ DownloadData(a, m) /\ Download(a, m)
                        /\ ThreadText(a, m)
      BY DEF KeptIsReadable
    <2>1. ~PurgedFor(a, m)
      BY PurgedByOwn DEF ReadInv
    <2>2. m \in Listed(a, "include")
      BY <2>1, ListedAre DEF PurgedFor, Filter
    <2>3. ~Hidden(a, m) /\ (msg[m].from = a \/ IsRecipient(a, m))
      BY DEF Hidden, IsSent, Participates, IsRecipient
    <2> QED BY <2>1, <2>2, <2>3 DEF Get, DownloadData, Download, ThreadText,
               Readable, PurgedFor
  <1> QED BY <1>1, ReadInit, ReadStep, PTL DEF Spec

\* What an address deleted for good, or replies to that, no route shows it.
THEOREM WhatIsDeletedIsUnreadable == Spec => []DeletedIsUnreadable
  <1>1. ReadInv => DeletedIsUnreadable
    <2> SUFFICES ASSUME ReadInv, NEW a \in Local, NEW m \in Msg, IsSent(m),
                        Up(m) \cap forGood[a] # {}
                 PROVE  /\ \A mode \in Modes : m \notin Listed(a, mode)
                        /\ ~(Get(a, m) \/ DownloadData(a, m) \/ Download(a, m))
                        /\ \A x \in Msg :
                              /\ ThreadMessages(a, x) => m \notin Contents(a, x)
                              /\ ThreadText(a, x) =>
                                    m \notin Chain(x, MaxHops)
                                                \ Placeholders(a, x)
      BY DEF DeletedIsUnreadable
    <2>1. TrashState(a, m) = "purged"
      BY PurgedByOwn DEF ReadInv, PurgedFor
    <2>2. \A mode \in Modes : ~Filter("purged", mode)
      BY DEF Modes, Filter
    <2>3. \A mode \in Modes : m \notin Listed(a, mode)
      BY <2>1, <2>2, ListedAre
    <2>4. ~(Get(a, m) \/ DownloadData(a, m) \/ Download(a, m))
      BY <2>1 DEF Get, DownloadData, Download, PurgedFor
    <2>5. ~Readable(a, m)
      BY <2>1 DEF Readable
    <2> QED BY <2>3, <2>4, <2>5 DEF Contents, Placeholders
  <1> QED BY <1>1, ReadInit, ReadStep, PTL DEF Spec

\* In a thread an address may read, it takes no part in what is not shown.
THEOREM ThreadHidesNothingOwn == Spec => []ThreadHidesOnlyOthers
  <1>1. ReadInv => ThreadHidesOnlyOthers
    <2> SUFFICES ASSUME ReadInv, NEW a \in Local, NEW m \in Msg,
                        ThreadText(a, m), NEW x \in Placeholders(a, m),
                        Participates(a, x)
                 PROVE  FALSE
      BY DEF ThreadHidesOnlyOthers
    <2>1. /\ x \in Up(m) /\ ~Readable(a, x)
          /\ ~PurgedFor(a, m) /\ Readable(a, m)
      BY DEF Placeholders, Chain, ThreadText
    <2>2. x = m \/ IsSent(x)
      BY <2>1, UpSent DEF ReadInv, StoreInv
    <2>3. x \in Msg /\ Up(x) \subseteq Up(m)
      BY <2>1, UpInside DEF ReadInv, StoreInv
    <2>4. ~PurgedFor(a, x)
      BY <2>1, <2>3, PurgedState
    <2> QED BY <2>1, <2>2, <2>4 DEF Readable, Participates, IsRecipient,
               PurgedFor
  <1> QED BY <1>1, ReadInit, ReadStep, PTL DEF Spec
-----------------------------------------------------------------------------
(***************************************************************************)
(* Finitely many messages                                                  *)
(***************************************************************************)

Live == {m \in Msg : msg[m].phase \in {"draft", "sent"}}

FiniteStore == IsFiniteSet(Live)

LEMMA FiniteInit == Init => FiniteStore
  <1> SUFFICES ASSUME Init PROVE FiniteStore
    OBVIOUS
  <1>1. Live = {}
    BY BlankRows DEF Init, Live
  <1> QED BY <1>1, FS_EmptySet DEF FiniteStore

LEMMA FiniteStep == StoreInv /\ FiniteStore /\ [Next]_vars => FiniteStore'
  <1> SUFFICES ASSUME StoreInv, FiniteStore, [Next]_vars
               PROVE  FiniteStore'
    OBVIOUS
  <1>0. TypeOK
    BY DEF StoreInv
  <1>1. ASSUME NEW m, Live' \subseteq Live \cup {m}
        PROVE  FiniteStore'
    <2>1. IsFiniteSet(Live \cup {m})
      BY FS_AddElement DEF FiniteStore
    <2>2. IsFiniteSet(Live')
      BY <1>1, <2>1, FS_Subset
    <2> QED BY <2>2 DEF FiniteStore
  <1>2. ASSUME NEW gone, msg' = Erase(gone)
        PROVE  FiniteStore'
    <2>1. Live' \subseteq Live \cup {NoMsg}
      BY <1>0, <1>2, EraseThreads DEF Live
    <2> QED BY <1>1, <2>1
  <1>3. ASSUME NEW m \in Msg, Writes(m)
        PROVE  FiniteStore'
    <2>1. Live' \subseteq Live \cup {m}
      BY <1>3 DEF Live, Writes
    <2> QED BY <1>1, <2>1
  <1>4. CASE KeepsThreads
    <2>1. Live' \subseteq Live \cup {NoMsg}
      BY <1>4 DEF Live, KeepsThreads
    <2> QED BY <1>1, <2>1
  <1> QED BY <1>0, <1>2, <1>3, <1>4, ThreadCases, Erases

LEMMA UpFinite ==
    ASSUME TypeOK, ParentOnHost, FiniteStore, NEW m \in Msg
    PROVE  IsFiniteSet(Up(m))
  <1>1. Up(m) \subseteq Live \cup {m}
    BY UpSent DEF Live, IsSent, Up
  <1>2. IsFiniteSet(Live \cup {m})
    BY FS_AddElement DEF FiniteStore
  <1> QED BY <1>1, <1>2, FS_Subset

-----------------------------------------------------------------------------
(***************************************************************************)
(* A lineage is a line: of two messages on it one lies above the other,    *)
(* and each lies one deeper than the one that replies to it.               *)
(***************************************************************************)

LEMMA UpStep ==
    ASSUME TypeOK, NEW m \in Msg
    PROVE  Up(m) = IF msg[m].pid = NoMsg THEN {m} ELSE {m} \cup Up(msg[m].pid)
  <1>1. /\ m \in Up(m) /\ Closed(Up(m)) /\ Up(m) \subseteq Msg
        /\ \A S \in SUBSET Msg : m \in S /\ Closed(S) => Up(m) \subseteq S
    BY UpLeast
  <1>2. CASE msg[m].pid = NoMsg
    <2>1. Closed({m})
      BY <1>2 DEF Closed
    <2> QED BY <1>1, <1>2, <2>1
  <1>3. CASE msg[m].pid # NoMsg
    <2> PICK p : p = msg[m].pid
      OBVIOUS
    <2>1. p \in Msg /\ p \in Up(m)
      BY <1>1, <1>3, FieldTypes DEF TypeOK, Closed
    <2>2. Closed(Up(p)) /\ p \in Up(p) /\ Up(p) \subseteq Msg
      BY <2>1, UpLeast
    <2>3. Closed({m} \cup Up(p))
      BY <2>2 DEF Closed
    <2>4. Up(m) \subseteq {m} \cup Up(p)
      BY <1>1, <2>2, <2>3
    <2>5. Up(p) \subseteq Up(m)
      BY <2>1, UpInside
    <2> QED BY <1>1, <1>3, <2>4, <2>5
  <1> QED BY <1>2, <1>3

LEMMA UpAntisymmetric ==
    ASSUME TypeOK, Acyclic, NEW x \in Msg, NEW y \in Up(x), x \in Up(y)
    PROVE  x = y
  <1> SUFFICES ASSUME x # y PROVE FALSE
    OBVIOUS
  <1> PICK p : p = msg[x].pid
    OBVIOUS
  <1>1. p # NoMsg /\ y \in Up(p)
    BY UpStep
  <1>2. p \in Msg
    BY <1>1, FieldTypes DEF TypeOK
  <1>3. Up(y) \subseteq Up(p)
    BY <1>1, <1>2, UpInside
  <1>4. x \notin Up(p)
    BY <1>1, AcyclicUp DEF ThreadsAcyclic
  <1> QED BY <1>3, <1>4

LEMMA UpLinear ==
    ASSUME TypeOK, NEW m \in Msg, NEW x \in Up(m), NEW y \in Up(m)
    PROVE  x \in Up(y) \/ y \in Up(x)
  <1>1. x \in Msg /\ Up(m) \subseteq Msg
    BY UpInside, UpLeast
  <1> DEFINE S == {z \in Msg : x \in Up(z) \/ z \in Up(x)}
  <1>2. m \in S
    OBVIOUS
  <1>3. ASSUME NEW z \in S, msg[z].pid # NoMsg
        PROVE  msg[z].pid \in S
    <2> PICK p : p = msg[z].pid
      OBVIOUS
    <2>1. p \in Msg
      BY <1>3, FieldTypes DEF TypeOK
    <2>2. CASE z \in Up(x)
      BY <1>1, <1>3, <2>1, <2>2, UpLeast DEF Closed
    <2>3. CASE x \in Up(z) /\ x # z
      BY <1>3, <2>1, <2>3, UpStep
    <2>4. CASE x = z
      BY <1>1, <1>3, <2>1, <2>4, UpLeast DEF Closed
    <2> QED BY <1>3, <2>2, <2>3, <2>4
  <1>4. Closed(S)
    BY <1>3 DEF Closed
  <1>5. Up(m) \subseteq S
    BY <1>2, <1>4, UpLeast
  <1> QED BY <1>5

\* The depths of the messages on the lineage of m.
LEMMA Depths ==
    ASSUME TypeOK, ParentOnHost, Acyclic, FiniteStore, NEW m \in Msg
    PROVE  /\ Depth(m, m) = 0
           /\ \A x \in Up(m) : Depth(m, x) \in Nat
           /\ \A x \in Up(m) : msg[x].pid # NoMsg =>
                 Depth(m, msg[x].pid) = Depth(m, x) + 1
           /\ \A x \in Up(m) : \A y \in Up(x) :
                 y # x => Depth(m, x) < Depth(m, y)
  <1>1. IsFiniteSet(Up(m)) /\ Up(m) \subseteq Msg
    BY UpFinite, UpLeast
  <1>2. ASSUME NEW S PROVE IsFiniteSet(Up(m) \ S)
    BY <1>1, FS_Subset
  <1>3. Depth(m, m) = 0
    <2>1. Up(m) \ Up(m) = {}
      OBVIOUS
    <2> QED BY <2>1, FS_EmptySet DEF Depth
  <1>4. \A x \in Up(m) : Depth(m, x) \in Nat
    BY <1>2, FS_CardinalityType DEF Depth
  <1>5. ASSUME NEW x \in Up(m), msg[x].pid # NoMsg
        PROVE  Depth(m, msg[x].pid) = Depth(m, x) + 1
    <2> PICK p : p = msg[x].pid
      OBVIOUS
    <2>1. x \in Msg /\ Up(x) = {x} \cup Up(p) /\ x \notin Up(p)
      BY <1>1, <1>5, UpStep, AcyclicUp DEF ThreadsAcyclic
    <2>2. Up(m) \ Up(p) = (Up(m) \ Up(x)) \cup {x} /\ x \notin Up(m) \ Up(x)
      BY <1>5, <2>1
    <2>3. Cardinality((Up(m) \ Up(x)) \cup {x}) = Cardinality(Up(m) \ Up(x)) + 1
      BY <1>2, <2>2, FS_AddElement
    <2> QED BY <2>2, <2>3 DEF Depth
  <1>6. ASSUME NEW x \in Up(m), NEW y \in Up(x), y # x
        PROVE  Depth(m, x) < Depth(m, y)
    <2>1. x \in Msg /\ y \in Msg /\ y \in Up(m)
      BY <1>1, <1>6, UpInside
    <2>2. Up(y) \subseteq Up(x)
      BY <1>6, <2>1, UpInside
    <2>3. x \notin Up(y) /\ x \in Up(x)
      BY <1>6, <2>1, UpAntisymmetric, UpLeast
    <2> DEFINE A == Up(m) \ Up(x)
               B == Up(m) \ Up(y)
    <2>4. A \subseteq B /\ x \in B /\ x \notin A
      BY <1>6, <2>2, <2>3
    <2>5. IsFiniteSet(B)
      BY <1>2
    <2>6. /\ Cardinality(A) <= Cardinality(B)
          /\ Cardinality(A) # Cardinality(B)
          /\ Cardinality(A) \in Nat /\ Cardinality(B) \in Nat
      <3> HIDE DEF A, B
      <3>1. /\ IsFiniteSet(A) /\ Cardinality(A) <= Cardinality(B)
            /\ Cardinality(B) = Cardinality(A) => B = A
        BY <2>4, <2>5, FS_Subset
      <3> QED BY <2>4, <2>5, <3>1, FS_CardinalityType
    <2> QED BY <2>6 DEF Depth
  <1> QED BY <1>3, <1>4, <1>5, <1>6
\* A chain that was cut off has one message more than the hops it was allowed,
\* and its first row replies to another.
LEMMA CutOff ==
    ASSUME TypeOK, ParentOnHost, Acyclic, FiniteStore, NEW m \in Msg,
           NEW hops \in Nat, Chain(m, hops) # Up(m)
    PROVE  /\ Cardinality(Chain(m, hops)) = hops + 1
           /\ msg[First(Chain(m, hops))].pid # NoMsg
  <1> DEFINE chain == Chain(m, hops)
  <1>0. /\ \A x : x \in chain <=> x \in Up(m) /\ Depth(m, x) <= hops
        /\ Up(m) \subseteq Msg /\ m \in Up(m) /\ IsFiniteSet(Up(m))
    BY UpLeast, UpFinite DEF Chain
  <1>1. /\ Depth(m, m) = 0
        /\ \A x \in Up(m) : Depth(m, x) \in Nat
        /\ \A x \in Up(m) : msg[x].pid # NoMsg =>
              Depth(m, msg[x].pid) = Depth(m, x) + 1
        /\ \A x \in Up(m) : \A y \in Up(x) : y # x => Depth(m, x) < Depth(m, y)
    BY Depths
  <1>2. PICK z \in Up(m) : ~(Depth(m, z) <= hops)
    BY DEF Chain
  \* The last message of the chain: without one, the chain would be closed.
  <1>3. PICK top \in chain : Depth(m, top) = hops
    <2> SUFFICES ASSUME \A x \in chain : Depth(m, x) # hops PROVE FALSE
      OBVIOUS
    <2>1. ASSUME NEW x \in chain, msg[x].pid # NoMsg
          PROVE  msg[x].pid \in chain
      <3>1. x \in Up(m) /\ Depth(m, x) <= hops /\ Depth(m, x) # hops
        BY <1>0, <2>1
      <3>2. Depth(m, msg[x].pid) = Depth(m, x) + 1 /\ Depth(m, x) \in Nat
        BY <1>1, <2>1, <3>1
      <3>3. msg[x].pid \in Up(m)
        BY <2>1, <3>1, UpLeast DEF Closed
      <3> QED BY <1>0, <3>1, <3>2, <3>3
    <2>2. Closed(chain)
      BY <2>1 DEF Closed
    <2>3. m \in chain /\ chain \subseteq Msg
      BY <1>0, <1>1
    <2>4. Up(m) \subseteq chain
      BY <2>2, <2>3, UpLeast
    <2> QED BY <1>0, <1>2, <2>4
  <1>4. top \in Up(m) /\ top \in Msg
    BY <1>0, <1>3
  <1>5. \A x \in chain : top \in Up(x)
    <2> SUFFICES ASSUME NEW x \in chain, top \notin Up(x) PROVE FALSE
      OBVIOUS
    <2>1. x \in Up(top) /\ x # top
      BY <1>0, <1>4, UpLinear, UpLeast
    <2> QED BY <1>0, <1>1, <1>3, <1>4, <2>1
  <1>6. First(chain) = top
    <2>1. ASSUME NEW x \in chain, \A y \in chain : x \in Up(y)
          PROVE  x = top
      BY <1>0, <1>3, <1>4, <1>5, <2>1, UpAntisymmetric
    <2> QED BY <1>3, <1>5, <2>1 DEF First
  <1>7. msg[top].pid # NoMsg
    <2> SUFFICES ASSUME msg[top].pid = NoMsg PROVE FALSE
      OBVIOUS
    <2>1. Up(top) = {top}
      BY <1>4, UpStep
    <2>2. z # top /\ top \in Up(z)
      BY <1>2, <1>3, <1>4, <2>1, UpLinear
    <2> QED BY <1>1, <1>2, <1>3, <1>4, <2>2
  <1>8. chain = (Up(m) \ Up(top)) \cup {top} /\ top \notin Up(m) \ Up(top)
    <2>1. ASSUME NEW x \in Up(m) \ Up(top)
          PROVE  x \in chain
      <3>1. top \in Up(x) /\ top # x
        BY <1>4, <2>1, UpLinear, UpLeast
      <3> QED BY <1>0, <1>1, <1>3, <1>4, <2>1, <3>1
    <2>2. ASSUME NEW x \in chain, x \in Up(top)
          PROVE  x = top
      BY <1>0, <1>3, <1>4, <1>5, <2>2, UpAntisymmetric
    <2>3. top \in Up(top)
      BY <1>4, UpLeast
    <2> QED BY <1>0, <1>3, <2>1, <2>2, <2>3
  <1>9. Cardinality(chain) = hops + 1
    <2>1. IsFiniteSet(Up(m) \ Up(top))
      BY <1>0, FS_Subset
    <2>2. Cardinality((Up(m) \ Up(top)) \cup {top})
             = Cardinality(Up(m) \ Up(top)) + 1
      BY <1>8, <2>1, FS_AddElement
    <2> QED BY <1>3, <1>8, <2>2 DEF Depth
  <1> QED BY <1>6, <1>7, <1>9

\* A structured thread that calls itself complete is the lineage up to its
\* root, however long threads get and whatever threadMaxHops is.
THEOREM CompleteThreads == Spec => []CompleteIsWhole
  <1>1. ReadInv /\ FiniteStore => CompleteIsWhole
    <2> SUFFICES ASSUME ReadInv, FiniteStore, NEW a \in Local, NEW m \in Msg,
                        ThreadMessages(a, m), Complete(a, m)
                 PROVE  Contents(a, m) = Up(m)
      BY DEF CompleteIsWhole
    <2>1. /\ TypeOK /\ ParentOnHost /\ Acyclic
          /\ MaxHops - 1 \in Nat /\ MaxHops = (MaxHops - 1) + 1
      BY HopsAssumption DEF ReadInv, StoreInv
    <2> PICK hops : hops = MaxHops - 1
      OBVIOUS
    <2>2. ~(Cardinality(Chain(m, hops)) = hops + 1
            /\ msg[First(Chain(m, hops))].pid # NoMsg)
      BY <2>1 DEF ThreadMessages
    <2>3. Chain(m, hops) = Up(m)
      BY <2>1, <2>2, CutOff
    <2> QED BY <2>3 DEF Complete
  <1> QED BY <1>1, ReadInit, ReadStep, FiniteInit, FiniteStep, PTL
          DEF Spec, ReadInv
-----------------------------------------------------------------------------
(***************************************************************************)
(* Counting threads.  Each part that clients draw holds exactly one        *)
(* message whose parent is not listed: at least one, for going up from any *)
(* other ends there; at most one, for what lies below such a message is a  *)
(* part on its own.                                                        *)
(***************************************************************************)

\* No reply among the messages of S leads out of T or into it.
Whole(S, T) ==
    /\ T \subseteq S
    /\ T # {}
    /\ \A y \in S : msg[y].pid \in S => (y \in T <=> msg[y].pid \in T)

Roots(S) == {m \in S : msg[m].pid \notin S}

\* The part x is in.
Part(S, x) == {y \in S : \A T : Whole(S, T) /\ x \in T => y \in T}

LEMMA PartIsThread ==
    ASSUME NEW S, NEW x \in S
    PROVE  /\ x \in Part(S, x)
           /\ Whole(S, Part(S, x))
           /\ \A T : Whole(S, T) /\ T \subseteq Part(S, x) => T = Part(S, x)
           /\ Part(S, x) \in ThreadsOf(S)
  <1>1. x \in Part(S, x) /\ Part(S, x) \subseteq S
    BY DEF Part
  <1>2. Whole(S, Part(S, x))
    BY <1>1 DEF Part, Whole
  <1>3. ASSUME NEW T, Whole(S, T), T \subseteq Part(S, x)
        PROVE  T = Part(S, x)
    <2>1. CASE x \in T
      BY <1>3, <2>1 DEF Part
    <2>2. CASE x \notin T
      <3>1. Whole(S, S \ T)
        BY <1>3, <2>2 DEF Whole
      <3>2. Part(S, x) \subseteq S \ T
        BY <2>2, <3>1 DEF Part
      <3> QED BY <1>3, <3>2 DEF Whole
    <2> QED BY <2>1, <2>2
  <1>4. Part(S, x) \in ThreadsOf(S)
    BY <1>2, <1>3 DEF ThreadsOf, Whole
  <1> QED BY <1>1, <1>2, <1>3, <1>4

LEMMA ThreadIsPart ==
    ASSUME NEW S, NEW T \in ThreadsOf(S)
    PROVE  \E x \in S : x \in T /\ T = Part(S, x)
  <1>1. Whole(S, T) /\ \A V : Whole(S, V) /\ V \subseteq T => V = T
    BY DEF ThreadsOf, Whole
  <1>2. PICK x \in S : x \in T
    BY <1>1 DEF Whole
  <1>3. Part(S, x) \subseteq T
    BY <1>1, <1>2 DEF Part
  <1> QED BY <1>1, <1>2, <1>3, PartIsThread

LEMMA LeastNumber ==
    ASSUME NEW T, T \subseteq Nat, T # {}
    PROVE  \E i \in T : \A j \in T : i <= j
  <1>1. \A i, j \in Nat : <<i, j>> \in OpToRel(<, Nat) <=> i < j
    BY DEF OpToRel
  <1>2. PICK less : /\ IsWellFoundedOn(less, Nat)
                    /\ \A i, j \in Nat : <<i, j>> \in less <=> i < j
    BY <1>1, NatLessThanWellFounded, Zenon
  <1> DEFINE L == less
  <1>0. IsWellFoundedOn(L, Nat)
    BY <1>2
  <1> HIDE DEF L
  <1>3. PICK i \in T : \A j \in T : ~ (<<j, i>> \in L)
    BY <1>0, WFMin
  <1>4. \A j \in T : i \in Nat /\ j \in Nat /\ ~(j < i)
    BY <1>2, <1>3 DEF L
  <1> QED BY <1>4

\* Going up from a listed message stops at one whose parent is not listed.
LEMMA PartHasRoot ==
    ASSUME TypeOK, ParentOnHost, Acyclic, FiniteStore,
           NEW S \in SUBSET Msg, NEW T, Whole(S, T)
    PROVE  \E r \in T : r \in Roots(S)
  <1> SUFFICES ASSUME \A r \in T : msg[r].pid \in S PROVE FALSE
    BY DEF Roots, Whole
  <1>1. PICK x \in T : x \in Msg
    BY DEF Whole
  <1>2. ASSUME NEW y \in T
        PROVE  /\ msg[y].pid \in T /\ y \in Msg /\ msg[y].pid # NoMsg
    BY <1>2, MsgAssumption DEF Whole
  <1>3. Closed(T)
    BY <1>2 DEF Closed
  <1>4. Up(x) \subseteq T
    BY <1>1, <1>2, <1>3, UpLeast
  \* Then the lineage of x has no end: every depth is reached.
  <1>5. /\ Depth(x, x) = 0
        /\ \A y \in Up(x) : Depth(x, y) \in Nat
        /\ \A y \in Up(x) : msg[y].pid # NoMsg =>
              Depth(x, msg[y].pid) = Depth(x, y) + 1
    BY <1>1, Depths
  <1>6. /\ IsFiniteSet(Up(x)) /\ x \in Up(x) /\ Closed(Up(x))
        /\ Cardinality(Up(x)) \in Nat
    BY <1>1, UpFinite, UpLeast, FS_CardinalityType
  <1> PICK n : n = Cardinality(Up(x))
    OBVIOUS
  <1>7. \A y \in Up(x) : Depth(x, y) <= n
    <2> SUFFICES ASSUME NEW y \in Up(x) PROVE Depth(x, y) <= n
      OBVIOUS
    <2> QED BY <1>6, FS_Subset DEF Depth
  <1> DEFINE Rest == {n - Depth(x, y) : y \in Up(x)}
  <1>8. Rest \subseteq Nat /\ Rest # {}
    BY <1>5, <1>6, <1>7
  <1>9. PICK k \in Rest : \A j \in Rest : k <= j
    <2> HIDE DEF Rest
    <2> QED BY <1>8, LeastNumber
  <1>10. PICK y \in Up(x) : k = n - Depth(x, y)
    BY <1>9
  <1>11. msg[y].pid \in Up(x) /\ Depth(x, msg[y].pid) = Depth(x, y) + 1
    BY <1>2, <1>4, <1>5, <1>6, <1>10 DEF Closed
  <1>12. n - Depth(x, msg[y].pid) \in Rest
    BY <1>11
  <1>13. k <= n - (Depth(x, y) + 1)
    BY <1>9, <1>11, <1>12
  <1>14. n \in Nat /\ Depth(x, y) \in Nat
    BY <1>5, <1>6
  <1> QED BY <1>10, <1>13, <1>14

\* What lies below a message whose parent is not listed is a part of its own.
LEMMA OneRoot ==
    ASSUME NEW S, NEW r \in Roots(S), NEW q \in Roots(S), q \in Part(S, r)
    PROVE  q = r
  <1> SUFFICES ASSUME q # r PROVE FALSE
    OBVIOUS
  <1> DEFINE Down(T) == r \in T /\ \A y \in S : msg[y].pid \in T => y \in T
             below == {y \in S : \A T \in SUBSET S : Down(T) => y \in T}
  <1>1. r \in below /\ below \subseteq S
    BY DEF Roots
  <1>2. ASSUME NEW y \in S, msg[y].pid \in below
        PROVE  y \in below
    BY <1>2
  <1>3. ASSUME NEW y \in below, y # r, msg[y].pid \notin below
        PROVE  FALSE
    <2>1. Down(below \ {y})
      BY <1>1, <1>2, <1>3
    <2>2. below \ {y} \in SUBSET S
      BY <1>1
    <2>3. y \in below \ {y}
      BY <1>3, <2>1, <2>2
    <2> QED BY <2>3
  <1> HIDE DEF below
  <1>4. msg[r].pid \notin S /\ msg[q].pid \notin S
    BY DEF Roots
  <1>5. Whole(S, below)
    BY <1>1, <1>2, <1>3, <1>4 DEF Whole
  <1>6. q \in below
    BY <1>1, <1>5 DEF Part
  <1> QED BY <1>1, <1>3, <1>4, <1>6

\* As many threads as messages whose parent is not listed.
LEMMA RootsCountThreads ==
    ASSUME TypeOK, ParentOnHost, Acyclic, FiniteStore,
           NEW S \in SUBSET Live
    PROVE  Cardinality(Roots(S)) = Cardinality(ThreadsOf(S))
  <1>1. IsFiniteSet(Roots(S)) /\ S \subseteq Msg /\ Roots(S) \subseteq S
    <2>1. Roots(S) \in SUBSET Live /\ S \subseteq Msg /\ Roots(S) \subseteq S
      BY DEF Roots, Live
    <2> QED BY <2>1, FS_Subset DEF FiniteStore
  <1> DEFINE f == [r \in Roots(S) |-> Part(S, r)]
  <1>2. f \in [Roots(S) -> ThreadsOf(S)]
    BY <1>1, PartIsThread
  <1>3. ASSUME NEW r \in Roots(S), NEW q \in Roots(S), f[r] = f[q]
        PROVE  r = q
    <2>1. q \in Part(S, r)
      BY <1>1, <1>3, PartIsThread
    <2> QED BY <2>1, OneRoot
  <1>4. ASSUME NEW T \in ThreadsOf(S)
        PROVE  \E r \in Roots(S) : f[r] = T
    <2>1. PICK x \in S : x \in T /\ T = Part(S, x)
      BY ThreadIsPart
    <2>2. Whole(S, T)
      BY <2>1, PartIsThread
    <2>3. PICK r \in T : r \in Roots(S)
      BY <1>1, <2>2, PartHasRoot
    <2>4. Part(S, r) \subseteq T /\ r \in S
      BY <1>1, <2>2, <2>3 DEF Part
    <2>5. Part(S, r) = T
      BY <2>1, <2>4, PartIsThread
    <2> QED BY <2>3, <2>5
  <1>5. f \in Bijection(Roots(S), ThreadsOf(S))
    <2> HIDE DEF f
    <2> QED BY <1>2, <1>3, <1>4 DEF Bijection, Injection, Surjection, IsInjective
  <1>6. ExistsBijection(Roots(S), ThreadsOf(S))
    <2> HIDE DEF f
    <2> QED BY <1>5 DEF ExistsBijection
  <1> QED BY <1>1, <1>6, FS_Bijection

\* The count is the number of threads drawn from the lists, for any threads.
THEOREM CountsThreads == Spec => []CountIsThreads
  <1>1. ReadInv /\ FiniteStore => CountIsThreads
    <2> SUFFICES ASSUME ReadInv, FiniteStore, NEW a \in Local,
                        NEW mode \in Modes
                 PROVE  Count(a, mode) = Cardinality(ThreadsOf(Listed(a, mode)))
      BY DEF CountIsThreads
    <2> PICK S : S = Listed(a, mode)
      OBVIOUS
    <2>1. Count(a, mode) = Cardinality(Roots(S))
      BY ListedAre DEF Count, Roots
    <2>2. S \in SUBSET Live
      BY ListedAre DEF Live, IsSent
    <2>3. Cardinality(Roots(S)) = Cardinality(ThreadsOf(S))
      BY <2>2, RootsCountThreads DEF ReadInv, StoreInv
    <2> QED BY <2>1, <2>3
  <1> QED BY <1>1, ReadInit, ReadStep, FiniteInit, FiniteStep, PTL
          DEF Spec, ReadInv
=============================================================================
