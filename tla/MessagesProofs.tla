--------------------------- MODULE MessagesProofs ---------------------------
(***************************************************************************)
(* Theorems about Messages, for any sets of addresses and messages, any    *)
(* inputs and any failures.                                                *)
(***************************************************************************)
EXTENDS Messages, TLAPS

(***************************************************************************)
(* Type correctness                                                        *)
(***************************************************************************)

\* An id that holds no message has a well-typed, empty record.
LEMMA BlankType ==
    ASSUME NEW phase \in Phase
    PROVE  Blank(phase) \in Message
  <1>1. NoRows \in Rows
    BY DEF NoRows, Rows, RowState
  <1>2. <<>> \in Batches /\ {} \in Groups /\ {} \in Notices
    BY DEF Batches, Groups, Notices
  <1> QED
    BY <1>1, <1>2 DEF Blank, Message

\* Fields of a well-typed record.
LEMMA FieldTypes ==
    ASSUME NEW x \in Message
    PROVE  /\ x.phase \in Phase /\ x.from \in Addr \cup {NoAddr}
           /\ x.pid \in Msg \cup {NoMsg} /\ x.terminal \in BOOLEAN
           /\ x.rows \in Rows /\ x.batch \in Batches
           /\ x.lapsed \in Groups /\ x.notify \in Notices
  BY DEF Message

\* A draft written over a well-typed record is well typed.
LEMMA DraftType ==
    ASSUME NEW a \in Local, NEW tos, NEW p \in Msg \cup {NoMsg},
           NEW terminal \in BOOLEAN, NEW old \in Message
    PROVE  Draft(a, tos, p, terminal, old) \in Message
  <1> DEFINE r == [old.rows EXCEPT !["to"] = PendingRows(tos)]
  <1>1. r \in Rows
    BY FieldTypes DEF PendingRows, RowState, Rows, Table
  <1>2. Draft(a, tos, p, terminal, old) =
          [old EXCEPT !.phase = "draft", !.from = a, !.pid = p,
                !.terminal = terminal, !.rows = r]
    BY DEF Draft, Message
  <1> HIDE DEF r
  <1> QED
    BY <1>1, <1>2 DEF Message, Addr, Phase

\* Deleting messages leaves well-typed rows.
LEMMA EraseType ==
    ASSUME TypeOK, NEW gone
    PROVE  Erase(gone) \in [Msg -> Message]
  <1>1. \A x \in Msg : [msg[x] EXCEPT !.pid = NoMsg] \in Message
    BY DEF TypeOK, Message
  <1> QED
    BY <1>1, BlankType DEF Erase, TypeOK, Phase

\* Adding the remainder of a request keeps jobs well typed.
LEMMA StartType ==
    ASSUME jobs \subseteq Job, NEW t \in SUBSET Delivery, NEW r \in SUBSET Item,
           NEW l \in SUBSET Item
    PROVE  Start(t, r, l) \subseteq Job
  BY DEF Start, Job

\* A request that goes on keeps jobs well typed.
LEMMA ContinueType ==
    ASSUME jobs \subseteq Job, NEW j, NEW k \in Job, Continue(j, k)
    PROVE  jobs' \subseteq Job
  BY DEF Continue

\* The sets of items that requests leave behind.
LEMMA ItemSets ==
    /\ \A t \in Table : \A m, addrs : LocalRows(m, t, addrs) \subseteq Delivery
    /\ \A a, m : UsageOf(a, m) \subseteq Item
    /\ \A a \in Local, m \in Msg : SendItem(a, m) \in Item
  BY DEF LocalRows, UsageOf, SendItem, Item, Delivery

\* One row of one message changes.
LEMMA RowType ==
    ASSUME TypeOK, NEW m \in Msg, NEW t \in Table, NEW a \in Addr,
           NEW s \in RowState
    PROVE  [msg EXCEPT ![m].rows[t][a] = s] \in [Msg -> Message]
  <1> DEFINE r == [msg[m].rows EXCEPT ![t][a] = s]
             n == [msg[m] EXCEPT !.rows = r]
  <1>1. msg[m] \in Message /\ msg[m].rows \in Rows
    BY FieldTypes DEF TypeOK
  <1>2. r \in Rows
    BY <1>1 DEF Rows
  <1>3. n \in Message
    <2> HIDE DEF r
    <2> QED BY <1>1, <1>2 DEF Message
  <1>4. [msg EXCEPT ![m].rows[t][a] = s] = [msg EXCEPT ![m] = n]
    BY <1>1 DEF TypeOK, Message
  <1> HIDE DEF n
  <1> QED
    BY <1>3, <1>4 DEF TypeOK

\* What a request creates or edits is a draft record.
LEMMA CreateType ==
    ASSUME TypeOK, NEW a \in Local, NEW m \in Msg, NEW tos,
           NEW p \in Msg \cup {NoMsg}, NEW f \in BOOLEAN
    PROVE  [msg EXCEPT ![m] = Draft(a, tos, p, f, msg[m])] \in [Msg -> Message]
  BY DraftType DEF TypeOK

LEMMA SendType ==
    ASSUME TypeOK, NEW a \in Local, NEW m \in Msg, Send(a, m)
    PROVE  TypeOK'
  <1>1. [msg EXCEPT ![m].phase = "sent"] \in [Msg -> Message]
    <2>1. [msg[m] EXCEPT !.phase = "sent"] \in Message
      BY DEF TypeOK, Message, Phase
    <2> QED BY <2>1 DEF TypeOK
  <1> DEFINE todo == UNION {LocalRows(m, t, {r \in Local :
                              msg[m].rows[t][r] # "absent"}) : t \in Table}
  <1>2. jobs' \subseteq Job
    <2>1. todo \in SUBSET Delivery
      <3> SUFFICES ASSUME NEW i \in todo PROVE i \in Delivery
        OBVIOUS
      <3> PICK t \in Table : i \in LocalRows(m, t, {r \in Local :
                                      msg[m].rows[t][r] # "absent"})
        OBVIOUS
      <3> QED BY ItemSets
    <2>2. jobs' = Start(todo, {SendItem(a, m)}, {})
      BY DEF Send
    <2> HIDE DEF todo
    <2> QED BY <2>1, <2>2, StartType, ItemSets DEF TypeOK
  <1> QED
    BY <1>1, <1>2 DEF Send, TypeOK

LEMMA AddRecipientsType ==
    ASSUME TypeOK, NEW a \in Local, NEW m \in Msg, NEW adds \in SUBSET Addr,
           AddRecipients(a, m, adds)
    PROVE  TypeOK'
  <1> DEFINE b == Len(msg[m].batch) + 1
             told == {r \in Remote \ adds :
                        r = msg[m].from \/ msg[m].rows["to"][r] # "absent"}
             nb == Append(msg[m].batch, adds)
             nr == [msg[m].rows EXCEPT !["addTo"] =
                      [r \in Addr |-> IF r \in adds THEN "pending" ELSE @[r]]]
             nn == msg[m].notify \cup {<<b, r>> : r \in told}
             n == [msg[m] EXCEPT !.batch = nb, !.rows = nr, !.notify = nn]
  <1>1. msg[m] \in Message /\ msg[m].rows \in Rows
        /\ msg[m].batch \in Batches /\ msg[m].notify \in Notices
    BY FieldTypes DEF TypeOK
  <1>2. nb \in Batches /\ b \in Nat
    BY <1>1 DEF Batches
  <1>3. nr \in Rows
    BY <1>1 DEF Rows, Table, RowState
  <1>4. nn \in Notices
    <2> HIDE DEF b
    <2> QED BY <1>1, <1>2 DEF Notices
  <1>5. n \in Message
    <2> HIDE DEF nb, nr, nn
    <2> QED BY <1>1, <1>2, <1>3, <1>4 DEF Message
  <1>6. msg' = [msg EXCEPT ![m] = n]
    BY <1>1 DEF AddRecipients, TypeOK, Message
  <1>7. jobs' \subseteq Job
    BY StartType, ItemSets DEF AddRecipients, TypeOK, Table
  <1>8. UNCHANGED <<trash, recorded, released, forGood>>
    BY DEF AddRecipients
  <1> HIDE DEF n
  <1> QED
    BY <1>5, <1>6, <1>7, <1>8 DEF TypeOK

LEMMA ReactType ==
    ASSUME TypeOK, NEW a \in Local, NEW s \in Msg, NEW m \in Msg,
           React(a, s, m)
    PROVE  TypeOK'
  <1> DEFINE tos == (RecipientsOf(s) \cup {msg[s].from}) \ {a}
             d == Draft(a, tos, s, TRUE, msg[m])
  <1>1. d \in Message
    BY DraftType DEF TypeOK
  <1>2. [d EXCEPT !.phase = "sent"] \in Message
    <2> HIDE DEF d
    <2> QED BY <1>1 DEF Message, Phase
  <1>3. jobs' \subseteq Job
    BY StartType, ItemSets DEF React, TypeOK, Table
  <1> QED
    BY <1>2, <1>3 DEF React, TypeOK

LEMMA TrashTypes ==
    ASSUME TypeOK, NEW a \in Local, NEW m \in Msg, NEW thread,
           TrashSent(a, m, thread) \/ Restore(a, m, thread)
    PROVE  TypeOK'
  <1>1. CASE TrashSent(a, m, thread)
    BY <1>1 DEF TrashSent, Mark, TypeOK, TrashRow
  <1>2. CASE Restore(a, m, thread)
    BY <1>2 DEF Restore, TypeOK, TrashRow
  <1> QED BY <1>1, <1>2

LEMMA PurgeType ==
    ASSUME TypeOK, NEW a \in Local, NEW m \in Msg, Purge(a, m)
    PROVE  TypeOK'
  <1> DEFINE ids == TrashSubtree(a, m)
             newly == NewlyPurged(a, ids)
             marked == MarkPurged(a, ids)
             gone == Unheld(ids, marked)
  <1>1. msg' \in [Msg -> Message]
    BY EraseType DEF Purge
  <1>2. marked \in [Local -> [Msg -> TrashRow]]
    BY DEF MarkPurged, TypeOK, TrashRow
  <1>3. trash' \in [Local -> [Msg -> TrashRow]]
    <2>1. trash' = [h \in Local |-> [x \in Msg |->
                      IF x \in gone THEN "none" ELSE marked[h][x]]]
      BY DEF Purge
    <2> HIDE DEF marked, gone
    <2> QED BY <1>2, <2>1 DEF TrashRow
  <1>4. jobs' \subseteq Job
    <2>1. UNION {UsageOf(a, x) : x \in newly} \in SUBSET Item
      BY ItemSets
    <2> QED BY <2>1, StartType DEF Purge, TypeOK
  <1>5. forGood' \in [Local -> SUBSET Msg]
    BY DEF Purge, TypeOK, TrashSubtree
  <1> QED
    BY <1>1, <1>3, <1>4, <1>5 DEF Purge, TypeOK

\* Post-commit steps.
LEMMA JobType ==
    ASSUME TypeOK, NEW j \in jobs, NEW i \in Item,
           \/ \E outcome \in Outcomes : Resolve(j, i, outcome)
           \/ SkipRecipient(j, i)
           \/ \E ok \in BOOLEAN : RecordUsage(j, i, ok) \/ ReleaseUsage(j, i, ok)
           \/ LoseJob(j)
    PROVE  TypeOK'
  <1>0. j \in Job
    BY DEF TypeOK
  <1>1. ASSUME NEW outcome \in Outcomes, Resolve(j, i, outcome)
        PROVE  TypeOK'
    <2> DEFINE open == /\ IsSent(i.msg)
                       /\ msg[i.msg].rows[i.kind][i.addr] = "pending"
               k == [j EXCEPT !.todo = @ \ {i},
                              !.record = IF open /\ outcome = "delivered"
                                         THEN {i} ELSE {}]
    <2>1. k \in Job
      BY <1>0 DEF Job
    <2>2. jobs' \subseteq Job
      BY <1>1, <2>1, ContinueType DEF Resolve, TypeOK
    <2>3. msg' \in [Msg -> Message]
      <3>1. CASE open
        <4>1. i.kind \in Table
          BY <1>0, <1>1 DEF Resolve, Job, Delivery
        <4>2. outcome \in RowState
          BY InputAssumption DEF RowState
        <4>3. i.msg \in Msg /\ i.addr \in Addr
          BY DEF Item, Addr
        <4> QED BY <1>1, <3>1, <4>1, <4>2, <4>3, RowType DEF Resolve
      <3>2. CASE ~open
        BY <1>1, <3>2 DEF Resolve, TypeOK
      <3> QED BY <3>1, <3>2
    <2> QED BY <1>1, <2>2, <2>3 DEF Resolve, TypeOK
  <1>2. CASE SkipRecipient(j, i)
    <2>1. [j EXCEPT !.todo = @ \ {i}] \in Job
      BY <1>0 DEF Job
    <2> QED BY <1>2, <2>1, ContinueType DEF SkipRecipient, TypeOK
  <1>3. ASSUME NEW ok \in BOOLEAN, RecordUsage(j, i, ok)
        PROVE  TypeOK'
    <2>1. [j EXCEPT !.record = @ \ {i}] \in Job
      BY <1>0 DEF Job
    <2>2. recorded' \in [Item -> Nat]
      BY <1>3 DEF RecordUsage, TypeOK
    <2> QED BY <1>3, <2>1, <2>2, ContinueType DEF RecordUsage, TypeOK
  <1>4. ASSUME NEW ok \in BOOLEAN, ReleaseUsage(j, i, ok)
        PROVE  TypeOK'
    <2>1. [j EXCEPT !.release = @ \ {i}] \in Job
      BY <1>0 DEF Job
    <2>2. released' \in [Item -> Nat]
      BY <1>4 DEF ReleaseUsage, TypeOK
    <2> QED BY <1>4, <2>1, <2>2, ContinueType DEF ReleaseUsage, TypeOK
  <1>5. CASE LoseJob(j)
    BY <1>5 DEF LoseJob, TypeOK
  <1> QED BY <1>1, <1>2, <1>3, <1>4, <1>5

\* What fmsgd writes.
LEMMA FmsgdType ==
    ASSUME TypeOK, FmsgdNext
    PROVE  TypeOK'
  <1> PICK m \in Msg :
        \/ \E r \in Remote, tos \in Recipients, p \in Msg \cup {NoMsg},
              f \in Terminal : \E accepted \in SUBSET tos :
              FmsgdReceive(r, m, tos, accepted, p, f)
        \/ \E t \in Table, r \in Remote, outcome \in
              {"noresponse", "retryable", "refused", "delivered"} :
              FmsgdAttempt(m, t, r, outcome)
        \/ \E n \in msg[m].notify : FmsgdNotify(m, n)
        \/ \E b \in 0 .. MaxBatches : "age" \in Ops /\ RetryWindowOver(m, b)
    BY DEF FmsgdNext
  <1>0. msg[m] \in Message /\ msg[m].notify \in Notices
        /\ msg[m].lapsed \in Groups
    BY FieldTypes DEF TypeOK
  <1>1. ASSUME NEW r \in Remote, NEW tos, NEW p \in Msg \cup {NoMsg},
               NEW f \in BOOLEAN, NEW accepted,
               FmsgdReceive(r, m, tos, accepted, p, f)
        PROVE  TypeOK'
    <2> DEFINE row == [a \in Addr |-> IF a \notin tos THEN "absent"
                                      ELSE IF a \in Remote THEN "notours"
                                      ELSE IF a \in accepted THEN "delivered"
                                      ELSE "refused"]
               rows == [NoRows EXCEPT !["to"] = row]
               n == [Blank("sent") EXCEPT !.from = r, !.pid = p,
                                          !.terminal = f, !.rows["to"] = row]
    <2>1. rows \in Rows
      BY DEF Rows, NoRows, RowState
    <2>2. n = [Blank("sent") EXCEPT !.from = r, !.pid = p, !.terminal = f,
                                    !.rows = rows]
      BY DEF Blank
    <2>3. n \in Message
      <3> HIDE DEF rows, n
      <3> QED BY <2>1, <2>2, BlankType DEF Message, Phase, Addr
    <2>4. msg' \in [Msg -> Message]
      <3>1. msg' = [msg EXCEPT ![m] = n]
        BY <1>1 DEF FmsgdReceive
      <3> HIDE DEF n
      <3> QED BY <2>3, <3>1 DEF TypeOK
    <2>5. recorded' \in [Item -> Nat]
      <3>1. \A i \in Item : recorded[i] \in Nat /\ recorded[i] + 1 \in Nat
        BY DEF TypeOK
      <3> QED BY <1>1, <3>1 DEF FmsgdReceive
    <2> QED BY <1>1, <2>4, <2>5 DEF FmsgdReceive, TypeOK
  <1>2. ASSUME NEW t \in Table, NEW r \in Remote, NEW outcome \in
               {"noresponse", "retryable", "refused", "delivered"},
               FmsgdAttempt(m, t, r, outcome)
        PROVE  TypeOK'
    BY <1>2, RowType DEF FmsgdAttempt, TypeOK, RowState, Addr
  <1>3. ASSUME NEW n, FmsgdNotify(m, n)
        PROVE  TypeOK'
    <2>1. [msg[m] EXCEPT !.notify = @ \ {n}] \in Message
      <3>1. msg[m].notify \ {n} \in Notices
        BY <1>0 DEF Notices
      <3> QED BY <1>0, <3>1 DEF Message
    <2> QED BY <1>3, <2>1 DEF FmsgdNotify, TypeOK
  <1>4. ASSUME NEW b \in 0 .. MaxBatches, RetryWindowOver(m, b)
        PROVE  TypeOK'
    <2>1. [msg[m] EXCEPT !.lapsed = @ \cup {b}] \in Message
      <3>1. msg[m].lapsed \cup {b} \in Groups
        BY <1>0, InputAssumption DEF Groups
      <3> QED BY <1>0, <3>1 DEF Message
    <2> QED BY <1>4, <2>1 DEF RetryWindowOver, TypeOK
  <1> QED BY <1>1, <1>2, <1>3, <1>4, InputAssumption

\* Every step of the store keeps the types.
LEMMA StepType ==
    ASSUME TypeOK, [Next]_vars
    PROVE  TypeOK'
  <1>1. CASE UNCHANGED vars
    BY <1>1 DEF vars, TypeOK
  <1>2. ASSUME NEW a \in Local, NEW m \in Msg, NEW tos,
               NEW p \in Msg \cup {NoMsg}, NEW f \in BOOLEAN,
               Create(a, m, tos, p, f) \/ Update(a, m, tos, p, f)
        PROVE  TypeOK'
    BY <1>2, CreateType DEF Create, Update, TypeOK
  <1>3. ASSUME NEW a \in Local, NEW m \in Msg, DeleteDraft(a, m)
        PROVE  TypeOK'
    BY <1>3, EraseType DEF DeleteDraft, TypeOK
  <1>4. CASE LocalNext
    BY <1>2, <1>3, <1>4, SendType, AddRecipientsType, ReactType, TrashTypes,
       PurgeType, InputAssumption DEF LocalNext
  <1>5. CASE JobNext \/ FaultNext
    <2>1. \A j \in jobs : /\ j.todo \subseteq Item
                          /\ j.record \subseteq Item
                          /\ j.release \subseteq Item
      BY DEF TypeOK, Job, Delivery
    <2>2. ASSUME NEW j \in jobs, LoseJob(j)
          PROVE  TypeOK'
      BY <2>2 DEF LoseJob, TypeOK
    <2> QED BY <1>5, <2>1, <2>2, JobType DEF JobNext, FaultNext
  <1> QED BY <1>1, <1>4, <1>5, FmsgdType DEF Next

\* The tables, the remainders of requests and the usage counters keep their
\* types, whatever is requested and whatever fails.
THEOREM TypeCorrect == Spec => []TypeOK
  <1>1. Init => TypeOK
    BY BlankType DEF Init, TypeOK, TrashRow, Phase
  <1>2. TypeOK /\ [Next]_vars => TypeOK'
    BY StepType
  <1> QED BY <1>1, <1>2, PTL DEF Spec

-----------------------------------------------------------------------------
(***************************************************************************)
(* The inductive invariant.  Shape ties the rows of a message to its       *)
(* phase, PurgeInv ties trash rows to what addresses deleted for good, and *)
(* ReleaseInv and ChargeInv account for the usage each running request     *)
(* still carries: no two of them carry the same item.                      *)
(***************************************************************************)

Shape ==
    \A m \in Msg :
        /\ msg[m].phase \in {"none", "removed"} => msg[m] = Blank(msg[m].phase)
        /\ msg[m].phase = "draft" =>
              \A t \in Table, a \in Addr :
                  msg[m].rows[t][a] \in {"absent", "pending"}

PurgeInv ==
    \A a \in Local, m \in Msg :
        /\ trash[a][m] = "purged" => m \in forGood[a]
        /\ m \in forGood[a] => msg[m].phase \in {"sent", "removed"}
        /\ m \in forGood[a] /\ IsSent(m) => trash[a][m] = "purged"

ReleaseInv ==
    /\ \A i \in Item : /\ released[i] <= 1
                       /\ released[i] > 0 => i.msg \in forGood[i.addr]
    /\ \A j \in jobs : \A i \in j.release :
          released[i] = 0 /\ i.msg \in forGood[i.addr]
    /\ \A j, k \in jobs : j # k => j.release \cap k.release = {}

\* i has been, or is about to be, counted: its message was sent, and its row
\* (if it is a delivery) has that outcome.
Counted(i) ==
    \/ msg[i.msg].phase = "removed"
    \/ /\ IsSent(i.msg)
       /\ i.kind \in Table => msg[i.msg].rows[i.kind][i.addr] = "delivered"

ChargeInv ==
    /\ \A i \in Item : recorded[i] <= 1 /\ (recorded[i] > 0 => Counted(i))
    /\ \A j \in jobs : \A i \in j.record : recorded[i] = 0 /\ Counted(i)
    /\ \A j, k \in jobs : j # k => j.record \cap k.record = {}

(***************************************************************************)
(* What each operation does to the phase and the rows of every message     *)
(***************************************************************************)

LEMMA DraftEffect ==
    ASSUME TypeOK, NEW a \in Local, NEW m \in Msg, NEW tos, NEW p, NEW f
    PROVE  /\ Draft(a, tos, p, f, msg[m]).phase = "draft"
           /\ Draft(a, tos, p, f, msg[m]).rows =
                 [msg[m].rows EXCEPT !["to"] = PendingRows(tos)]
  BY DEF TypeOK, Draft, Message

\* The message written is well typed: its rows are a table of rows.
LEMMA RowsFunction ==
    ASSUME TypeOK, NEW x \in Msg
    PROVE  /\ msg[x].rows \in [Table -> [Addr -> RowState]]
           /\ msg[x].phase \in Phase
  BY FieldTypes DEF TypeOK, Rows

LEMMA EraseEffect ==
    ASSUME TypeOK, NEW gone, NEW x \in Msg
    PROVE  /\ x \in gone => Erase(gone)[x] = Blank("removed")
           /\ x \notin gone => /\ Erase(gone)[x].phase = msg[x].phase
                               /\ Erase(gone)[x].rows = msg[x].rows
                               /\ msg[x].pid = NoMsg => Erase(gone)[x] = msg[x]
  <1>1. x \in gone => Erase(gone)[x] = Blank("removed")
    BY DEF Erase
  <1>2. ASSUME x \notin gone
        PROVE  Erase(gone)[x] = msg[x] \/ (msg[x].pid \in gone /\
                  Erase(gone)[x] = [msg[x] EXCEPT !.pid = NoMsg])
    BY <1>2 DEF Erase
  <1>3. /\ [msg[x] EXCEPT !.pid = NoMsg].phase = msg[x].phase
        /\ [msg[x] EXCEPT !.pid = NoMsg].rows = msg[x].rows
        /\ msg[x].pid = NoMsg => [msg[x] EXCEPT !.pid = NoMsg] = msg[x]
    BY DEF TypeOK, Message
  <1> QED BY <1>1, <1>2, <1>3

LEMMA CreateEffect ==
    ASSUME TypeOK, NEW a \in Local, NEW m \in Msg, NEW tos, NEW p, NEW f,
           Create(a, m, tos, p, f) \/ Update(a, m, tos, p, f)
    PROVE  /\ \A x \in Msg \ {m} : msg'[x] = msg[x]
           /\ msg[m].phase \in {"none", "draft"}
           /\ msg'[m].phase = "draft"
           /\ msg'[m].rows = [msg[m].rows EXCEPT !["to"] = PendingRows(tos)]
  <1>1. /\ msg' = [msg EXCEPT ![m] = Draft(a, tos, p, f, msg[m])]
        /\ msg[m].phase \in {"none", "draft"}
    BY DEF Create, Update
  <1>2. /\ Draft(a, tos, p, f, msg[m]).phase = "draft"
        /\ Draft(a, tos, p, f, msg[m]).rows =
              [msg[m].rows EXCEPT !["to"] = PendingRows(tos)]
    BY DraftEffect
  <1>3. msg \in [Msg -> Message]
    BY DEF TypeOK
  <1> QED BY <1>1, <1>2, <1>3

LEMMA SendEffect ==
    ASSUME TypeOK, NEW a \in Local, NEW m \in Msg, Send(a, m)
    PROVE  /\ \A x \in Msg \ {m} : msg'[x] = msg[x]
           /\ msg[m].phase = "draft" /\ msg'[m].phase = "sent"
           /\ msg'[m].rows = msg[m].rows
  BY DEF Send, TypeOK, Message

LEMMA AddEffect ==
    ASSUME TypeOK, NEW a \in Local, NEW m \in Msg, NEW adds \in SUBSET Addr,
           AddRecipients(a, m, adds)
    PROVE  /\ \A x \in Msg \ {m} : msg'[x] = msg[x]
           /\ msg'[m].phase = msg[m].phase
           /\ msg[m].phase \in {"draft", "sent"}
           /\ \A r \in adds : /\ msg[m].rows["addTo"][r] = "absent"
                              /\ msg'[m].rows["addTo"][r] = "pending"
           /\ \A t \in Table, r \in Addr :
                 \/ msg'[m].rows[t][r] = msg[m].rows[t][r]
                 \/ /\ t = "addTo" /\ r \in adds
                    /\ msg'[m].rows[t][r] = "pending"
  <1> DEFINE nr == [msg[m].rows EXCEPT !["addTo"] =
                      [r \in Addr |-> IF r \in adds THEN "pending" ELSE @[r]]]
  <1>1. /\ \A x \in Msg \ {m} : msg'[x] = msg[x]
        /\ msg'[m].phase = msg[m].phase
        /\ msg'[m].rows = nr
    BY DEF AddRecipients, TypeOK, Message
  <1>2. msg[m].rows \in [Table -> [Addr -> RowState]]
    BY RowsFunction
  <1>3. /\ msg[m].phase \in {"draft", "sent"}
        /\ \A r \in adds : msg[m].rows["addTo"][r] = "absent"
    BY DEF AddRecipients
  <1>4. \A t \in Table, r \in Addr :
           \/ nr[t][r] = msg[m].rows[t][r]
           \/ t = "addTo" /\ r \in adds /\ nr[t][r] = "pending"
    BY <1>2 DEF Table
  <1>5. \A r \in adds : nr["addTo"][r] = "pending"
    BY <1>2 DEF Table
  <1> HIDE DEF nr
  <1> QED BY <1>1, <1>3, <1>4, <1>5

LEMMA ReactEffect ==
    ASSUME TypeOK, NEW a \in Local, NEW s \in Msg, NEW m \in Msg,
           React(a, s, m)
    PROVE  /\ \A x \in Msg \ {m} : msg'[x] = msg[x]
           /\ msg[m].phase = "none" /\ msg'[m].phase = "sent"
  <1> DEFINE tos == (RecipientsOf(s) \cup {msg[s].from}) \ {a}
             d == Draft(a, tos, s, TRUE, msg[m])
  <1>1. d \in Message
    BY DraftType DEF TypeOK
  <1>2. msg' = [msg EXCEPT ![m] = [d EXCEPT !.phase = "sent"]]
    BY DEF React
  <1>3. [d EXCEPT !.phase = "sent"].phase = "sent"
    <2> HIDE DEF d
    <2> QED BY <1>1 DEF Message
  <1>4. msg[m].phase = "none"
    BY DEF React
  <1> HIDE DEF d
  <1> QED BY <1>2, <1>3, <1>4 DEF TypeOK

\* A local delivery is resolved: one pending row of a sent message changes.
LEMMA ResolveEffect ==
    ASSUME TypeOK, NEW j \in jobs, NEW i \in Item, NEW outcome,
           Resolve(j, i, outcome)
    PROVE  \A x \in Msg :
              /\ msg'[x].phase = msg[x].phase
              /\ msg[x].phase # "sent" => msg'[x] = msg[x]
              /\ \A t \in Table, r \in Addr :
                    \/ msg'[x].rows[t][r] = msg[x].rows[t][r]
                    \/ /\ x = i.msg /\ t = i.kind /\ r = i.addr
                       /\ msg[x].rows[t][r] = "pending"
                       /\ msg'[x].rows[t][r] = outcome
  <1>1. CASE msg' = msg
    BY <1>1
  <1>2. CASE /\ IsSent(i.msg)
             /\ msg[i.msg].rows[i.kind][i.addr] = "pending"
             /\ msg' = [msg EXCEPT ![i.msg].rows[i.kind][i.addr] = outcome]
    <2>1. i.msg \in Msg /\ i.kind \in Table /\ i.addr \in Addr
      <3>1. j.todo \subseteq Delivery
        BY DEF TypeOK, Job
      <3> QED BY <3>1 DEF Resolve, Delivery, Item, Addr
    <2>2. msg[i.msg].rows \in [Table -> [Addr -> RowState]]
      BY <2>1, RowsFunction
    <2> QED BY <1>2, <2>1, <2>2 DEF TypeOK, Message, IsSent
  <1> QED BY <1>1, <1>2 DEF Resolve

\* fmsgd writes a new message, or rows of remote recipients.
LEMMA FmsgdEffect ==
    ASSUME TypeOK, FmsgdNext
    PROVE  /\ UNCHANGED <<trash, jobs, released, forGood>>
           /\ \A x \in Msg :
                 \/ msg[x].phase = "none" /\ msg'[x].phase = "sent"
                 \/ /\ msg'[x].phase = msg[x].phase
                    /\ msg[x].phase \notin {"sent", "draft"}
                          => msg'[x] = msg[x]
                    /\ \A t \in Table, r \in Addr :
                          \/ msg'[x].rows[t][r] = msg[x].rows[t][r]
                          \/ r \in Remote /\ msg[x].phase = "sent"
           /\ \A i \in Item :
                 \/ recorded'[i] = recorded[i]
                 \/ /\ msg[i.msg].phase = "none"
                    /\ recorded'[i] = recorded[i] + 1
                    /\ msg'[i.msg].phase = "sent"
                    /\ i.kind = "to"
                    /\ msg'[i.msg].rows["to"][i.addr] = "delivered"
  <1> PICK m \in Msg :
        \/ \E r \in Remote, tos \in Recipients, p \in Msg \cup {NoMsg},
              f \in Terminal : \E accepted \in SUBSET tos :
              FmsgdReceive(r, m, tos, accepted, p, f)
        \/ \E t \in Table, r \in Remote, outcome \in
              {"noresponse", "retryable", "refused", "delivered"} :
              FmsgdAttempt(m, t, r, outcome)
        \/ \E n \in msg[m].notify : FmsgdNotify(m, n)
        \/ \E b \in 0 .. MaxBatches : "age" \in Ops /\ RetryWindowOver(m, b)
    BY DEF FmsgdNext
  <1>1. ASSUME NEW r \in Remote, NEW tos \in Recipients, NEW p, NEW f,
               NEW accepted, FmsgdReceive(r, m, tos, accepted, p, f)
        PROVE  /\ \A x \in Msg \ {m} : msg'[x] = msg[x]
               /\ msg[m].phase = "none" /\ msg'[m].phase = "sent"
               /\ \A a \in accepted : msg'[m].rows["to"][a] = "delivered"
               /\ UNCHANGED <<trash, jobs, released, forGood>>
               /\ \A i \in Item :
                     IF i.msg = m /\ i.kind = "to" /\ i.addr \in accepted
                     THEN recorded'[i] = recorded[i] + 1
                     ELSE recorded'[i] = recorded[i]
    <2> DEFINE row == [a \in Addr |-> IF a \notin tos THEN "absent"
                                      ELSE IF a \in Remote THEN "notours"
                                      ELSE IF a \in accepted THEN "delivered"
                                      ELSE "refused"]
               n == [Blank("sent") EXCEPT !.from = r, !.pid = p,
                                          !.terminal = f, !.rows["to"] = row]
    <2>1. n.phase = "sent" /\ n.rows["to"] = row
      BY DEF Blank, NoRows, Table
    <2>2. \A a \in accepted : row[a] = "delivered"
      BY <1>1, AddrAssumption DEF FmsgdReceive, Addr
    <2>3. msg' = [msg EXCEPT ![m] = n]
      BY <1>1 DEF FmsgdReceive
    <2>4. /\ UNCHANGED <<trash, jobs, released, forGood>>
          /\ msg[m].phase = "none"
          /\ recorded' = [i \in Item |->
                      IF i.msg = m /\ i.kind = "to" /\ i.addr \in accepted
                      THEN recorded[i] + 1 ELSE recorded[i]]
      BY <1>1 DEF FmsgdReceive
    <2> HIDE DEF n, row
    <2> QED BY <2>1, <2>2, <2>3, <2>4 DEF TypeOK
  <1>2. ASSUME NEW t \in Table, NEW r \in Remote, NEW outcome,
               FmsgdAttempt(m, t, r, outcome)
        PROVE  /\ \A x \in Msg \ {m} : msg'[x] = msg[x]
               /\ msg[m].phase = "sent" /\ msg'[m].phase = "sent"
               /\ \A u \in Table, q \in Addr :
                     msg'[m].rows[u][q] = msg[m].rows[u][q] \/ q \in Remote
               /\ UNCHANGED <<trash, jobs, recorded, released, forGood>>
    <2>1. msg[m].rows \in [Table -> [Addr -> RowState]]
      BY RowsFunction
    <2> QED BY <1>2, <2>1 DEF FmsgdAttempt, IsSent, TypeOK, Message, Addr
  <1>3. ASSUME \/ \E n : FmsgdNotify(m, n)
               \/ \E b : RetryWindowOver(m, b)
        PROVE  /\ \A x \in Msg \ {m} : msg'[x] = msg[x]
               /\ msg[m].phase \in {"sent", "draft"}
               /\ msg'[m].phase = msg[m].phase
               /\ msg'[m].rows = msg[m].rows
               /\ UNCHANGED <<trash, jobs, recorded, released, forGood>>
    BY <1>3 DEF FmsgdNotify, RetryWindowOver, IsSent, TypeOK, Message
  <1>4. CASE \E r \in Remote, tos \in Recipients, p \in Msg \cup {NoMsg},
                f \in Terminal : \E accepted \in SUBSET tos :
                FmsgdReceive(r, m, tos, accepted, p, f)
    BY <1>1, <1>4 DEF Item
  <1>5. CASE \E t \in Table, r \in Remote, outcome \in
              {"noresponse", "retryable", "refused", "delivered"} :
              FmsgdAttempt(m, t, r, outcome)
    BY <1>2, <1>5
  <1>6. CASE \/ \E n \in msg[m].notify : FmsgdNotify(m, n)
             \/ \E b \in 0 .. MaxBatches : "age" \in Ops /\ RetryWindowOver(m, b)
    BY <1>3, <1>6
  <1> QED BY <1>4, <1>5, <1>6

\* The disjuncts of a step, each with its parameters typed.
LEMMA StepCases ==
    ASSUME TypeOK, [Next]_vars
    PROVE  \/ UNCHANGED vars
           \/ \E a \in Local, m \in Msg :
                 \/ \E tos, p, f : Create(a, m, tos, p, f)
                                   \/ Update(a, m, tos, p, f)
                 \/ DeleteDraft(a, m)
                 \/ Send(a, m)
                 \/ \E adds \in SUBSET Addr : AddRecipients(a, m, adds)
                 \/ \E s \in Msg : React(a, s, m)
                 \/ \E thread : TrashSent(a, m, thread) \/ Restore(a, m, thread)
                 \/ Purge(a, m)
           \/ \E j \in jobs, i \in Item :
                 \/ \E outcome : Resolve(j, i, outcome)
                 \/ SkipRecipient(j, i)
                 \/ \E ok \in BOOLEAN : RecordUsage(j, i, ok)
                 \/ \E ok \in BOOLEAN : ReleaseUsage(j, i, ok)
           \/ \E j \in jobs : LoseJob(j)
           \/ FmsgdNext
  <1>1. \A j \in jobs : /\ j.todo \subseteq Item
                        /\ j.record \subseteq Item
                        /\ j.release \subseteq Item
    BY DEF TypeOK, Job, Delivery
  <1>2. CASE LocalNext
    BY <1>2, InputAssumption DEF LocalNext
  <1>3. CASE JobNext \/ FaultNext
    BY <1>1, <1>3 DEF JobNext, FaultNext
  <1> QED BY <1>2, <1>3 DEF Next

\* A blank record has no rows.
LEMMA BlankRows ==
    /\ \A phase : \A t \in Table, a \in Addr : Blank(phase).rows[t][a] = "absent"
    /\ \A phase : Blank(phase).phase = phase
    /\ \A phase : Blank(phase).from = NoAddr /\ Blank(phase).pid = NoMsg
  BY DEF Blank, NoRows

\* Only drafts and sent messages have content, and nothing is delivered
\* before it is sent.
LEMMA ShapeStep ==
    ASSUME TypeOK, Shape, [Next]_vars
    PROVE  Shape'
  <1>1. ASSUME NEW a \in Local, NEW m \in Msg, NEW tos, NEW p, NEW f,
               Create(a, m, tos, p, f) \/ Update(a, m, tos, p, f)
        PROVE  Shape'
    <2>1. /\ \A x \in Msg \ {m} : msg'[x] = msg[x]
          /\ msg[m].phase \in {"none", "draft"}
          /\ msg'[m].phase = "draft"
          /\ msg'[m].rows = [msg[m].rows EXCEPT !["to"] = PendingRows(tos)]
      BY <1>1, CreateEffect
    <2>2. \A t \in Table, r \in Addr :
             msg[m].rows[t][r] \in {"absent", "pending"}
      BY <2>1, BlankRows DEF Shape
    <2>3. msg[m].rows \in [Table -> [Addr -> RowState]]
      BY RowsFunction
    <2>4. \A t \in Table, r \in Addr :
             msg'[m].rows[t][r] \in {"absent", "pending"}
      BY <2>1, <2>2, <2>3 DEF PendingRows, Table
    <2>5. \A x \in Msg \ {m} : msg'[x] = msg[x]
      BY <2>1
    <2>6. msg'[m].phase = "draft"
      BY <2>1
    <2> QED BY <2>4, <2>5, <2>6 DEF Shape
  <1>2. ASSUME NEW a \in Local, NEW m \in Msg, Send(a, m)
        PROVE  Shape'
    BY <1>2, SendEffect DEF Shape
  <1>3. ASSUME NEW a \in Local, NEW m \in Msg, NEW adds \in SUBSET Addr,
               AddRecipients(a, m, adds)
        PROVE  Shape'
    BY <1>3, AddEffect DEF Shape
  <1>4. ASSUME NEW a \in Local, NEW s \in Msg, NEW m \in Msg, React(a, s, m)
        PROVE  Shape'
    BY <1>4, ReactEffect DEF Shape
  <1>5. ASSUME NEW gone, msg' = Erase(gone)
        PROVE  Shape'
    <2> SUFFICES ASSUME NEW x \in Msg
                 PROVE  /\ msg'[x].phase \in {"none", "removed"} =>
                              msg'[x] = Blank(msg'[x].phase)
                        /\ msg'[x].phase = "draft" =>
                              \A t \in Table, r \in Addr :
                                 msg'[x].rows[t][r] \in {"absent", "pending"}
      BY DEF Shape
    <2>1. CASE x \in gone
      BY <1>5, <2>1, EraseEffect, BlankRows
    <2>2. CASE x \notin gone
      <3>1. msg[x].phase \in {"none", "removed"} => msg'[x] = msg[x]
        BY <1>5, <2>2, EraseEffect, BlankRows DEF Shape
      <3> QED BY <1>5, <2>2, <3>1, EraseEffect DEF Shape
    <2> QED BY <2>1, <2>2
  <1>6. ASSUME NEW j \in jobs, NEW i \in Item, NEW outcome,
               Resolve(j, i, outcome)
        PROVE  Shape'
    BY <1>6, ResolveEffect DEF Shape
  <1>7. CASE FmsgdNext
    BY <1>7, FmsgdEffect DEF Shape
  <1>8. CASE msg' = msg
    BY <1>8 DEF Shape
  <1> QED
    <2>1. \/ msg' = msg
          \/ \E a \in Local, m \in Msg :
                \/ \E tos, p, f : Create(a, m, tos, p, f)
                                  \/ Update(a, m, tos, p, f)
                \/ Send(a, m)
                \/ \E adds \in SUBSET Addr : AddRecipients(a, m, adds)
                \/ \E s \in Msg : React(a, s, m)
          \/ \E gone : msg' = Erase(gone)
          \/ \E j \in jobs, i \in Item : \E outcome : Resolve(j, i, outcome)
          \/ FmsgdNext
      BY StepCases DEF vars, DeleteDraft, TrashSent, Restore, Purge,
         SkipRecipient, RecordUsage, ReleaseUsage, LoseJob
    <2> QED BY <2>1, <1>1, <1>2, <1>3, <1>4, <1>5, <1>6, <1>7, <1>8

-----------------------------------------------------------------------------
(***************************************************************************)
(* Deleting for good                                                       *)
(***************************************************************************)

\* A message that is not purged for an address has no purged row of its own.
LEMMA NotPurgedRow ==
    ASSUME NEW a \in Local, NEW m \in Msg, ~PurgedFor(a, m)
    PROVE  trash[a][m] # "purged"
  <1>1. m \in Up(m)
    BY DEF Up
  <1> QED BY <1>1 DEF PurgedFor, TrashState

\* Apart from Purge, a step moves no message into or out of forGood, sets or
\* lifts no purged row, and removes only drafts.
LEMMA PhaseStep ==
    ASSUME TypeOK, Shape, [Next]_vars
    PROVE  \/ \E a \in Local, m \in Msg : Purge(a, m)
           \/ /\ forGood' = forGood
              /\ \A x \in Msg :
                    \/ msg'[x].phase = msg[x].phase
                    \/ /\ msg[x].phase \in {"none", "draft"}
                       /\ msg'[x].phase \in {"draft", "sent"}
                    \/ msg[x].phase = "draft" /\ msg'[x].phase = "removed"
              /\ \A a \in Local, x \in Msg :
                    \/ trash'[a][x] = trash[a][x]
                    \/ trash[a][x] # "purged" /\ trash'[a][x] # "purged"
  <1> DEFINE Phases ==
               \A x \in Msg :
                    \/ msg'[x].phase = msg[x].phase
                    \/ /\ msg[x].phase \in {"none", "draft"}
                       /\ msg'[x].phase \in {"draft", "sent"}
                    \/ msg[x].phase = "draft" /\ msg'[x].phase = "removed"
             Trashes ==
               \A a \in Local, x \in Msg :
                    \/ trash'[a][x] = trash[a][x]
                    \/ trash[a][x] # "purged" /\ trash'[a][x] # "purged"
             Goal == forGood' = forGood /\ Phases /\ Trashes
  <1>1. ASSUME NEW a \in Local, NEW m \in Msg, NEW tos, NEW p, NEW f,
               Create(a, m, tos, p, f) \/ Update(a, m, tos, p, f)
        PROVE  Goal
    <2>1. /\ \A x \in Msg \ {m} : msg'[x] = msg[x]
          /\ msg[m].phase \in {"none", "draft"}
          /\ msg'[m].phase = "draft"
      BY <1>1, CreateEffect
    <2>2. UNCHANGED <<trash, forGood>>
      BY <1>1 DEF Create, Update
    <2> QED BY <2>1, <2>2
  <1>2. ASSUME NEW a \in Local, NEW m \in Msg, Send(a, m)
        PROVE  Goal
    BY <1>2, SendEffect DEF Send
  <1>3. ASSUME NEW a \in Local, NEW m \in Msg, NEW adds \in SUBSET Addr,
               AddRecipients(a, m, adds)
        PROVE  Goal
    <2>1. /\ \A x \in Msg \ {m} : msg'[x] = msg[x]
          /\ msg'[m].phase = msg[m].phase
      BY <1>3, AddEffect
    <2>2. UNCHANGED <<trash, forGood>>
      BY <1>3 DEF AddRecipients
    <2> QED BY <2>1, <2>2
  <1>4. ASSUME NEW a \in Local, NEW s \in Msg, NEW m \in Msg, React(a, s, m)
        PROVE  Goal
    BY <1>4, ReactEffect DEF React
  <1>5. ASSUME NEW a \in Local, NEW m \in Msg, DeleteDraft(a, m)
        PROVE  Goal
    <2>1. msg[m].phase = "draft" /\ msg' = Erase({m})
          /\ UNCHANGED <<trash, forGood>>
      BY <1>5 DEF DeleteDraft
    <2> QED BY <2>1, EraseEffect, BlankRows
  <1>6. ASSUME NEW a \in Local, NEW m \in Msg, NEW thread,
               TrashSent(a, m, thread)
        PROVE  Goal
    <2>1. trash[a][m] # "purged"
      BY <1>6, NotPurgedRow DEF TrashSent
    <2> QED BY <1>6, <2>1 DEF TrashSent, Mark, TypeOK
  <1>7. ASSUME NEW a \in Local, NEW m \in Msg, NEW thread,
               Restore(a, m, thread)
        PROVE  Goal
    BY <1>7 DEF Restore, TypeOK
  <1>8. ASSUME NEW j \in jobs, NEW i \in Item, NEW outcome,
               Resolve(j, i, outcome)
        PROVE  Goal
    BY <1>8, ResolveEffect DEF Resolve
  <1>9. ASSUME FmsgdNext
        PROVE  Goal
    BY <1>9, FmsgdEffect
  <1>10. ASSUME UNCHANGED <<msg, trash, forGood>>
         PROVE  Goal
    BY <1>10
  <1> HIDE DEF Goal
  <1>11. Goal \/ \E a \in Local, m \in Msg : Purge(a, m)
    <2>1. \/ UNCHANGED <<msg, trash, forGood>>
          \/ \E a \in Local, m \in Msg :
                \/ \E tos, p, f : Create(a, m, tos, p, f)
                                  \/ Update(a, m, tos, p, f)
                \/ DeleteDraft(a, m)
                \/ Send(a, m)
                \/ \E adds \in SUBSET Addr : AddRecipients(a, m, adds)
                \/ \E s \in Msg : React(a, s, m)
                \/ \E thread : TrashSent(a, m, thread) \/ Restore(a, m, thread)
                \/ Purge(a, m)
          \/ \E j \in jobs, i \in Item : \E outcome : Resolve(j, i, outcome)
          \/ FmsgdNext
      BY StepCases DEF vars, SkipRecipient, RecordUsage, ReleaseUsage, LoseJob
    <2>2. CASE \E a \in Local, m \in Msg :
                \/ \E tos, p, f : Create(a, m, tos, p, f)
                                  \/ Update(a, m, tos, p, f)
                \/ DeleteDraft(a, m)
                \/ Send(a, m)
                \/ \E adds \in SUBSET Addr : AddRecipients(a, m, adds)
                \/ \E s \in Msg : React(a, s, m)
                \/ \E thread : TrashSent(a, m, thread) \/ Restore(a, m, thread)
                \/ Purge(a, m)
      BY <2>2, <1>1, <1>2, <1>3, <1>4, <1>5, <1>6, <1>7, Zenon
    <2>3. CASE \E j \in jobs, i \in Item : \E outcome : Resolve(j, i, outcome)
      BY <2>3, <1>8, Zenon
    <2>4. CASE FmsgdNext
      BY <2>4, <1>9
    <2>5. CASE UNCHANGED <<msg, trash, forGood>>
      BY <2>5, <1>10
    <2> QED BY <2>1, <2>2, <2>3, <2>4, <2>5
  <1> QED BY <1>11 DEF Goal

\* What a purge by a does to the trash, to forGood and to the messages.
LEMMA PurgeEffect ==
    ASSUME TypeOK, NEW a \in Local, NEW m \in Msg, Purge(a, m)
    PROVE  LET ids  == TrashSubtree(a, m)
               gone == Unheld(ids, MarkPurged(a, ids))
           IN  /\ gone \subseteq ids
               /\ \A x \in ids : IsSent(x)
               /\ \A h \in Local, x \in Msg : trash'[h][x] =
                     IF x \in gone THEN "none"
                     ELSE IF h = a /\ x \in ids THEN "purged" ELSE trash[h][x]
               /\ \A h \in Local : forGood'[h] =
                     IF h = a THEN forGood[h] \cup ids ELSE forGood[h]
               /\ \A x \in Msg : msg'[x].phase =
                     IF x \in gone THEN "removed" ELSE msg[x].phase
               /\ \A x \in gone : \A h \in Holders(x) :
                     trash[h][x] = "purged" \/ (h = a /\ x \in ids)
  <1> DEFINE ids == TrashSubtree(a, m)
             marked == MarkPurged(a, ids)
             gone == Unheld(ids, marked)
  <1>1. \A h \in Local, x \in Msg : marked[h][x] =
           IF h = a /\ x \in ids THEN "purged" ELSE trash[h][x]
    BY DEF MarkPurged, TypeOK
  <1>2. gone \subseteq ids /\ ids \subseteq Msg /\ \A x \in ids : IsSent(x)
    BY DEF Unheld, TrashSubtree
  <1>3. \A x \in gone : \A h \in Holders(x) : marked[h][x] = "purged"
    BY DEF Unheld
  <1>4. \A x \in Msg : Holders(x) \subseteq Local
    BY DEF Holders
  <1>5. /\ msg' = Erase(gone)
        /\ trash' = [h \in Local |-> [x \in Msg |->
                       IF x \in gone THEN "none" ELSE marked[h][x]]]
        /\ forGood' = [forGood EXCEPT ![a] = @ \cup ids]
    BY DEF Purge
  <1>6. \A x \in Msg : msg'[x].phase =
           IF x \in gone THEN "removed" ELSE msg[x].phase
    <2> HIDE DEF gone
    <2> QED BY <1>5, EraseEffect, BlankRows
  <1>7. forGood \in [Local -> SUBSET Msg]
    BY DEF TypeOK
  <1>8. gone = Unheld(TrashSubtree(a, m), MarkPurged(a, TrashSubtree(a, m)))
    OBVIOUS
  <1> HIDE DEF ids, marked, gone
  <1>9. ids = TrashSubtree(a, m)
    BY DEF ids
  <1>10. /\ gone \subseteq ids
         /\ \A x \in ids : IsSent(x)
         /\ \A h \in Local, x \in Msg : trash'[h][x] =
               IF x \in gone THEN "none"
               ELSE IF h = a /\ x \in ids THEN "purged" ELSE trash[h][x]
         /\ \A h \in Local : forGood'[h] =
               IF h = a THEN forGood[h] \cup ids ELSE forGood[h]
         /\ \A x \in Msg : msg'[x].phase =
               IF x \in gone THEN "removed" ELSE msg[x].phase
         /\ \A x \in gone : \A h \in Holders(x) :
               trash[h][x] = "purged" \/ (h = a /\ x \in ids)
    BY <1>1, <1>2, <1>3, <1>4, <1>5, <1>6, <1>7
  <1> QED BY <1>8, <1>9, <1>10

LEMMA PurgeInvStep ==
    ASSUME TypeOK, Shape, PurgeInv, [Next]_vars
    PROVE  PurgeInv'
  <1>1. ASSUME NEW a \in Local, NEW m \in Msg, Purge(a, m)
        PROVE  PurgeInv'
    <2> DEFINE ids == TrashSubtree(a, m)
               gone == Unheld(ids, MarkPurged(a, ids))
    <2>1. /\ gone \subseteq ids
          /\ \A x \in ids : msg[x].phase = "sent"
          /\ \A h \in Local, x \in Msg : trash'[h][x] =
                IF x \in gone THEN "none"
                ELSE IF h = a /\ x \in ids THEN "purged" ELSE trash[h][x]
          /\ \A h \in Local : forGood'[h] =
                IF h = a THEN forGood[h] \cup ids ELSE forGood[h]
          /\ \A x \in Msg : msg'[x].phase =
                IF x \in gone THEN "removed" ELSE msg[x].phase
      BY <1>1, PurgeEffect DEF IsSent
    <2>2. ids \subseteq Msg
      BY DEF TrashSubtree
    <2> HIDE DEF ids, gone
    <2> SUFFICES ASSUME NEW h \in Local, NEW x \in Msg
                 PROVE  /\ trash'[h][x] = "purged" => x \in forGood'[h]
                        /\ x \in forGood'[h] =>
                              msg'[x].phase \in {"sent", "removed"}
                        /\ x \in forGood'[h] /\ msg'[x].phase = "sent"
                              => trash'[h][x] = "purged"
      BY DEF PurgeInv, IsSent
    <2>3. /\ trash[h][x] = "purged" => x \in forGood[h]
          /\ x \in forGood[h] => msg[x].phase \in {"sent", "removed"}
          /\ x \in forGood[h] /\ msg[x].phase = "sent"
                => trash[h][x] = "purged"
      BY DEF PurgeInv, IsSent
    <2>4. /\ trash'[h][x] = IF x \in gone THEN "none"
                            ELSE IF h = a /\ x \in ids THEN "purged"
                            ELSE trash[h][x]
          /\ forGood'[h] = IF h = a THEN forGood[h] \cup ids ELSE forGood[h]
          /\ msg'[x].phase = IF x \in gone THEN "removed" ELSE msg[x].phase
          /\ x \in gone => x \in ids
          /\ x \in ids => msg[x].phase = "sent"
      BY <2>1
    <2> QED BY <2>3, <2>4
  <1> QED BY <1>1, PhaseStep DEF PurgeInv, IsSent

StoreInv == TypeOK /\ Shape /\ PurgeInv

LEMMA StoreInit == Init => StoreInv
  <1>1. Init => TypeOK
    BY BlankType DEF Init, TypeOK, TrashRow, Phase
  <1>2. Init => Shape
    BY BlankRows DEF Init, Shape
  <1>3. Init => PurgeInv
    BY DEF Init, PurgeInv
  <1> QED BY <1>1, <1>2, <1>3 DEF StoreInv

LEMMA StoreStep == StoreInv /\ [Next]_vars => StoreInv'
  BY StepType, ShapeStep, PurgeInvStep DEF StoreInv

\* What an address deleted for good stays deleted for it, for any number of
\* addresses, messages and replies.
THEOREM PurgeFinal == Spec => []OwnPurgeFinal
  <1>1. StoreInv => OwnPurgeFinal
    BY DEF StoreInv, TypeOK, PurgeInv, OwnPurgeFinal
  <1> QED BY <1>1, StoreInit, StoreStep, PTL DEF Spec

\* An address holds only messages that are sent: nothing is delivered before.
LEMMA HeldIsSent ==
    ASSUME TypeOK, Shape, NEW x \in Msg, NEW h \in Holders(x)
    PROVE  h \in Local /\ msg[x].phase = "sent"
  <1>1. h \in Local /\ h \in Addr
    BY DEF Holders, Addr
  <1>2. \/ msg[x].phase = "sent"
        \/ \E t \in Table : msg[x].rows[t][h] = "delivered"
    BY DEF Holders, IsSent
  <1> QED BY <1>1, <1>2, BlankRows, RowsFunction DEF Shape, Phase, Table

\* What a step removes, its holders have deleted for good.
LEMMA HeldStep ==
    ASSUME StoreInv, [Next]_vars, NEW x \in Msg, NEW h \in Holders(x),
           msg'[x].phase = "removed"
    PROVE  x \in forGood'[h]
  <1> USE DEF StoreInv
  <1>1. h \in Local /\ msg[x].phase = "sent"
    BY HeldIsSent
  <1>2. ASSUME NEW a \in Local, NEW m \in Msg, Purge(a, m)
        PROVE  x \in forGood'[h]
    <2> DEFINE ids == TrashSubtree(a, m)
               gone == Unheld(ids, MarkPurged(a, ids))
    <2>1. /\ \A y \in Msg : msg'[y].phase =
                IF y \in gone THEN "removed" ELSE msg[y].phase
          /\ \A y \in gone : \A g \in Holders(y) :
                trash[g][y] = "purged" \/ (g = a /\ y \in ids)
          /\ \A g \in Local : forGood'[g] =
                IF g = a THEN forGood[g] \cup ids ELSE forGood[g]
      BY <1>2, PurgeEffect
    <2> HIDE DEF ids, gone
    <2>2. x \in gone
      BY <1>1, <2>1
    <2>3. trash[h][x] = "purged" \/ (h = a /\ x \in ids)
      BY <2>1, <2>2
    <2> QED BY <1>1, <2>1, <2>3 DEF PurgeInv
  <1> QED BY <1>1, <1>2, PhaseStep

\* No step removes a message that some local address holds and has not
\* deleted for good.
THEOREM NothingHeldIsRemoved == Spec => HeldUntilDeleted
  <1> DEFINE Kept == \A m \in Msg, a \in Local :
                        a \in Holders(m) /\ msg'[m].phase = "removed"
                           => m \in forGood'[a]
  <1>1. StoreInv /\ [Next]_vars => [Kept]_vars
    BY HeldStep
  <1>2. [][Kept]_vars => HeldUntilDeleted
    BY DEF HeldUntilDeleted
  <1> HIDE DEF Kept
  <1> QED BY <1>1, <1>2, StoreInit, StoreStep, PTL DEF Spec

-----------------------------------------------------------------------------
(***************************************************************************)
(* Usage given back                                                        *)
(***************************************************************************)

\* A request started (or nothing did), with the given usage to give back.
LEMMA StartJobs ==
    ASSUME NEW t, NEW r, NEW l
    PROVE  \A k \in Start(t, r, l) :
              \/ k \in jobs
              \/ k.todo = t /\ k.record = r /\ k.release = l
  BY DEF Start

\* How steps other than Purge and ReleaseUsage change the remainders: at most
\* one request starts, with nothing to give back, or one goes on with the
\* same, or some end.
LEMMA ReleaseFrame ==
    ASSUME TypeOK, [Next]_vars
    PROVE  \/ \E a \in Local, m \in Msg : Purge(a, m)
           \/ \E j \in jobs, i \in Item, ok \in BOOLEAN : ReleaseUsage(j, i, ok)
           \/ /\ UNCHANGED <<released, forGood>>
              /\ \A k \in jobs' : k \in jobs \/ k.release = {}
           \/ /\ UNCHANGED <<released, forGood>>
              /\ \E j \in jobs : \A k \in jobs' :
                    \/ k \in jobs /\ k # j
                    \/ k.release = j.release
                       /\ \A l \in jobs' : l = k \/ (l \in jobs /\ l # j)
  <1> DEFINE Starts == /\ UNCHANGED <<released, forGood>>
                       /\ \A k \in jobs' : k \in jobs \/ k.release = {}
             GoesOn == /\ UNCHANGED <<released, forGood>>
                       /\ \E j \in jobs : \A k \in jobs' :
                             \/ k \in jobs /\ k # j
                             \/ k.release = j.release
                                /\ \A l \in jobs' :
                                      l = k \/ (l \in jobs /\ l # j)
  <1>1. ASSUME NEW a \in Local, NEW m \in Msg,
               \/ Send(a, m)
               \/ \E adds \in SUBSET Addr : AddRecipients(a, m, adds)
               \/ \E s \in Msg : React(a, s, m)
        PROVE  Starts
    <2>1. /\ UNCHANGED <<released, forGood>>
          /\ jobs' = jobs \/ \E t, r : jobs' = Start(t, r, {})
      BY <1>1 DEF Send, AddRecipients, React
    <2> QED BY <2>1, StartJobs
  <1>2. ASSUME NEW j \in jobs, NEW k, Continue(j, k), k.release = j.release,
               UNCHANGED <<released, forGood>>
        PROVE  GoesOn
    BY <1>2 DEF Continue
  <1>3. ASSUME NEW j \in jobs, NEW i \in Item,
               \/ \E outcome : Resolve(j, i, outcome)
               \/ SkipRecipient(j, i)
               \/ \E ok \in BOOLEAN : RecordUsage(j, i, ok)
        PROVE  GoesOn
    <2>1. j \in Job
      BY DEF TypeOK
    <2>2. \E k : Continue(j, k) /\ k.release = j.release
      <3>1. \A x, y : /\ [j EXCEPT !.todo = x, !.record = y].release = j.release
                      /\ [j EXCEPT !.todo = x].release = j.release
                      /\ [j EXCEPT !.record = y].release = j.release
        BY <2>1 DEF Job
      <3>2. CASE \E outcome : Resolve(j, i, outcome)
        <4> PICK outcome : Resolve(j, i, outcome)
          BY <3>2
        <4> DEFINE x == j.todo \ {i}
                   y == IF /\ IsSent(i.msg)
                           /\ msg[i.msg].rows[i.kind][i.addr] = "pending"
                           /\ outcome = "delivered"
                        THEN {i} ELSE {}
        <4>1. Continue(j, [j EXCEPT !.todo = x, !.record = y])
          BY DEF Resolve
        <4> HIDE DEF x, y
        <4>2. [j EXCEPT !.todo = x, !.record = y].release = j.release
          BY <3>1
        <4> WITNESS [j EXCEPT !.todo = x, !.record = y]
        <4> QED BY <4>1, <4>2
      <3>3. CASE SkipRecipient(j, i)
        <4> DEFINE x == j.todo \ {i}
        <4>1. Continue(j, [j EXCEPT !.todo = x])
          BY <3>3 DEF SkipRecipient
        <4> HIDE DEF x
        <4>2. [j EXCEPT !.todo = x].release = j.release
          BY <3>1
        <4> WITNESS [j EXCEPT !.todo = x]
        <4> QED BY <4>1, <4>2
      <3>4. CASE \E ok \in BOOLEAN : RecordUsage(j, i, ok)
        <4> DEFINE y == j.record \ {i}
        <4>1. Continue(j, [j EXCEPT !.record = y])
          BY <3>4 DEF RecordUsage
        <4> HIDE DEF y
        <4>2. [j EXCEPT !.record = y].release = j.release
          BY <3>1
        <4> WITNESS [j EXCEPT !.record = y]
        <4> QED BY <4>1, <4>2
      <3> QED BY <1>3, <3>2, <3>3, <3>4
    <2>3. UNCHANGED <<released, forGood>>
      BY <1>3 DEF Resolve, SkipRecipient, RecordUsage
    <2> QED BY <1>2, <2>2, <2>3
  <1>4. ASSUME \/ UNCHANGED vars
               \/ \E a \in Local, m \in Msg :
                    \/ \E tos, p, f : Create(a, m, tos, p, f)
                                      \/ Update(a, m, tos, p, f)
                    \/ DeleteDraft(a, m)
                    \/ \E thread : TrashSent(a, m, thread)
                                   \/ Restore(a, m, thread)
               \/ \E j \in jobs : LoseJob(j)
               \/ FmsgdNext
        PROVE  Starts
    <2>1. CASE FmsgdNext
      BY <2>1, FmsgdEffect
    <2>2. CASE \E j \in jobs : LoseJob(j)
      BY <2>2 DEF LoseJob
    <2>3. CASE \E a \in Local, m \in Msg :
                    \/ \E tos, p, f : Create(a, m, tos, p, f)
                                      \/ Update(a, m, tos, p, f)
                    \/ DeleteDraft(a, m)
                    \/ \E thread : TrashSent(a, m, thread)
                                   \/ Restore(a, m, thread)
      <3>1. UNCHANGED <<jobs, released, forGood>>
        BY <2>3 DEF Create, Update, DeleteDraft, TrashSent, Restore
      <3> QED BY <3>1
    <2> QED BY <1>4, <2>1, <2>2, <2>3 DEF vars
  <1> HIDE DEF Starts, GoesOn
  <1>5. \/ Starts \/ GoesOn
        \/ \E a \in Local, m \in Msg : Purge(a, m)
        \/ \E j \in jobs, i \in Item, ok \in BOOLEAN : ReleaseUsage(j, i, ok)
    BY StepCases, <1>1, <1>3, <1>4
  <1> QED BY <1>5 DEF Starts, GoesOn

\* Usage a purge gives back was not given back before, and belongs to what is
\* deleted for good now.
LEMMA PurgeReleases ==
    ASSUME StoreInv, NEW a \in Local, NEW m \in Msg, Purge(a, m)
    PROVE  \E l \in SUBSET Item :
              /\ \A i \in l : i.msg \notin forGood[i.addr]
                              /\ i.msg \in forGood'[i.addr]
              /\ \A k \in jobs' : k \in jobs \/ k.release = l
              /\ \A k1, k2 \in jobs' : k1 \in jobs \/ k2 \in jobs \/ k1 = k2
  <1> USE DEF StoreInv
  <1> DEFINE ids == TrashSubtree(a, m)
             l == UNION {UsageOf(a, x) : x \in NewlyPurged(a, ids)}
  <1>1. jobs' = Start({}, {}, l)
    BY DEF Purge
  <1>2. \A k1, k2 \in jobs' : k1 \in jobs \/ k2 \in jobs \/ k1 = k2
    BY <1>1 DEF Start
  <1>3. \A k \in jobs' : k \in jobs \/ k.release = l
    <2> HIDE DEF l
    <2> QED BY <1>1, StartJobs
  <1>4. \A x \in NewlyPurged(a, ids) :
           x \in Msg /\ x \in ids /\ x \notin forGood[a] /\ x \in forGood'[a]
    <2>1. \A x \in ids : x \in Msg /\ IsSent(x)
      BY DEF TrashSubtree
    <2>2. forGood' = [forGood EXCEPT ![a] = @ \cup ids]
      BY DEF Purge
    <2>3. \A x \in NewlyPurged(a, ids) : x \in ids /\ trash[a][x] # "purged"
      BY DEF NewlyPurged
    <2> HIDE DEF ids
    <2> QED BY <2>1, <2>2, <2>3 DEF PurgeInv, TypeOK
  <1>5. ASSUME NEW i \in l
        PROVE  i \in Item /\ i.addr = a /\ i.msg \in NewlyPurged(a, ids)
    <2> PICK x \in NewlyPurged(a, ids) : i \in UsageOf(a, x)
      OBVIOUS
    <2> QED BY DEF UsageOf
  <1> HIDE DEF l, ids
  <1>6. l \in SUBSET Item
    BY <1>5
  <1>7. \A i \in l : i.msg \notin forGood[i.addr] /\ i.msg \in forGood'[i.addr]
    BY <1>4, <1>5
  <1> QED BY <1>2, <1>3, <1>6, <1>7

LEMMA ReleaseStep ==
    ASSUME StoreInv, ReleaseInv, [Next]_vars
    PROVE  ReleaseInv'
  <1> USE DEF StoreInv
  <1>0. /\ \A j \in jobs : j.release \subseteq Item
        /\ \A i \in Item : released[i] \in Nat
        /\ released \in [Item -> Nat]
    BY DEF TypeOK, Job
  <1>1. ASSUME NEW a \in Local, NEW m \in Msg, Purge(a, m)
        PROVE  ReleaseInv'
    <2>1. PICK l \in SUBSET Item :
              /\ \A i \in l : i.msg \notin forGood[i.addr]
                              /\ i.msg \in forGood'[i.addr]
              /\ \A k \in jobs' : k \in jobs \/ k.release = l
              /\ \A k1, k2 \in jobs' : k1 \in jobs \/ k2 \in jobs \/ k1 = k2
      BY <1>1, PurgeReleases
    <2>2. released' = released /\ \A h \in Local : forGood[h] \subseteq forGood'[h]
      BY <1>1 DEF Purge, TypeOK
    <2>3. \A i \in Item : i.addr \in Local
      BY DEF Item
    <2>4. \A i \in l : released[i] = 0
      BY <1>0, <2>1 DEF ReleaseInv
    <2>5. \A i \in Item : /\ released'[i] <= 1
                          /\ released'[i] > 0 => i.msg \in forGood'[i.addr]
      BY <2>2, <2>3 DEF ReleaseInv
    <2>6. \A j \in jobs' : \A i \in j.release :
             released'[i] = 0 /\ i.msg \in forGood'[i.addr]
      BY <1>0, <2>1, <2>2, <2>3, <2>4 DEF ReleaseInv
    <2>7. \A j \in jobs : j.release \cap l = {}
      BY <1>0, <2>1 DEF ReleaseInv
    <2>8. \A j, k \in jobs' : j # k => j.release \cap k.release = {}
      BY <2>1, <2>7 DEF ReleaseInv
    <2> QED BY <2>5, <2>6, <2>8 DEF ReleaseInv
  <1>2. ASSUME NEW j \in jobs, NEW i \in Item, NEW ok \in BOOLEAN,
               ReleaseUsage(j, i, ok)
        PROVE  ReleaseInv'
    <2> DEFINE k == [j EXCEPT !.release = @ \ {i}]
    <2>1. k.release = j.release \ {i}
      BY DEF TypeOK, Job
    <2>2. \A x \in jobs' : (x \in jobs /\ x # j) \/ x = k
      BY <1>2 DEF ReleaseUsage, Continue
    <2>3. /\ i \in j.release
          /\ forGood' = forGood
          /\ \A x \in Item : released'[x] = IF ok /\ x = i THEN released[x] + 1
                                            ELSE released[x]
      BY <1>0, <1>2 DEF ReleaseUsage
    <2> HIDE DEF k
    <2>4. released[i] = 0 /\ i.msg \in forGood[i.addr]
      BY <2>3 DEF ReleaseInv
    <2>5. \A x \in Item : /\ released'[x] <= 1
                          /\ released'[x] > 0 => x.msg \in forGood'[x.addr]
      BY <1>0, <2>3, <2>4 DEF ReleaseInv
    <2>6. \A x \in jobs' : \A y \in x.release :
             y # i /\ released[y] = 0 /\ y.msg \in forGood[y.addr] /\ y \in Item
      BY <1>0, <2>1, <2>2, <2>3 DEF ReleaseInv
    <2>7. \A x, y \in jobs' : x # y => x.release \cap y.release = {}
      BY <2>1, <2>2 DEF ReleaseInv
    <2> QED BY <2>3, <2>5, <2>6, <2>7 DEF ReleaseInv
  <1>3. CASE /\ UNCHANGED <<released, forGood>>
             /\ \A k \in jobs' : k \in jobs \/ k.release = {}
    BY <1>3 DEF ReleaseInv
  <1>4. CASE /\ UNCHANGED <<released, forGood>>
             /\ \E j \in jobs : \A k \in jobs' :
                    \/ k \in jobs /\ k # j
                    \/ k.release = j.release
                       /\ \A l \in jobs' : l = k \/ (l \in jobs /\ l # j)
    BY <1>4 DEF ReleaseInv
  <1> QED BY <1>1, <1>2, <1>3, <1>4, ReleaseFrame

\* Whatever is deleted by whom, retried or lost, fmsgid is told at most once
\* to give back a message's usage, and only for what its owner purged.
THEOREM GivenBackOnce == Spec => []ReleasedOnce
  <1>1. Init => ReleaseInv
    BY DEF Init, ReleaseInv
  <1>2. StoreInv /\ ReleaseInv /\ [Next]_vars => ReleaseInv'
    BY ReleaseStep
  <1>3. ReleaseInv => ReleasedOnce
    BY DEF ReleaseInv, ReleasedOnce
  <1> QED BY <1>1, <1>2, <1>3, StoreInit, StoreStep, PTL DEF Spec

-----------------------------------------------------------------------------
(***************************************************************************)
(* Usage charged                                                           *)
(***************************************************************************)

\* What counts goes on counting: no step takes back a delivery or a send.
LEMMA CountedStable ==
    ASSUME StoreInv, [Next]_vars, NEW i \in Item, Counted(i)
    PROVE  Counted(i)'
  <1> USE DEF StoreInv
  <1>0. i.msg \in Msg /\ i.addr \in Local /\ i.addr \in Addr /\ i.addr \notin Remote
    BY AddrAssumption DEF Item, Addr
  <1>1. ASSUME \A x \in Msg : msg'[x] = msg[x] \/ msg[x].phase \in {"none", "draft"}
        PROVE  Counted(i)'
    BY <1>0, <1>1 DEF Counted, IsSent
  <1>2. ASSUME NEW a \in Local, NEW m \in Msg,
               \/ \E tos, p, f : Create(a, m, tos, p, f)
                                 \/ Update(a, m, tos, p, f)
               \/ Send(a, m)
               \/ \E s \in Msg : React(a, s, m)
        PROVE  \A x \in Msg : msg'[x] = msg[x] \/ msg[x].phase \in {"none", "draft"}
    BY <1>2, CreateEffect, SendEffect, ReactEffect
  <1>3. ASSUME NEW gone, msg' = Erase(gone)
        PROVE  Counted(i)'
    BY <1>0, <1>3, EraseEffect, BlankRows DEF Counted, IsSent
  <1>4. ASSUME NEW a \in Local, NEW m \in Msg, NEW adds \in SUBSET Addr,
               AddRecipients(a, m, adds)
        PROVE  Counted(i)'
    <2>1. /\ \A x \in Msg \ {m} : msg'[x] = msg[x]
          /\ msg'[m].phase = msg[m].phase
          /\ \A r \in adds : msg[m].rows["addTo"][r] = "absent"
          /\ \A t \in Table, r \in Addr :
                \/ msg'[m].rows[t][r] = msg[m].rows[t][r]
                \/ t = "addTo" /\ r \in adds
      BY <1>4, AddEffect
    <2> QED BY <1>0, <2>1 DEF Counted, IsSent
  <1>5. ASSUME NEW j \in jobs, NEW k \in Item, NEW outcome,
               Resolve(j, k, outcome)
        PROVE  Counted(i)'
    <2>1. \A x \in Msg :
              /\ msg'[x].phase = msg[x].phase
              /\ \A t \in Table, r \in Addr :
                    \/ msg'[x].rows[t][r] = msg[x].rows[t][r]
                    \/ msg[x].rows[t][r] = "pending"
      BY <1>5, ResolveEffect
    <2> QED BY <1>0, <2>1 DEF Counted, IsSent
  <1>6. ASSUME FmsgdNext
        PROVE  Counted(i)'
    <2>1. \A x \in Msg :
             \/ msg[x].phase = "none"
             \/ /\ msg'[x].phase = msg[x].phase
                /\ \A t \in Table, r \in Addr :
                      msg'[x].rows[t][r] = msg[x].rows[t][r] \/ r \in Remote
      BY <1>6, FmsgdEffect
    <2> QED BY <1>0, <2>1 DEF Counted, IsSent
  <1>7. \/ msg' = msg
        \/ \E a \in Local, m \in Msg :
              \/ \E tos, p, f : Create(a, m, tos, p, f)
                                \/ Update(a, m, tos, p, f)
              \/ Send(a, m)
              \/ \E adds \in SUBSET Addr : AddRecipients(a, m, adds)
              \/ \E s \in Msg : React(a, s, m)
        \/ \E gone : msg' = Erase(gone)
        \/ \E j \in jobs, k \in Item : \E outcome : Resolve(j, k, outcome)
        \/ FmsgdNext
    BY StepCases DEF vars, DeleteDraft, TrashSent, Restore, Purge,
       SkipRecipient, RecordUsage, ReleaseUsage, LoseJob
  <1> QED BY <1>1, <1>2, <1>3, <1>4, <1>5, <1>6, <1>7

\* At most one request starts or goes on with new items to record, which did
\* not count before and count now; the others keep what they had.
Records(R) ==
    /\ recorded' = recorded
    /\ \A i \in R : ~Counted(i) /\ Counted(i)'
    /\ \A k \in jobs' : k \in jobs \/ k.record = R
    /\ \A k, l \in jobs' : k \in jobs \/ l \in jobs \/ k = l

LEMMA SendRecords ==
    ASSUME StoreInv, NEW a \in Local, NEW m \in Msg,
           Send(a, m) \/ \E s \in Msg : React(a, s, m)
    PROVE  \E R \in SUBSET Item : Records(R)
  <1> USE DEF StoreInv
  <1> DEFINE R == {SendItem(a, m)}
  <1>1. R \in SUBSET Item
    BY ItemSets
  <1>2. recorded' = recorded /\ \E t : jobs' = Start(t, R, {})
    BY DEF Send, React
  <1>3. msg[m].phase \in {"none", "draft"} /\ msg'[m].phase = "sent"
    BY SendEffect, ReactEffect
  <1>4. \A i \in R : ~Counted(i) /\ Counted(i)'
    BY <1>3 DEF Counted, IsSent, SendItem, Table
  <1> HIDE DEF R
  <1>5. \A k \in jobs' : k \in jobs \/ k.record = R
    BY <1>2, StartJobs
  <1>6. \A k, l \in jobs' : k \in jobs \/ l \in jobs \/ k = l
    BY <1>2 DEF Start
  <1> QED BY <1>1, <1>2, <1>4, <1>5, <1>6 DEF Records

LEMMA ResolveRecords ==
    ASSUME StoreInv, NEW j \in jobs, NEW i \in Item, NEW outcome,
           Resolve(j, i, outcome)
    PROVE  \E R \in SUBSET Item : Records(R)
  <1> USE DEF StoreInv
  <1> DEFINE open == /\ IsSent(i.msg)
                     /\ msg[i.msg].rows[i.kind][i.addr] = "pending"
             R == IF open /\ outcome = "delivered" THEN {i} ELSE {}
             x == j.todo \ {i}
             k == [j EXCEPT !.todo = x, !.record = R]
  <1>0. j \in Job /\ i \in Delivery
    BY DEF TypeOK, Resolve, Job
  <1>1. R \in SUBSET Item
    OBVIOUS
  <1>2. recorded' = recorded /\ Continue(j, k)
    BY DEF Resolve
  <1>3. k.record = R
    <2> HIDE DEF x, R
    <2> QED BY <1>0 DEF Job
  <1>4. ASSUME open, outcome = "delivered"
        PROVE  ~Counted(i) /\ Counted(i)'
    <2>1. i.msg \in Msg /\ i.kind \in Table /\ i.addr \in Addr
      BY <1>0 DEF Delivery, Item, Addr
    <2>2. msg[i.msg].rows \in [Table -> [Addr -> RowState]]
      BY <2>1, RowsFunction
    <2>3. msg' = [msg EXCEPT ![i.msg].rows[i.kind][i.addr] = "delivered"]
      BY <1>4 DEF Resolve
    <2>4. /\ msg'[i.msg].phase = msg[i.msg].phase
          /\ msg'[i.msg].rows[i.kind][i.addr] = "delivered"
      BY <2>1, <2>2, <2>3 DEF TypeOK, Message
    <2> QED BY <1>4, <2>1, <2>4 DEF Counted, IsSent
  <1>5. \A q \in R : ~Counted(q) /\ Counted(q)'
    BY <1>4
  <1> HIDE DEF R, k
  <1>6. \A q \in jobs' : q \in jobs \/ q = k
    BY <1>2 DEF Continue
  <1> QED BY <1>1, <1>2, <1>3, <1>5, <1>6 DEF Records

\* Steps with nothing new to record.
LEMMA OtherRecords ==
    ASSUME StoreInv,
           \/ UNCHANGED vars
           \/ \E a \in Local, m \in Msg :
                \/ \E tos, p, f : Create(a, m, tos, p, f)
                                  \/ Update(a, m, tos, p, f)
                \/ DeleteDraft(a, m)
                \/ \E adds \in SUBSET Addr : AddRecipients(a, m, adds)
                \/ \E thread : TrashSent(a, m, thread) \/ Restore(a, m, thread)
                \/ Purge(a, m)
           \/ \E j \in jobs, i \in Item : SkipRecipient(j, i)
           \/ \E j \in jobs : LoseJob(j)
    PROVE  Records({})
  <1> USE DEF StoreInv
  <1>1. CASE UNCHANGED vars
    BY <1>1 DEF vars, Records
  <1>2. ASSUME NEW a \in Local, NEW m \in Msg,
               \/ \E tos, p, f : Create(a, m, tos, p, f)
                                 \/ Update(a, m, tos, p, f)
               \/ DeleteDraft(a, m)
               \/ \E thread : TrashSent(a, m, thread) \/ Restore(a, m, thread)
        PROVE  Records({})
    <2>1. UNCHANGED <<jobs, recorded>>
      BY <1>2 DEF Create, Update, DeleteDraft, TrashSent, Restore
    <2> QED BY <2>1 DEF Records
  <1>3. ASSUME NEW a \in Local, NEW m \in Msg,
               \/ \E adds \in SUBSET Addr : AddRecipients(a, m, adds)
               \/ Purge(a, m)
        PROVE  Records({})
    <2>1. /\ recorded' = recorded
          /\ jobs' = jobs \/ \E t, l : jobs' = Start(t, {}, l)
      BY <1>3 DEF AddRecipients, Purge
    <2>2. \A k \in jobs' : k \in jobs \/ k.record = {}
      BY <2>1, StartJobs
    <2>3. \A k, l \in jobs' : k \in jobs \/ l \in jobs \/ k = l
      BY <2>1 DEF Start
    <2> QED BY <2>1, <2>2, <2>3 DEF Records
  <1>4. ASSUME NEW j \in jobs, NEW i \in Item, SkipRecipient(j, i)
        PROVE  Records({})
    <2> DEFINE x == j.todo \ {i}
               k == [j EXCEPT !.todo = x]
    <2>1. recorded' = recorded /\ Continue(j, k) /\ j.record = {}
      BY <1>4 DEF SkipRecipient
    <2>2. k.record = {}
      <3>1. j \in Job
        BY DEF TypeOK
      <3> HIDE DEF x
      <3> QED BY <2>1, <3>1 DEF Job
    <2> HIDE DEF k
    <2> QED BY <2>1, <2>2 DEF Continue, Records
  <1>5. ASSUME NEW j \in jobs, LoseJob(j)
        PROVE  Records({})
    BY <1>5 DEF LoseJob, Records
  <1> QED BY <1>1, <1>2, <1>3, <1>4, <1>5

LEMMA ChargeStep ==
    ASSUME StoreInv, ChargeInv, [Next]_vars
    PROVE  ChargeInv'
  <1> USE DEF StoreInv
  <1>0. /\ \A j \in jobs : j.record \subseteq Item
        /\ \A i \in Item : recorded[i] \in Nat
        /\ recorded \in [Item -> Nat]
    BY DEF TypeOK, Job
  <1>stable. \A i \in Item : Counted(i) => Counted(i)'
    BY CountedStable
  <1>1. ASSUME NEW R \in SUBSET Item, Records(R)
        PROVE  ChargeInv'
    <2>1. \A i \in R : recorded[i] = 0
      BY <1>0, <1>1 DEF Records, ChargeInv
    <2>2. \A i \in Item : recorded'[i] <= 1 /\ (recorded'[i] > 0 => Counted(i)')
      BY <1>stable, <1>1 DEF Records, ChargeInv
    <2>3. \A j \in jobs' : \A i \in j.record : recorded'[i] = 0 /\ Counted(i)'
      BY <1>0, <1>stable, <1>1, <2>1 DEF Records, ChargeInv
    <2>4. \A j \in jobs : j.record \cap R = {}
      BY <1>0, <1>1 DEF Records, ChargeInv
    <2>5. \A j, k \in jobs' : j # k => j.record \cap k.record = {}
      BY <1>1, <2>4 DEF Records, ChargeInv
    <2> QED BY <2>2, <2>3, <2>5 DEF ChargeInv
  <1>2. ASSUME NEW j \in jobs, NEW i \in Item, NEW ok \in BOOLEAN,
               RecordUsage(j, i, ok)
        PROVE  ChargeInv'
    <2> DEFINE k == [j EXCEPT !.record = @ \ {i}]
    <2>1. k.record = j.record \ {i}
      BY DEF TypeOK, Job
    <2>2. \A x \in jobs' : (x \in jobs /\ x # j) \/ x = k
      BY <1>2 DEF RecordUsage, Continue
    <2>3. /\ i \in j.record
          /\ \A x \in Item : recorded'[x] = IF ok /\ x = i THEN recorded[x] + 1
                                            ELSE recorded[x]
      BY <1>0, <1>2 DEF RecordUsage
    <2> HIDE DEF k
    <2>4. recorded[i] = 0 /\ Counted(i)'
      BY <1>stable, <2>3 DEF ChargeInv
    <2>5. \A x \in Item : recorded'[x] <= 1 /\ (recorded'[x] > 0 => Counted(x)')
      BY <1>0, <1>stable, <2>3, <2>4 DEF ChargeInv
    <2>6. \A x \in jobs' : \A y \in x.record :
             y # i /\ recorded[y] = 0 /\ Counted(y)' /\ y \in Item
      BY <1>0, <1>stable, <2>1, <2>2, <2>3 DEF ChargeInv
    <2>7. \A x, y \in jobs' : x # y => x.record \cap y.record = {}
      BY <2>1, <2>2 DEF ChargeInv
    <2> QED BY <2>3, <2>5, <2>6, <2>7 DEF ChargeInv
  <1>3. ASSUME NEW j \in jobs, NEW i \in Item, NEW ok \in BOOLEAN,
               ReleaseUsage(j, i, ok)
        PROVE  ChargeInv'
    <2> DEFINE x == j.release \ {i}
               k == [j EXCEPT !.release = x]
    <2>1. recorded' = recorded /\ Continue(j, k)
      BY <1>3 DEF ReleaseUsage
    <2>2. k.record = j.record
      <3>1. j \in Job
        BY DEF TypeOK
      <3> HIDE DEF x
      <3> QED BY <3>1 DEF Job
    <2> HIDE DEF k
    <2>3. \A q \in jobs' : (q \in jobs /\ q # j) \/ q = k
      BY <2>1 DEF Continue
    <2>4. \A q \in jobs' : \A y \in q.record : recorded'[y] = 0 /\ Counted(y)'
      BY <1>0, <1>stable, <2>1, <2>2, <2>3 DEF ChargeInv
    <2>5. \A q, r \in jobs' : q # r => q.record \cap r.record = {}
      BY <2>2, <2>3 DEF ChargeInv
    <2> QED BY <1>stable, <2>1, <2>4, <2>5 DEF ChargeInv
  <1>4. ASSUME FmsgdNext
        PROVE  ChargeInv'
    <2>1. /\ jobs' = jobs
          /\ \A i \in Item :
                \/ recorded'[i] = recorded[i]
                \/ recorded'[i] = recorded[i] + 1 /\ ~Counted(i) /\ Counted(i)'
      BY <1>4, FmsgdEffect DEF Counted, IsSent
    <2>2. \A i \in Item : recorded'[i] <= 1 /\ (recorded'[i] > 0 => Counted(i)')
      BY <1>0, <1>stable, <2>1 DEF ChargeInv
    <2>3. \A j \in jobs' : \A i \in j.record : recorded'[i] = 0 /\ Counted(i)'
      BY <1>0, <1>stable, <2>1 DEF ChargeInv
    <2> QED BY <2>1, <2>2, <2>3 DEF ChargeInv
  <1>5. \/ \E R \in SUBSET Item : Records(R)
        \/ \E j \in jobs, i \in Item, ok \in BOOLEAN :
              RecordUsage(j, i, ok) \/ ReleaseUsage(j, i, ok)
        \/ FmsgdNext
    <2>1. {} \in SUBSET Item
      OBVIOUS
    <2> QED BY <2>1, StepCases, SendRecords, ResolveRecords, OtherRecords
  <1> QED BY <1>1, <1>2, <1>3, <1>4, <1>5

\* However requests, deliveries and failures interleave, fmsgid is charged at
\* most once for a message sent and for each delivery of it.
THEOREM NeverChargedTwice == Spec => []ChargedOnce
  <1>1. Init => ChargeInv
    BY DEF Init, ChargeInv
  <1>2. StoreInv /\ ChargeInv /\ [Next]_vars => ChargeInv'
    BY ChargeStep
  <1>3. ChargeInv => ChargedOnce
    BY DEF ChargeInv, ChargedOnce
  <1> QED BY <1>1, <1>2, <1>3, StoreInit, StoreStep, PTL DEF Spec
=============================================================================
