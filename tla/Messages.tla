------------------------------ MODULE Messages ------------------------------
(***************************************************************************)
(* The message store behind the web API: drafts, sending, add-to batches,  *)
(* reactions, each address's trash, removal from the host, and the work a  *)
(* request does after its transaction has committed (local delivery and    *)
(* quota bookkeeping at fmsgid).                                           *)
(*                                                                         *)
(* Every mutating handler runs in one transaction that holds the row lock  *)
(* of its message (transaction.go, atomic), so a handler is one action.    *)
(* What it registered with afterCommit runs later, without the lock, in    *)
(* steps that interleave with every other request: such a remainder is a   *)
(* member of jobs.  A request answered with an error changes nothing and   *)
(* is not an action.                                                       *)
(***************************************************************************)
EXTENDS Naturals, Sequences, FiniteSets

CONSTANTS
    Local,       \* addresses of this host's domain
    Remote,      \* addresses elsewhere, one per remote domain
    Msg,         \* message ids
    NoMsg,       \* SQL NULL in msg.pid
    NoAddr,      \* sender of an id that holds no message
    Recipients,  \* recipient sets that requests name (bounds the inputs)
    MaxBatches,  \* add-to batches per message (bounds the inputs)
    Terminal,    \* values of is_terminal that requests give
    Ops,         \* the optional operations of an instance
    Outcomes,    \* what fmsgid answers for a recipient (bounds the inputs)
    MayFail      \* whether post-commit work can be lost or fail

Addr == Local \cup Remote

ASSUME AddrAssumption  == Local \cap Remote = {} /\ NoAddr \notin Addr
ASSUME MsgAssumption   == NoMsg \notin Msg
ASSUME InputAssumption == /\ Recipients \subseteq SUBSET Addr
                          /\ MaxBatches \in Nat
                          /\ Terminal \subseteq BOOLEAN
                          /\ Outcomes \subseteq {"retryable", "refused",
                                               "delivered"}
                          /\ MayFail \in BOOLEAN

VARIABLES
    msg,       \* tables msg, msg_to, msg_add_to, msg_add_to_batch/_notify
    trash,     \* table fmsg_api_trash: trash[a][m] is a's row for m
    jobs,      \* post-commit remainders of requests still running
    recorded,  \* usage fmsgid was told to add, per item
    released,  \* usage fmsgid was told to give back, per item
    forGood    \* history: messages each address itself deleted for good

vars == <<msg, trash, jobs, recorded, released, forGood>>

Table == {"to", "addTo"}

(***************************************************************************)
(* time_delivered and response_code of a recipient row: no outcome yet,    *)
(* -1, a code fmsgd retries (3, 5, 101), any other refusal, the code of a  *)
(* delivery that was another host's, or delivered.                         *)
(***************************************************************************)
RowState == {"absent", "pending", "noresponse", "retryable", "refused",
             "notours", "delivered"}

NoRows == [t \in Table |-> [a \in Addr |-> "absent"]]

Phase   == {"none", "draft", "sent", "removed"}
Rows    == [Table -> [Addr -> RowState]]
Batches == Seq(SUBSET Addr)       \* msg_add_to_batch, in order
Groups  == SUBSET Nat             \* 0: the msg_to rows, b: batch b
Notices == SUBSET (Nat \X Remote) \* msg_add_to_notify still outstanding

Message == [phase : Phase, from : Addr \cup {NoAddr}, pid : Msg \cup {NoMsg},
            terminal : BOOLEAN, rows : Rows, batch : Batches,
            lapsed : Groups, notify : Notices]

Blank(phase) == [phase |-> phase, from |-> NoAddr, pid |-> NoMsg,
                 terminal |-> FALSE, rows |-> NoRows, batch |-> <<>>,
                 lapsed |-> {}, notify |-> {}]

\* A purged row also keeps its thread flag, which then no longer matters.
TrashRow == {"none", "message", "thread", "purged"}

\* One unit of usage: a message as sent by addr, or one delivery to addr.
Item == [addr : Local, msg : Msg, kind : {"send", "to", "addTo"}]

Delivery == {i \in Item : i.kind \in Table}

\* What is left of a request after commit: rows to resolve, then usage to
\* record before the next row, and usage to release (purge).
Job == [todo : SUBSET Delivery, record : SUBSET Item, release : SUBSET Item]

TypeOK ==
    /\ msg \in [Msg -> Message]
    /\ trash \in [Local -> [Msg -> TrashRow]]
    /\ jobs \subseteq Job
    /\ recorded \in [Item -> Nat]
    /\ released \in [Item -> Nat]
    /\ forGood \in [Local -> SUBSET Msg]

Init ==
    /\ msg = [m \in Msg |-> Blank("none")]
    /\ trash = [a \in Local |-> [m \in Msg |-> "none"]]
    /\ jobs = {}
    /\ recorded = [i \in Item |-> 0]
    /\ released = [i \in Item |-> 0]
    /\ forGood = [a \in Local |-> {}]

-----------------------------------------------------------------------------
(***************************************************************************)
(* Reading the tables                                                      *)
(***************************************************************************)

IsSent(m) == msg[m].phase = "sent"

\* participates: the sender or a recipient of either kind.
Participates(a, m) ==
    \/ msg[m].from = a
    \/ \E t \in Table : msg[m].rows[t][a] # "absent"

\* The recursive walk up msg.pid: m and everything it replies to, as the
\* least set that holds m and the parent of each of its members.
Up(m) ==
    {x \in Msg : \A S \in SUBSET Msg :
        (/\ m \in S
         /\ \A y \in S : msg[y].pid # NoMsg => msg[y].pid \in S) => x \in S}

\* Mutant of TrashState: what m replies to does not count.
TrashStateOwn(a, m) == trash[a][m]

\* fmsg_api_trash_state
TrashState(a, m) ==
    LET marks == {trash[a][x] : x \in Up(m)} IN
    IF "purged" \in marks THEN "purged"
    ELSE IF "thread" \in marks THEN "thread"
    ELSE trash[a][m]

PurgedFor(a, m) == TrashState(a, m) = "purged"

\* trashSubtree: the sent messages at or below m that a takes part in.
TrashSubtree(a, m) ==
    {x \in Msg : m \in Up(x) /\ IsSent(x) /\ Participates(a, x)}

\* The local addresses that sent m or accepted it.
Holders(m) ==
    {a \in Local : \/ IsSent(m) /\ msg[m].from = a
                   \/ \E t \in Table : msg[m].rows[t][a] = "delivered"}

Undelivered == {"pending", "noresponse", "retryable"}

\* The group (0 for msg_to, b for batch b) whose age counts for a row.
Group(m, t, a) ==
    IF t = "to" THEN 0
    ELSE CHOOSE b \in DOMAIN msg[m].batch : a \in msg[m].batch[b]

\* Mutant of DeliveryPending: a row without an outcome does not count.
DeliveryPendingRetriesOnly(m) ==
    \E t \in Table, a \in Addr :
        /\ msg[m].rows[t][a] \in Undelivered \ {"pending"}
        /\ Group(m, t, a) \notin msg[m].lapsed

\* fmsg_api_delivery_pending
DeliveryPending(m) ==
    \/ \E t \in Table, a \in Addr :
          /\ msg[m].rows[t][a] \in Undelivered
          /\ t = "to" => IsSent(m)
          /\ Group(m, t, a) \notin msg[m].lapsed
    \/ \E n \in msg[m].notify : n[1] \notin msg[m].lapsed

\* usageOf: what m counted against a.
UsageOf(a, m) ==
    {i \in Item :
        /\ i.addr = a
        /\ i.msg = m
        /\ \/ i.kind = "send" /\ IsSent(m) /\ msg[m].from = a
           \/ i.kind \in Table /\ msg[m].rows[i.kind][a] = "delivered"}

\* parentDeliveryByDomain: p is stored at r's host, or may still get there.
Reachable(p, r) ==
    \/ msg[p].from = r
    \/ \E t \in Table :
          msg[p].rows[t][r] \in {"delivered", "pending", "noresponse", "notours"}

\* undeliverableReplyDomains, for a reply to p with recipients tos.
Undeliverable(p, tos) == {r \in Remote \cap tos : ~Reachable(p, r)}

RecipientsOf(m) ==
    {a \in Addr : \E t \in Table : msg[m].rows[t][a] # "absent"}

\* Mutant of ValidParent: the parent may be a draft.
ValidParentDraftToo(a, p) ==
    /\ msg[p].phase \in {"draft", "sent"}
    /\ ~msg[p].terminal
    /\ Participates(a, p)
    /\ ~PurgedFor(a, p)

\* resolveParent and validateParent: a may reply to p.
ValidParent(a, p) ==
    /\ IsSent(p)
    /\ ~msg[p].terminal
    /\ Participates(a, p)
    /\ ~PurgedFor(a, p)

\* The local recipients whose delivery a request resolves after commit.
LocalRows(m, t, addrs) ==
    {i \in Item : i.msg = m /\ i.kind = t /\ i.addr \in addrs}

PendingRows(tos) == [a \in Addr |-> IF a \in tos THEN "pending" ELSE "absent"]

Start(todo, record, release) ==
    IF todo \cup record \cup release = {} THEN jobs
    ELSE jobs \cup {[todo |-> todo, record |-> record, release |-> release]}

-----------------------------------------------------------------------------
(***************************************************************************)
(* Drafts                                                                  *)
(***************************************************************************)

Draft(a, tos, p, terminal, old) ==
    [old EXCEPT !.phase = "draft", !.from = a, !.pid = p,
                !.terminal = terminal, !.rows["to"] = PendingRows(tos)]

Create(a, m, tos, p, terminal) ==
    /\ msg[m].phase = "none"
    /\ tos # {}
    /\ p # NoMsg => ValidParent(a, p)
    /\ msg' = [msg EXCEPT ![m] = Draft(a, tos, p, terminal, msg[m])]
    /\ UNCHANGED <<trash, jobs, recorded, released, forGood>>

\* A draft may be left without recipients; its add-to batches stay.
Update(a, m, tos, p, terminal) ==
    /\ msg[m].phase = "draft"
    /\ msg[m].from = a
    /\ p # NoMsg => ValidParent(a, p)
    /\ msg' = [msg EXCEPT ![m] = Draft(a, tos, p, terminal, msg[m])]
    /\ UNCHANGED <<trash, jobs, recorded, released, forGood>>

\* Mutants of Erase: replies keep their pid; they get no proper NULL.
EraseKeepsPid(gone) ==
    [x \in Msg |-> IF x \in gone THEN Blank("removed") ELSE msg[x]]
EraseNoNull(gone) ==
    [x \in Msg |-> IF x \in gone THEN Blank("removed")
                   ELSE IF msg[x].pid \in gone
                        THEN [msg[x] EXCEPT !.pid = NoAddr]
                        ELSE msg[x]]

\* Rows of the messages in gone are deleted; replies to them lose their pid.
Erase(gone) ==
    [x \in Msg |-> IF x \in gone THEN Blank("removed")
                   ELSE IF msg[x].pid \in gone
                        THEN [msg[x] EXCEPT !.pid = NoMsg]
                        ELSE msg[x]]

DeleteDraft(a, m) ==
    /\ msg[m].phase = "draft"
    /\ msg[m].from = a
    /\ msg' = Erase({m})
    /\ UNCHANGED <<trash, jobs, recorded, released, forGood>>

-----------------------------------------------------------------------------
(***************************************************************************)
(* Sending, add-to and reactions                                           *)
(***************************************************************************)

SendItem(a, m) == [addr |-> a, msg |-> m, kind |-> "send"]

\* Mutant of Send: recipients added to the draft are not resolved.
SendSkipsAddTo(a, m) ==
    /\ msg[m].phase = "draft"
    /\ msg[m].from = a
    /\ \E r \in Addr : msg[m].rows["to"][r] # "absent"
    /\ msg[m].pid # NoMsg => Undeliverable(msg[m].pid, RecipientsOf(m)) = {}
    /\ msg' = [msg EXCEPT ![m].phase = "sent"]
    /\ jobs' = Start(LocalRows(m, "to", {r \in Local :
                                msg[m].rows["to"][r] # "absent"}),
                     {SendItem(a, m)}, {})
    /\ UNCHANGED <<trash, recorded, released, forGood>>

Send(a, m) ==
    /\ msg[m].phase = "draft"
    /\ msg[m].from = a
    /\ \E r \in Addr : msg[m].rows["to"][r] # "absent"
    /\ msg[m].pid # NoMsg => Undeliverable(msg[m].pid, RecipientsOf(m)) = {}
    /\ msg' = [msg EXCEPT ![m].phase = "sent"]
    /\ jobs' = Start(UNION {LocalRows(m, t, {r \in Local :
                                msg[m].rows[t][r] # "absent"}) : t \in Table},
                     {SendItem(a, m)}, {})
    /\ UNCHANGED <<trash, recorded, released, forGood>>

\* Mutant of AddRecipients: an address may be added again.
AddRecipientsAgain(a, m, adds) ==
    LET b == Len(msg[m].batch) + 1 IN
    /\ IsSent(m)
    /\ ~PurgedFor(a, m)
    /\ msg[m].from = a \/ msg[m].rows["to"][a] # "absent"
    /\ adds # {}
    /\ b <= MaxBatches
    /\ msg' = [msg EXCEPT
                 ![m].batch = Append(@, adds),
                 ![m].rows["addTo"] =
                     [r \in Addr |-> IF r \in adds THEN "pending" ELSE @[r]]]
    /\ jobs' = Start(LocalRows(m, "addTo", adds), {}, {})
    /\ UNCHANGED <<trash, recorded, released, forGood>>

AddRecipients(a, m, adds) ==
    LET b == Len(msg[m].batch) + 1
        told == {r \in Remote \ adds :
                    r = msg[m].from \/ msg[m].rows["to"][r] # "absent"} IN
    /\ msg[m].phase \in {"draft", "sent"}
    /\ msg[m].phase = "draft" => msg[m].from = a
    /\ ~PurgedFor(a, m)
    /\ ~msg[m].terminal
    /\ msg[m].from = a \/ msg[m].rows["to"][a] # "absent"
    /\ adds # {}
    /\ \A r \in adds : msg[m].rows["addTo"][r] = "absent"
    /\ b <= MaxBatches
    /\ msg' = [msg EXCEPT
                 ![m].batch = Append(@, adds),
                 ![m].rows["addTo"] =
                     [r \in Addr |-> IF r \in adds THEN "pending" ELSE @[r]],
                 ![m].notify = @ \cup {<<b, r>> : r \in told}]
    /\ jobs' = IF IsSent(m) THEN Start(LocalRows(m, "addTo", adds), {}, {})
               ELSE jobs
    /\ UNCHANGED <<trash, recorded, released, forGood>>

\* A reaction is a terminal reply, made and sent in one request.  A repeat of
\* the caller's current reaction sends nothing.
React(a, s, m) ==
    LET tos == (RecipientsOf(s) \cup {msg[s].from}) \ {a} IN
    /\ msg[m].phase = "none"
    /\ IsSent(s)
    /\ ~PurgedFor(a, s)
    /\ Participates(a, s)
    /\ ~msg[s].terminal
    /\ tos # {}
    /\ Undeliverable(s, tos) = {}
    /\ msg' = [msg EXCEPT ![m] =
                 [Draft(a, tos, s, TRUE, msg[m]) EXCEPT !.phase = "sent"]]
    /\ jobs' = Start(LocalRows(m, "to", tos), {SendItem(a, m)}, {})
    /\ UNCHANGED <<trash, recorded, released, forGood>>

-----------------------------------------------------------------------------
(***************************************************************************)
(* Trash                                                                   *)
(***************************************************************************)

Mark(a, m, row) == [trash EXCEPT ![a][m] = row]

\* trashSent without permanent: thread marks are never taken back here.
TrashSent(a, m, thread) ==
    /\ IsSent(m)
    /\ Participates(a, m)
    /\ ~PurgedFor(a, m)
    /\ trash' = Mark(a, m, IF thread \/ trash[a][m] = "thread"
                           THEN "thread" ELSE "message")
    /\ UNCHANGED <<msg, jobs, recorded, released, forGood>>

\* Mutant of Restore: purged rows are deleted too.
RestorePurged(a, m, thread) ==
    LET ids == IF thread THEN TrashSubtree(a, m) ELSE {m} IN
    /\ Participates(a, m)
    /\ ~PurgedFor(a, m)
    /\ trash' = [trash EXCEPT ![a] =
                   [x \in Msg |-> IF x \in ids THEN "none" ELSE @[x]]]
    /\ UNCHANGED <<msg, jobs, recorded, released, forGood>>

Restore(a, m, thread) ==
    LET ids == IF thread THEN TrashSubtree(a, m) ELSE {m} IN
    /\ Participates(a, m)
    /\ ~PurgedFor(a, m)
    /\ trash' = [trash EXCEPT ![a] =
                   [x \in Msg |-> IF x \in ids /\ @[x] # "purged"
                                  THEN "none" ELSE @[x]]]
    /\ UNCHANGED <<msg, jobs, recorded, released, forGood>>

\* Mutant of NewlyPurged: a purged row is not skipped.
AllPurged(a, ids) == ids

\* markPurged: the ids that were not purged before, whose usage is released.
NewlyPurged(a, ids) == {x \in ids : trash[a][x] # "purged"}

\* Mutant of MarkPurged: the rows of every address are purged.
MarkPurgedForAll(a, ids) ==
    [h \in Local |-> [x \in Msg |-> IF x \in ids THEN "purged"
                                   ELSE trash[h][x]]]

\* markPurged: the rows of ids become purged.
MarkPurged(a, ids) ==
    [trash EXCEPT ![a] = [x \in Msg |-> IF x \in ids THEN "purged" ELSE @[x]]]

\* Mutant of Unheld: only the sender's copy keeps a message.
UnheldBySender(ids, marked) ==
    {x \in ids : /\ \A h \in Holders(x) \cap {msg[x].from} :
                       marked[h][x] = "purged"
                 /\ ~DeliveryPending(x)}

\* removeUnheld: those of ids no holder keeps and nobody still delivers.
Unheld(ids, marked) ==
    {x \in ids : /\ \A h \in Holders(x) : marked[h][x] = "purged"
                 /\ ~DeliveryPending(x)}

Purge(a, m) ==
    LET ids    == TrashSubtree(a, m)
        newly  == NewlyPurged(a, ids)
        marked == MarkPurged(a, ids)
        gone   == Unheld(ids, marked) IN
    /\ IsSent(m)
    /\ Participates(a, m)
    /\ ~PurgedFor(a, m)
    /\ msg' = Erase(gone)
    /\ trash' = [h \in Local |-> [x \in Msg |->
                    IF x \in gone THEN "none" ELSE marked[h][x]]]
    /\ jobs' = Start({}, {}, UNION {UsageOf(a, x) : x \in newly})
    /\ forGood' = [forGood EXCEPT ![a] = @ \cup ids]
    /\ UNCHANGED <<recorded, released>>

-----------------------------------------------------------------------------
(***************************************************************************)
(* Post-commit work                                                        *)
(***************************************************************************)

\* j goes on as k; a job with nothing left has returned.
Continue(j, k) ==
    jobs' = (jobs \ {j}) \cup
            (IF k.todo \cup k.record \cup k.release = {} THEN {} ELSE {k})

\* resolveLocalDelivery, one recipient.  The update only touches a row that
\* has no outcome yet, and only a delivery made here is recorded.
Resolve(j, i, outcome) ==
    LET open == /\ IsSent(i.msg)
                /\ msg[i.msg].rows[i.kind][i.addr] = "pending" IN
    /\ j.record = {}
    /\ i \in j.todo
    /\ i.kind = "addTo" => \A k \in j.todo : k.kind = "addTo"
    /\ msg' = IF open
              THEN [msg EXCEPT ![i.msg].rows[i.kind][i.addr] = outcome]
              ELSE msg
    /\ Continue(j, [j EXCEPT !.todo = @ \ {i},
                             !.record = IF open /\ outcome = "delivered"
                                        THEN {i} ELSE {}])
    /\ UNCHANGED <<trash, recorded, released, forGood>>

\* fmsgid unreachable or answering oddly, or the request's context cancelled:
\* the recipient stays as it is and nothing tries again.
SkipRecipient(j, i) ==
    /\ MayFail
    /\ j.record = {}
    /\ i \in j.todo
    /\ Continue(j, [j EXCEPT !.todo = @ \ {i}])
    /\ UNCHANGED <<msg, trash, recorded, released, forGood>>

\* Mutant of RecordUsage: a call that failed to answer is made again,
\* though fmsgid had counted it.
RecordUsageRetried(j, i, ok) ==
    /\ ok \/ MayFail
    /\ i \in j.record
    /\ recorded' = [recorded EXCEPT ![i] = @ + 1]
    /\ Continue(j, IF ok THEN [j EXCEPT !.record = @ \ {i}] ELSE j)
    /\ UNCHANGED <<msg, trash, released, forGood>>

\* recordSend, RecordFmsgIDRecv.  A failure is logged.
RecordUsage(j, i, ok) ==
    /\ ok \/ MayFail
    /\ i \in j.record
    /\ recorded' = IF ok THEN [recorded EXCEPT ![i] = @ + 1] ELSE recorded
    /\ Continue(j, [j EXCEPT !.record = @ \ {i}])
    /\ UNCHANGED <<msg, trash, released, forGood>>

\* ReleaseFmsgIDSend, ReleaseFmsgIDRecv.  A failure is logged.
ReleaseUsage(j, i, ok) ==
    /\ ok \/ MayFail
    /\ i \in j.release
    /\ released' = IF ok THEN [released EXCEPT ![i] = @ + 1] ELSE released
    /\ Continue(j, [j EXCEPT !.release = @ \ {i}])
    /\ UNCHANGED <<msg, trash, recorded, forGood>>

\* The process dies, or the acknowledgement of the commit was lost and the
\* callbacks never ran: the rest of the request is gone.
LoseJob(j) ==
    /\ MayFail
    /\ jobs' = jobs \ {j}
    /\ UNCHANGED <<msg, trash, recorded, released, forGood>>

-----------------------------------------------------------------------------
(***************************************************************************)
(* fmsgd, which shares the database                                        *)
(***************************************************************************)

\* A message arrives from another host; each local recipient accepts it
\* (and is charged by fmsgd) or not, and at least one does.
FmsgdReceive(r, m, tos, accepted, p, terminal) ==
    /\ msg[m].phase = "none"
    /\ accepted # {}
    /\ accepted \subseteq tos \cap Local
    /\ p # NoMsg => IsSent(p) /\ ~msg[p].terminal /\ Participates(r, p)
    /\ msg' = [msg EXCEPT ![m] =
                 [Blank("sent") EXCEPT
                    !.from = r, !.pid = p, !.terminal = terminal,
                    !.rows["to"] = [a \in Addr |->
                        IF a \notin tos THEN "absent"
                        ELSE IF a \in Remote THEN "notours"
                        ELSE IF a \in accepted THEN "delivered"
                        ELSE "refused"]]]
    /\ recorded' = [i \in Item |->
                      IF i.msg = m /\ i.kind = "to" /\ i.addr \in accepted
                      THEN recorded[i] + 1 ELSE recorded[i]]
    /\ UNCHANGED <<trash, jobs, released, forGood>>

\* fmsgd attempts a delivery to a remote recipient.
FmsgdAttempt(m, t, r, outcome) ==
    /\ IsSent(m)
    /\ msg[m].rows[t][r] \in Undelivered
    /\ Group(m, t, r) \notin msg[m].lapsed
    /\ msg' = [msg EXCEPT ![m].rows[t][r] = outcome]
    /\ UNCHANGED <<trash, jobs, recorded, released, forGood>>

\* fmsgd concludes an add-to notification.
FmsgdNotify(m, n) ==
    /\ IsSent(m)
    /\ n \in msg[m].notify
    /\ n[1] \notin msg[m].lapsed
    /\ msg' = [msg EXCEPT ![m].notify = @ \ {n}]
    /\ UNCHANGED <<trash, jobs, recorded, released, forGood>>

\* A group of deliveries outlives FMSG_RETRY_MAX_AGE (a day by default, so
\* after every request about the message has ended); batches in order.
RetryWindowOver(m, b) ==
    /\ msg[m].phase \in {"draft", "sent"}
    /\ b \in 0 .. Len(msg[m].batch)
    /\ b = 0 => IsSent(m)
    /\ b \notin msg[m].lapsed
    /\ \A c \in 1 .. (b - 1) : c \in msg[m].lapsed
    /\ \A j \in jobs : \A i \in j.todo \cup j.record : i.msg # m
    /\ msg' = [msg EXCEPT ![m].lapsed = @ \cup {b}]
    /\ UNCHANGED <<trash, jobs, recorded, released, forGood>>

-----------------------------------------------------------------------------
LocalNext ==
    \E a \in Local, m \in Msg :
        \/ \E tos \in Recipients, p \in Msg \cup {NoMsg}, f \in Terminal :
              Create(a, m, tos, p, f)
        \/ \E tos \in Recipients \cup {{}}, p \in Msg \cup {NoMsg},
              f \in Terminal : "update" \in Ops /\ Update(a, m, tos, p, f)
        \/ "delete" \in Ops /\ DeleteDraft(a, m)
        \/ Send(a, m)
        \/ \E adds \in Recipients : AddRecipients(a, m, adds)
        \/ \E s \in Msg : "react" \in Ops /\ React(a, s, m)
        \/ \E thread \in BOOLEAN : "trash" \in Ops /\ TrashSent(a, m, thread)
        \/ \E thread \in BOOLEAN : "trash" \in Ops /\ Restore(a, m, thread)
        \/ Purge(a, m)

JobNext ==
    \E j \in jobs :
        \/ \E i \in j.todo, outcome \in Outcomes : Resolve(j, i, outcome)
        \/ \E i \in j.record : RecordUsage(j, i, TRUE)
        \/ \E i \in j.release : ReleaseUsage(j, i, TRUE)

FaultNext ==
    \E j \in jobs :
        \/ \E i \in j.todo : SkipRecipient(j, i)
        \/ \E i \in j.record : RecordUsage(j, i, FALSE)
        \/ \E i \in j.release : ReleaseUsage(j, i, FALSE)
        \/ LoseJob(j)

FmsgdNext ==
    \E m \in Msg :
        \/ \E r \in Remote, tos \in Recipients, p \in Msg \cup {NoMsg},
              f \in Terminal : \E accepted \in SUBSET tos :
              FmsgdReceive(r, m, tos, accepted, p, f)
        \/ \E t \in Table, r \in Remote, outcome \in
              {"noresponse", "retryable", "refused", "delivered"} :
              FmsgdAttempt(m, t, r, outcome)
        \/ \E n \in msg[m].notify : FmsgdNotify(m, n)
        \/ \E b \in 0 .. MaxBatches : "age" \in Ops /\ RetryWindowOver(m, b)

Next == LocalNext \/ JobNext \/ FaultNext \/ FmsgdNext

Spec == Init /\ [][Next]_vars

-----------------------------------------------------------------------------
(***************************************************************************)
(* Properties that hold                                                    *)
(***************************************************************************)

\* A message replies only to one that is on the host, sent and not terminal,
\* whatever is edited, sent, purged or removed afterwards (resolveParent on
\* create and update, pid set to NULL on removal).
ParentOnHost ==
    \A m \in Msg : msg[m].pid # NoMsg =>
        IsSent(msg[m].pid) /\ ~msg[msg[m].pid].terminal

\* No sequence of creates, updates and sends makes a message its own
\* ancestor: the recursive walks of dd.sql and trashSubtree end by themselves.
ThreadsAcyclic ==
    \A m \in Msg : msg[m].pid # NoMsg => m \notin Up(msg[m].pid)

\* fmsgid is charged at most once for a message sent and for each delivery,
\* although several requests may resolve recipients of one message
\* (resolveLocalDelivery records only a row it updated itself).
ChargedOnce == \A i \in Item : recorded[i] <= 1

\* What a message counted is given back at most once, and only to an address
\* that deleted it for good (markPurged skips rows already purged).
ReleasedOnce ==
    \A i \in Item : /\ released[i] <= 1
                    /\ released[i] > 0 => i.msg \in forGood[i.addr]

\* A message an address itself deleted for good stays deleted for it as long
\* as the message is on the host: neither Restore nor a later delete by
\* anyone lifts a purged row (Restore's time_purged IS NULL).
OwnPurgeFinal ==
    \A a \in Local : \A m \in forGood[a] : IsSent(m) => trash[a][m] = "purged"

\* Post-commit delivery work finds its recipient row without an outcome (no
\* two requests resolve the same row), and a message with an original
\* recipient still to resolve is not removed from under the request
\* (fmsg_api_delivery_pending).  An add-to batch made on a draft ages from
\* then, so it no longer keeps a message sent a retry window later.
WorkFindsItsRow ==
    \A j \in jobs : \A i \in j.todo :
        /\ i.kind = "to" => IsSent(i.msg)
        /\ IsSent(i.msg) => msg[i.msg].rows[i.kind][i.addr] = "pending"

\* A message leaves the host only when each local address that sent or
\* accepted it has deleted it for good, in this step or before
\* (removeIfUnheld).
HeldUntilDeleted ==
    [][\A m \in Msg, a \in Local :
          a \in Holders(m) /\ msg'[m].phase = "removed"
             => m \in forGood'[a]]_vars

\* The outcome of a local delivery is written once: after that no request
\* and no delivery by fmsgd changes it while the message is on the host.
LocalOutcomeFinal ==
    [][\A m \in Msg, t \in Table, a \in Local :
          /\ IsSent(m)
          /\ msg'[m].phase = "sent"
          /\ msg[m].rows[t][a] \notin {"absent", "pending"}
          => msg'[m].rows[t][a] = msg[m].rows[t][a]]_vars

\* What an address has in its trash is its own business: while it holds a
\* message and everything that message replies to, no request of another
\* address changes the message's trash state for it (README, Trash).
TrashIsPrivate ==
    [][\A a \in Local, m \in Msg :
          /\ \A x \in Up(m) : a \in Holders(x) /\ x \notin forGood[a]
          /\ forGood'[a] = forGood[a]
          /\ trash'[a] = trash[a] \/ msg' # msg
          => TrashState(a, m)' = TrashState(a, m)]_vars

\* What Custody says of the host: the holders of a message are those that
\* sent or accepted it, and they let go of it by deleting it for good.
C == INSTANCE Custody WITH
        Addr  <- Local,
        held  <- [m \in Msg |-> Holders(m)],
        letGo <- [m \in Msg |-> {a \in Local : m \in forGood[a]}],
        gone  <- {m \in Msg : msg[m].phase = "removed"}

\* The store keeps custody: every request, delivery, failure and step of
\* fmsgd is one of Custody's steps or changes nothing there.  Deliveries only
\* add holders, only a purge lets go, by one address and of messages still
\* there, and what leaves then is held by nobody who did not let go (trash.go,
\* purge and removeIfUnheld; README, Trash).
KeepsCustody == C!Spec

(***************************************************************************)
(* Properties the documentation states and the code does not have          *)
(***************************************************************************)

\* Deleted for good is for ever (README, Trash; dd.sql on time_purged): what
\* is purged for an address, itself or through what it replies to, stays so
\* until it leaves the host.
PurgedStaysPurged ==
    [][\A a \in Local, m \in Msg :
          IsSent(m) /\ PurgedFor(a, m)
             => PurgedFor(a, m)' \/ msg'[m].phase = "removed"]_vars

(***************************************************************************)
(* Liveness: while the process lives, each request's goroutine is          *)
(* scheduled, so its next post-commit step, about some item, is weakly     *)
(* fair.                                                                   *)
(***************************************************************************)
JobStep(i) ==
    \E j \in jobs :
        \/ \E outcome \in Outcomes : Resolve(j, i, outcome)
        \/ RecordUsage(j, i, TRUE)
        \/ ReleaseUsage(j, i, TRUE)

FairSpec == Spec /\ \A i \in Item : WF_vars(JobStep(i))

\* Every local recipient of a sent message gets an outcome when fmsgid
\* answers and the process lives: also one added to the draft before Send.
EveryRecipientResolved ==
    \A m \in Msg, t \in Table, a \in Local :
        IsSent(m) /\ msg[m].rows[t][a] = "pending"
            ~> msg[m].rows[t][a] # "pending"
=============================================================================
