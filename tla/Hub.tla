--------------------------------- MODULE Hub --------------------------------
(***************************************************************************)
(* Live events: PostgreSQL notifications, the one goroutine that listens   *)
(* for them and fans them out (hub.go), and the WebSocket clients, each    *)
(* with a bounded queue, a writer and a reader (ws.go).  The messages are  *)
(* reduced to where each stands for an address.  Web Push is left out.     *)
(***************************************************************************)
EXTENDS Naturals, Sequences

CONSTANTS
    Addr,        \* addresses, all of them participants of every message
    Msg,         \* messages
    Client,      \* connections; one that ends is not used again
    AddrOf,      \* the address a connection authenticated as
    None,        \* no notification, no frame
    Buffer,      \* wsSendBuffer
    MaxBus,      \* notifications outstanding at once (bounds the inputs)
    MaxBackoff,  \* maxBackoff, in seconds
    Channels,    \* channels notified in this instance
    MayFail      \* whether reading the database can fail

Channel == {"message", "msg_trash", "indicator"}

ASSUME ClientAssumption == AddrOf \in [Client -> Addr]
ASSUME BoundAssumption  == /\ {Buffer, MaxBus, MaxBackoff} \subseteq Nat \ {0}
                           /\ Channels \subseteq Channel
                           /\ MayFail \in BOOLEAN

VARIABLES
    place,     \* where a message stands for an address, as committed
    bus,       \* notifications sent by commits and not yet received
    listener,  \* whether the listener connection LISTENs, and its backoff
    hub,       \* what the listener goroutine is doing
    client     \* the connections

vars == <<place, bus, listener, hub, client>>

\* Not there yet, in the mailbox, in the trash, deleted for good.
Place == {"none", "inbox", "trash", "purged"}

\* "message" stands for new_msg, delivered, recipients_added and msg_read,
\* and for a reaction, whose notification is turned into one on its subject.
\* addr is the address told; that of an indicator is the one who set it.
Note == [channel : Channel, msg : Msg, addr : Addr]

Frame == [kind : {"item", "gone", "indicator"}, msg : Msg, place : Place]

ASSUME NoneAssumption == None \notin Frame

HubState == [stage : {"wait", "build", "send"}, note : Note \cup {None},
             frame : Frame \cup {None}, to : SUBSET Client]

\* view is what the frames written tell of each message; owed are the
\* messages whose place changed since the connection was registered, with
\* no notification lost since, and misled those a failed read left out or
\* told as deleted for good (histories).
ClientState == [phase : {"off", "open", "closing", "left"}, writer : BOOLEAN,
                queue : Seq(Frame), view : [Msg -> Place],
                owed : SUBSET Msg, misled : SUBSET Msg]

TypeOK ==
    /\ place \in [Addr -> [Msg -> Place]]
    /\ bus \in Seq(Note) /\ Len(bus) <= MaxBus
    /\ listener \in [up : BOOLEAN, backoff : 1 .. (2 * MaxBackoff - 1)]
    /\ hub \in HubState
    /\ client \in [Client -> ClientState]
    /\ \A c \in Client : Len(client[c].queue) <= Buffer

NoConnection(phase) ==
    [phase |-> phase, writer |-> FALSE, queue |-> <<>>,
     view |-> [m \in Msg |-> "none"], owed |-> {}, misled |-> {}]

Waiting == [stage |-> "wait", note |-> None, frame |-> None, to |-> {}]

Init ==
    /\ place = [a \in Addr |-> [m \in Msg |-> "none"]]
    /\ bus = <<>>
    /\ listener = [up |-> FALSE, backoff |-> 1]
    /\ hub = Waiting
    /\ client = [c \in Client |-> NoConnection("off")]

Registered(c) == client[c].phase \in {"open", "closing"}

ClientsOf(a) == {c \in Client : Registered(c) /\ AddrOf[c] = a}

-----------------------------------------------------------------------------
(***************************************************************************)
(* Commits, each with its notification                                     *)
(***************************************************************************)

\* pg_notify at commit: without a listening connection it goes nowhere.
Notify(channel, m, a) ==
    /\ channel \in Channels
    /\ Len(bus) < MaxBus
    /\ bus' = IF listener.up
              THEN Append(bus, [channel |-> channel, msg |-> m, addr |-> a])
              ELSE bus

\* m moves for a: it arrives, goes into or out of the trash, is deleted for
\* good.
Move(a, m, to) ==
    /\ <<place[a][m], to>> \in {<<"none", "inbox">>, <<"inbox", "trash">>,
                                <<"trash", "inbox">>, <<"inbox", "purged">>,
                                <<"trash", "purged">>}
    /\ Notify(IF place[a][m] = "none" THEN "message" ELSE "msg_trash", m, a)
    /\ place' = [place EXCEPT ![a][m] = to]
    /\ client' = [c \in Client |->
                    IF c \notin ClientsOf(a) THEN client[c]
                    ELSE [client[c] EXCEPT
                            !.owed = IF listener.up THEN @ \cup {m}
                                     ELSE @ \ {m}]]
    /\ UNCHANGED <<listener, hub>>

\* A delivery, reaction, add-to batch or read of m that a is told about.
Touch(a, m) ==
    /\ place[a][m] # "none"
    /\ Notify("message", m, a)
    /\ UNCHANGED <<place, listener, hub, client>>

\* a, who has not deleted m for good, shows or clears an indicator on it.
Indicate(a, m) ==
    /\ place[a][m] \in {"inbox", "trash"}
    /\ Notify("indicator", m, a)
    /\ UNCHANGED <<place, listener, hub, client>>

-----------------------------------------------------------------------------
(***************************************************************************)
(* The listener (Run, listen)                                              *)
(***************************************************************************)

ListenSucceeds ==
    /\ ~listener.up
    /\ listener' = [up |-> TRUE, backoff |-> 1]
    /\ UNCHANGED <<place, bus, hub, client>>

\* Run waits for backoff, then doubles it.
ListenFails ==
    /\ ~listener.up
    /\ listener' = [listener EXCEPT
                      !.backoff = IF @ < MaxBackoff THEN 2 * @ ELSE @]
    /\ UNCHANGED <<place, bus, hub, client>>

\* What was notified and not received is lost; clients stay connected.
ListenerDrops ==
    /\ listener.up
    /\ hub.stage = "wait"
    /\ listener' = [listener EXCEPT !.up = FALSE]
    /\ bus' = <<>>
    /\ client' = [c \in Client |-> [client[c] EXCEPT !.owed = {}]]
    /\ UNCHANGED <<place, hub>>

\* A notification arrives; its clients are looked up first.
Receive ==
    LET n == Head(bus) IN
    /\ hub.stage = "wait"
    /\ bus # <<>>
    /\ n.channel # "indicator"
    /\ bus' = Tail(bus)
    /\ hub' = IF ClientsOf(n.addr) = {} THEN Waiting
              ELSE [Waiting EXCEPT !.stage = "build", !.note = n,
                                   !.to = ClientsOf(n.addr)]
    /\ UNCHANGED <<place, listener, client>>

\* An indicator goes to the clients of every other participant.
ReceiveIndicator ==
    LET n  == Head(bus)
        to == UNION {ClientsOf(a) : a \in Addr \ {n.addr}} IN
    /\ hub.stage = "wait"
    /\ bus # <<>>
    /\ n.channel = "indicator"
    /\ bus' = Tail(bus)
    /\ hub' = IF to = {} THEN Waiting
              ELSE [stage |-> "send", note |-> n, to |-> to,
                    frame |-> [kind |-> "indicator", msg |-> n.msg,
                               place |-> "none"]]
    /\ UNCHANGED <<place, listener, client>>

\* Mutant of Built: a message deleted for good is pushed like any other.
BuiltPurgedToo(n, ok) ==
    [kind |-> "item", msg |-> n.msg, place |-> place[n.addr][n.msg]]

\* The frame dispatch and dispatchTrash make of what buildItem reads, if any.
Built(n, ok) ==
    LET at == place[n.addr][n.msg] IN
    IF ok /\ at # "purged"
    THEN [kind |-> "item", msg |-> n.msg, place |-> at]
    ELSE IF n.channel = "msg_trash"
    THEN [kind |-> "gone", msg |-> n.msg, place |-> "purged"]
    ELSE None

\* A failed read is told as a purge, or not at all.
Build(ok) ==
    /\ ok \/ MayFail
    /\ hub.stage = "build"
    /\ hub' = IF Built(hub.note, ok) = None THEN Waiting
              ELSE [hub EXCEPT !.stage = "send",
                               !.frame = Built(hub.note, ok)]
    /\ client' = IF ok \/ place[hub.note.addr][hub.note.msg] = "purged"
                 THEN client
                 ELSE [c \in Client |->
                         IF c \notin hub.to THEN client[c]
                         ELSE [client[c] EXCEPT
                                 !.misled = @ \cup {hub.note.msg}]]
    /\ UNCHANGED <<place, bus, listener>>

\* Mutants of Queued: a full queue loses the frame; the queue has no bound.
QueuedOrLost(q, f)  == IF Len(q.queue) < Buffer
                       THEN [q EXCEPT !.queue = Append(@, f)] ELSE q
QueuedAlways(q, f)  == [q EXCEPT !.queue = Append(@, f)]

\* send, one client: a client whose queue is full is closed.
Queued(q, f) ==
    IF Len(q.queue) < Buffer THEN [q EXCEPT !.queue = Append(@, f)]
    ELSE [q EXCEPT !.phase = "closing"]

\* What is queued on a connection that has ended is never read.
SendTo(c) ==
    /\ hub.stage = "send"
    /\ c \in hub.to
    /\ client' = IF Registered(c)
                 THEN [client EXCEPT ![c] = Queued(@, hub.frame)] ELSE client
    /\ hub' = IF hub.to = {c} THEN Waiting
              ELSE [hub EXCEPT !.to = @ \ {c}]
    /\ UNCHANGED <<place, bus, listener>>

-----------------------------------------------------------------------------
(***************************************************************************)
(* Connections (Connect, writePump, readPump)                              *)
(***************************************************************************)

Connect(c) ==
    /\ client[c].phase = "off"
    /\ client' = [client EXCEPT ![c].phase = "open", ![c].writer = TRUE]
    /\ UNCHANGED <<place, bus, listener, hub>>

\* The delegated token of the connection expires.
Expire(c) ==
    /\ client[c].phase = "open"
    /\ client' = [client EXCEPT ![c].phase = "closing"]
    /\ UNCHANGED <<place, bus, listener, hub>>

WriteFrame(c) ==
    LET f == Head(client[c].queue) IN
    /\ client[c].phase = "open"
    /\ client[c].writer
    /\ client[c].queue # <<>>
    /\ client' = [client EXCEPT
                    ![c].queue = Tail(@),
                    ![c].view[f.msg] = IF f.kind = "indicator" THEN @
                                       ELSE f.place]
    /\ UNCHANGED <<place, bus, listener, hub>>

\* A frame or ping cannot be written, or done was closed.
WriterEnds(c) ==
    /\ client[c].writer
    /\ client' = [client EXCEPT ![c].writer = FALSE]
    /\ UNCHANGED <<place, bus, listener, hub>>

\* Mutant of ReadEnds: the connection is closed but stays registered.
ReadEndsRegistered(c) ==
    /\ client[c].phase = "open"
    /\ client' = [client EXCEPT ![c].phase = "closing"]
    /\ UNCHANGED <<place, bus, listener, hub>>

\* The peer left, was silent for wsPongWait or the connection was closed:
\* Connect unregisters the client and closes it, which ends its writer.
ReadEnds(c) ==
    /\ Registered(c)
    /\ client' = [client EXCEPT ![c] = NoConnection("left")]
    /\ UNCHANGED <<place, bus, listener, hub>>

-----------------------------------------------------------------------------
Commit ==
    \E a \in Addr, m \in Msg :
        \/ \E to \in Place : Move(a, m, to)
        \/ Touch(a, m)
        \/ Indicate(a, m)

HubStep == Receive \/ ReceiveIndicator \/ Build(TRUE) \/ \E c \in Client : SendTo(c)

Next ==
    \/ Commit
    \/ ListenSucceeds \/ ListenFails \/ ListenerDrops
    \/ HubStep
    \/ Build(FALSE)
    \/ \E c \in Client : \/ Connect(c) \/ Expire(c) \/ WriteFrame(c)
                         \/ WriterEnds(c) \/ ReadEnds(c)

Spec == Init /\ [][Next]_vars

\* The goroutines run: the listener's; a writer with a frame to write, which
\* ends within wsWriteWait; a reader, once its connection is closed or its writer no
\* longer pings the peer (then wsPongWait passes).
FairSpec ==
    /\ Spec
    /\ WF_vars(HubStep)
    /\ \A c \in Client :
          /\ WF_vars(client[c].queue # <<>> /\ (WriteFrame(c) \/ WriterEnds(c)))
          /\ WF_vars(ReadEnds(c) /\ (client[c].phase = "closing"
                                        \/ ~client[c].writer))

-----------------------------------------------------------------------------
(***************************************************************************)
(* Properties that hold                                                    *)
(***************************************************************************)

\* When everything notified has been routed and written, an open connection
\* has been told the place of each message that moved since it registered,
\* however many commits, frames and other clients came between, unless the
\* listener connection dropped or reading the message failed (send closes a
\* client it cannot queue for, and buildItem reads after the commit that
\* notified).
CaughtUp ==
    bus = <<>> /\ hub.stage = "wait" =>
        \A c \in Client :
            client[c].phase = "open" /\ client[c].queue = <<>> =>
                \A m \in client[c].owed \ client[c].misled :
                    client[c].view[m] = place[AddrOf[c]][m]

\* A client told that a message was deleted for good is not sent it again,
\* whatever was notified, built or queued around the delete (dispatch and
\* messageItemFor's purged; one listener routes in commit order), unless a
\* failed read had been told as a delete.
GoneIsLast ==
    \A c \in Client : \A i \in DOMAIN client[c].queue :
        LET q == client[c].queue IN
        q[i].kind = "item" /\ q[i].msg \notin client[c].misled =>
            /\ client[c].view[q[i].msg] # "purged"
            /\ \A j \in 1 .. (i - 1) :
                  ~(q[j].kind = "gone" /\ q[j].msg = q[i].msg)

\* A connected client learns that a message was deleted for good, or its
\* connection ends (or the listener connection dropped).
ToldOrClosed ==
    \A c \in Client, m \in Msg :
        /\ client[c].phase = "open"
        /\ m \in client[c].owed
        /\ place[AddrOf[c]][m] = "purged"
        ~> \/ client[c].view[m] = "purged"
           \/ client[c].phase # "open"
           \/ m \notin client[c].owed

\* A connection that was closed, or whose writer has ended, does not stay in
\* the registry (close unblocks readPump; without pings the peer's pongs
\* stop and its read deadline passes).
ClosedIsUnregistered ==
    \A c \in Client :
        Registered(c) /\ (client[c].phase = "closing" \/ ~client[c].writer)
            ~> client[c].phase = "left"
=============================================================================
