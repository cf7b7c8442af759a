------------------------------ MODULE HubProofs -----------------------------
(***************************************************************************)
(* What a connection has been told, for any addresses, messages, clients,  *)
(* queue length and failures.                                              *)
(*                                                                         *)
(* The listener works on one notification at a time (Routed).  A frame     *)
(* that tells of a delete for good, queued or about to be, tells the truth *)
(* (NoFalseGone), so no item can follow it (NoItemAfter); and an open      *)
(* connection that is owed a message will be told its place by what is on  *)
(* the bus, at the listener or in its queue (WillKnow).                    *)
(***************************************************************************)
EXTENDS Hub, TLAPS

Routed ==
    /\ hub.stage # "wait" => hub.note \in Note
    /\ hub.stage = "send" => hub.frame \in Frame
    /\ hub.stage = "build" => hub.note.channel # "indicator"
    /\ hub.stage = "send" /\ hub.frame.kind # "indicator" =>
          hub.frame.msg = hub.note.msg
    /\ \/ hub.stage = "wait"
       \/ hub.stage = "send" /\ hub.frame.kind = "indicator"
       \/ \A c \in hub.to : AddrOf[c] = hub.note.addr
    /\ \A c \in hub.to : client[c].phase # "off"
    /\ hub.stage = "send" /\ hub.frame.kind = "item" =>
          hub.frame.place # "purged"
    /\ \A c \in Client :
          /\ client[c].phase = "off" => client[c] = NoConnection("off")
          /\ client[c].phase = "left" => client[c].queue = <<>>
          /\ \A i \in DOMAIN client[c].queue :
                client[c].queue[i].kind = "item" =>
                    client[c].queue[i].place # "purged"

\* The listener is about to queue a frame on m, not an indicator, for c.
Sends(c, m) ==
    /\ hub.stage = "send"
    /\ c \in hub.to
    /\ hub.frame.kind # "indicator"
    /\ hub.frame.msg = m

Queues(c, kind, m) ==
    \E i \in DOMAIN client[c].queue :
        client[c].queue[i].kind = kind /\ client[c].queue[i].msg = m

NoFalseGone ==
    \A c \in Client : \A m \in Msg \ client[c].misled :
        Registered(c) /\ (\/ client[c].view[m] = "purged"
                          \/ Queues(c, "gone", m)
                          \/ Sends(c, m) /\ hub.frame.kind = "gone")
            => place[AddrOf[c]][m] = "purged"

NoItemAfter ==
    /\ GoneIsLast
    /\ \A c \in Client : \A m \in Msg \ client[c].misled :
          Registered(c) /\ Sends(c, m) /\ hub.frame.kind = "item"
              => client[c].view[m] # "purged" /\ ~Queues(c, "gone", m)

\* Notification n is about m for a, who has it at p: a frame is made of it.
Tells(n, a, m, p) ==
    /\ n.addr = a
    /\ n.msg = m
    /\ n.channel # "indicator"
    /\ p = "purged" => n.channel = "msg_trash"

About(f, m) == f.kind # "indicator" /\ f.msg = m

\* Once its queue is written, q's connection has been told that m is at p.
Told(q, m, p) ==
    \/ \E i \in DOMAIN q.queue :
          /\ About(q.queue[i], m)
          /\ q.queue[i].place = p
          /\ \A j \in DOMAIN q.queue : j > i => ~About(q.queue[j], m)
    \/ /\ \A j \in DOMAIN q.queue : ~About(q.queue[j], m)
       /\ q.view[m] = p

PlaceFor(c, m) == place[AddrOf[c]][m]

OnBus(c, m) ==
    \E i \in DOMAIN bus : Tells(bus[i], AddrOf[c], m, PlaceFor(c, m))

AtHub(c, m) ==
    /\ hub.stage = "build"
    /\ c \in hub.to
    /\ Tells(hub.note, AddrOf[c], m, PlaceFor(c, m))

Outgoing(c, m) == Sends(c, m) /\ hub.frame.place = PlaceFor(c, m)

Written(c, m) == ~Sends(c, m) /\ Told(client[c], m, PlaceFor(c, m))

Knows(c, m) == OnBus(c, m) \/ AtHub(c, m) \/ Outgoing(c, m) \/ Written(c, m)

WillKnow ==
    \A c \in Client : client[c].phase = "open" =>
        \A m \in client[c].owed \ client[c].misled : Knows(c, m)

-----------------------------------------------------------------------------
(***************************************************************************)
(* Sequences and connections                                               *)
(***************************************************************************)

LEMMA TailSeq ==
    ASSUME NEW S, NEW s \in Seq(S), s # <<>>
    PROVE  /\ Head(s) = s[1] /\ Head(s) \in S
           /\ Tail(s) \in Seq(S)
           /\ Len(s) \in Nat /\ Len(Tail(s)) = Len(s) - 1
           /\ DOMAIN s = 1 .. Len(s) /\ 1 \in DOMAIN s
           /\ DOMAIN Tail(s) = 1 .. (Len(s) - 1)
           /\ \A i \in DOMAIN Tail(s) : i + 1 \in DOMAIN s /\ Tail(s)[i] = s[i + 1]
  OBVIOUS

LEMMA AppendSeq ==
    ASSUME NEW S, NEW s \in Seq(S), NEW x \in S
    PROVE  /\ Append(s, x) \in Seq(S)
           /\ Len(s) \in Nat /\ Len(Append(s, x)) = Len(s) + 1
           /\ DOMAIN s = 1 .. Len(s)
           /\ DOMAIN Append(s, x) = 1 .. (Len(s) + 1)
           /\ \A i \in DOMAIN s : Append(s, x)[i] = s[i]
           /\ Append(s, x)[Len(s) + 1] = x
  OBVIOUS

LEMMA ClientFields ==
    ASSUME NEW q \in ClientState
    PROVE  /\ q.phase \in {"off", "open", "closing", "left"}
           /\ q.queue \in Seq(Frame)
           /\ q.view \in [Msg -> Place]
           /\ q.owed \in SUBSET Msg /\ q.misled \in SUBSET Msg
  BY DEF ClientState

LEMMA NoConnectionType ==
    ASSUME NEW phase \in {"off", "left"}
    PROVE  /\ NoConnection(phase) \in ClientState
           /\ NoConnection(phase).phase = phase
           /\ NoConnection(phase).queue = <<>>
           /\ NoConnection(phase).owed = {}
           /\ NoConnection(phase).misled = {}
           /\ NoConnection(phase).view = [m \in Msg |-> "none"]
  <1>1. <<>> \in Seq(Frame) /\ [m \in Msg |-> "none"] \in [Msg -> Place]
    BY DEF Place
  <1> QED BY <1>1 DEF NoConnection, ClientState

\* A connection as a step leaves it.
LEMMA OwedChange ==
    ASSUME NEW q \in ClientState, NEW o \in SUBSET Msg
    PROVE  LET n == [q EXCEPT !.owed = o] IN
           /\ n \in ClientState
           /\ n.phase = q.phase /\ n.queue = q.queue /\ n.view = q.view
           /\ n.owed = o /\ n.misled = q.misled
  BY DEF ClientState

LEMMA MisledChange ==
    ASSUME NEW q \in ClientState, NEW o \in SUBSET Msg
    PROVE  LET n == [q EXCEPT !.misled = o] IN
           /\ n \in ClientState
           /\ n.phase = q.phase /\ n.queue = q.queue /\ n.view = q.view
           /\ n.owed = q.owed /\ n.misled = o
  BY DEF ClientState

LEMMA Closes ==
    ASSUME NEW q \in ClientState
    PROVE  LET n == [q EXCEPT !.phase = "closing"] IN
           /\ n \in ClientState
           /\ n.phase = "closing" /\ n.queue = q.queue /\ n.view = q.view
           /\ n.owed = q.owed /\ n.misled = q.misled
  BY DEF ClientState

LEMMA QueueChange ==
    ASSUME NEW q \in ClientState, NEW s \in Seq(Frame)
    PROVE  LET n == [q EXCEPT !.queue = s] IN
           /\ n \in ClientState
           /\ n.phase = q.phase /\ n.queue = s /\ n.view = q.view
           /\ n.owed = q.owed /\ n.misled = q.misled
  BY DEF ClientState

LEMMA WriterChange ==
    ASSUME NEW q \in ClientState, NEW b \in BOOLEAN
    PROVE  LET n == [q EXCEPT !.writer = b] IN
           /\ n \in ClientState
           /\ n.phase = q.phase /\ n.queue = q.queue /\ n.view = q.view
           /\ n.owed = q.owed /\ n.misled = q.misled
  BY DEF ClientState

LEMMA Opens ==
    ASSUME NEW q \in ClientState, NEW b \in BOOLEAN
    PROVE  LET n == [q EXCEPT !.phase = "open", !.writer = b] IN
           /\ n \in ClientState
           /\ n.phase = "open" /\ n.queue = q.queue /\ n.view = q.view
           /\ n.owed = q.owed /\ n.misled = q.misled
  BY DEF ClientState

-----------------------------------------------------------------------------
(***************************************************************************)
(* What each step does                                                     *)
(***************************************************************************)

\* What a client has been told, or is to be told, stays as it is.
SameClient(c) ==
    /\ client'[c].phase = client[c].phase
    /\ client'[c].queue = client[c].queue
    /\ client'[c].view = client[c].view
    /\ client'[c].misled = client[c].misled

Clients == client \in [Client -> ClientState]

\* Every notification stays on the bus.
KeepsBus == \A i \in DOMAIN bus : i \in DOMAIN bus' /\ bus'[i] = bus[i]

LEMMA NotifyEffect ==
    ASSUME TypeOK, NEW channel, NEW m \in Msg, NEW a \in Addr,
           Notify(channel, m, a)
    PROVE  /\ bus' \in Seq(Note) /\ Len(bus') <= MaxBus
           /\ KeepsBus
           /\ listener.up => \E i \in DOMAIN bus' :
                 bus'[i] = [channel |-> channel, msg |-> m, addr |-> a]
  <1> PICK n : n = [channel |-> channel, msg |-> m, addr |-> a]
    OBVIOUS
  <1>1. n \in Note
    BY BoundAssumption DEF Notify, Note
  <1>2. bus \in Seq(Note) /\ Len(bus) < MaxBus /\ MaxBus \in Nat
    BY BoundAssumption DEF Notify, TypeOK
  <1>3. bus' = IF listener.up THEN Append(bus, n) ELSE bus
    BY DEF Notify
  <1>4. CASE ~listener.up
    BY <1>2, <1>3, <1>4 DEF KeepsBus, TypeOK
  <1>5. CASE listener.up
    <2>1. bus' = Append(bus, n)
      BY <1>3, <1>5
    <2>2. /\ Append(bus, n) \in Seq(Note)
          /\ Len(bus) \in Nat /\ Len(Append(bus, n)) = Len(bus) + 1
          /\ DOMAIN bus = 1 .. Len(bus)
          /\ DOMAIN Append(bus, n) = 1 .. (Len(bus) + 1)
          /\ \A i \in DOMAIN bus : Append(bus, n)[i] = bus[i]
          /\ Append(bus, n)[Len(bus) + 1] = n
      BY <1>1, <1>2, AppendSeq
    <2> QED BY <1>2, <2>1, <2>2 DEF KeepsBus
  <1> QED BY <1>4, <1>5

LEMMA MoveEffect ==
    ASSUME TypeOK, NEW a \in Addr, NEW m \in Msg, NEW to \in Place,
           Move(a, m, to)
    PROVE  /\ Clients'
           /\ \A c \in Client : SameClient(c)
           /\ \A c \in Client : \A x \in client'[c].owed :
                 x \in client[c].owed \/ (x = m /\ c \in ClientsOf(a))
           /\ \A c \in ClientsOf(a) : m \in client'[c].owed => listener.up
           /\ place' \in [Addr -> [Msg -> Place]]
           /\ place[a][m] # "purged" /\ place'[a][m] = to
           /\ \A b \in Addr, x \in Msg :
                 b # a \/ x # m => place'[b][x] = place[b][x]
           /\ bus' \in Seq(Note) /\ Len(bus') <= MaxBus /\ KeepsBus
           /\ listener.up => \E i \in DOMAIN bus' :
                 /\ bus'[i].addr = a /\ bus'[i].msg = m
                 /\ bus'[i].channel \in {"message", "msg_trash"}
                 /\ to = "purged" => bus'[i].channel = "msg_trash"
           /\ UNCHANGED <<listener, hub>>
  <1> DEFINE owed(c) == IF c \notin ClientsOf(a) THEN client[c].owed
                        ELSE IF listener.up THEN client[c].owed \cup {m}
                        ELSE client[c].owed \ {m}
             channel == IF place[a][m] = "none" THEN "message" ELSE "msg_trash"
  <1>1. \A c \in Client : client[c] \in ClientState /\ owed(c) \in SUBSET Msg
    BY ClientFields DEF TypeOK
  <1>2. client' = [c \in Client |-> IF c \notin ClientsOf(a) THEN client[c]
                                    ELSE [client[c] EXCEPT !.owed = owed(c)]]
    BY DEF Move
  <1> HIDE DEF owed
  <1>3. \A c \in Client : /\ client'[c] \in ClientState
                          /\ SameClient(c)
                          /\ c \in ClientsOf(a) => client'[c].owed = owed(c)
                          /\ c \notin ClientsOf(a) => client'[c] = client[c]
    <2> SUFFICES ASSUME NEW c \in Client
                 PROVE  /\ client'[c] \in ClientState
                        /\ SameClient(c)
                        /\ c \in ClientsOf(a) => client'[c].owed = owed(c)
                        /\ c \notin ClientsOf(a) => client'[c] = client[c]
      OBVIOUS
    <2> DEFINE n == [client[c] EXCEPT !.owed = owed(c)]
    <2>1. /\ n \in ClientState /\ n.owed = owed(c)
          /\ n.phase = client[c].phase /\ n.queue = client[c].queue
          /\ n.view = client[c].view /\ n.misled = client[c].misled
      BY <1>1, OwedChange
    <2>2. client'[c] = IF c \notin ClientsOf(a) THEN client[c] ELSE n
      BY <1>2
    <2> HIDE DEF n
    <2> QED BY <1>1, <2>1, <2>2 DEF SameClient
  <1>4. Clients'
    BY <1>2, <1>3 DEF Clients
  <1>5. /\ \A c \in Client : \A x \in client'[c].owed :
              x \in client[c].owed \/ (x = m /\ c \in ClientsOf(a))
        /\ \A c \in ClientsOf(a) : m \in client'[c].owed => listener.up
    <2>1. ClientsOf(a) \subseteq Client
      BY DEF ClientsOf
    <2> QED BY <1>3, <2>1 DEF owed
  <1>6. /\ place' \in [Addr -> [Msg -> Place]]
        /\ place'[a][m] = to
        /\ \A b \in Addr, x \in Msg : b # a \/ x # m => place'[b][x] = place[b][x]
    BY DEF Move, TypeOK
  <1>7. /\ place[a][m] # "purged"
        /\ place[a][m] = "none" => to = "inbox"
    BY DEF Move
  <1>8. Notify(channel, m, a) /\ UNCHANGED <<listener, hub>>
    BY DEF Move
  <1>9. /\ bus' \in Seq(Note) /\ Len(bus') <= MaxBus
        /\ KeepsBus
        /\ listener.up => \E i \in DOMAIN bus' :
              bus'[i] = [channel |-> channel, msg |-> m, addr |-> a]
    BY <1>8, NotifyEffect
  <1>10. listener.up => \E i \in DOMAIN bus' :
                 /\ bus'[i].addr = a /\ bus'[i].msg = m
                 /\ bus'[i].channel \in {"message", "msg_trash"}
                 /\ to = "purged" => bus'[i].channel = "msg_trash"
    BY <1>7, <1>9
  <1> QED BY <1>3, <1>4, <1>5, <1>6, <1>7, <1>8, <1>9, <1>10

\* The listener goes to what it makes of the first notification.
LEMMA TakeEffect ==
    ASSUME TypeOK, bus # <<>>, bus' = Tail(bus)
    PROVE  /\ Head(bus) \in Note /\ Head(bus) = bus[1]
           /\ bus' \in Seq(Note) /\ Len(bus') <= MaxBus
           /\ \A i \in DOMAIN bus : i = 1 \/ \E j \in DOMAIN bus' : bus'[j] = bus[i]
  <1>1. bus \in Seq(Note) /\ Len(bus) <= MaxBus /\ MaxBus \in Nat
    BY BoundAssumption DEF TypeOK
  <1>2. /\ Head(bus) = bus[1] /\ Head(bus) \in Note
        /\ Tail(bus) \in Seq(Note)
        /\ Len(bus) \in Nat /\ Len(Tail(bus)) = Len(bus) - 1
        /\ DOMAIN bus = 1 .. Len(bus)
        /\ DOMAIN Tail(bus) = 1 .. (Len(bus) - 1)
        /\ \A i \in DOMAIN Tail(bus) : Tail(bus)[i] = bus[i + 1]
    BY <1>1, TailSeq
  <1>3. ASSUME NEW i \in DOMAIN bus, i # 1
        PROVE  \E j \in DOMAIN bus' : bus'[j] = bus[i]
    <2>1. i - 1 \in DOMAIN Tail(bus) /\ (i - 1) + 1 = i
      BY <1>2, <1>3
    <2> QED BY <1>2, <2>1
  <1> QED BY <1>1, <1>2, <1>3

LEMMA WaitingIs ==
    /\ Waiting \in HubState /\ Waiting.stage = "wait" /\ Waiting.to = {}
    /\ Waiting.note = None /\ Waiting.frame = None
  BY DEF Waiting, HubState

LEMMA ReceiveEffect ==
    ASSUME TypeOK, Receive
    PROVE  \E n \in Note :
              /\ n = bus[1] /\ n.channel # "indicator"
              /\ hub.stage = "wait"
              /\ hub' \in HubState
              /\ \/ ClientsOf(n.addr) = {} /\ hub'.stage = "wait" /\ hub'.to = {}
                 \/ hub'.stage = "build" /\ hub'.note = n
                    /\ hub'.to = ClientsOf(n.addr)
              /\ bus # <<>> /\ bus' = Tail(bus)
              /\ UNCHANGED <<place, listener, client>>
  <1> PICK n : n = Head(bus)
    OBVIOUS
  <1>1. /\ hub.stage = "wait" /\ bus # <<>> /\ n.channel # "indicator"
        /\ bus' = Tail(bus)
        /\ hub' = IF ClientsOf(n.addr) = {} THEN Waiting
                  ELSE [Waiting EXCEPT !.stage = "build", !.note = n,
                                       !.to = ClientsOf(n.addr)]
        /\ UNCHANGED <<place, listener, client>>
    BY DEF Receive
  <1>2. n \in Note /\ n = bus[1]
    BY <1>1, TakeEffect
  <1>3. ClientsOf(n.addr) \in SUBSET Client
    BY DEF ClientsOf
  <1> DEFINE h == [Waiting EXCEPT !.stage = "build", !.note = n,
                                  !.to = ClientsOf(n.addr)]
  <1>4. h \in HubState /\ h.stage = "build" /\ h.note = n
        /\ h.to = ClientsOf(n.addr)
    BY <1>2, <1>3 DEF Waiting, HubState
  <1> HIDE DEF h
  <1> QED BY <1>1, <1>2, <1>4, WaitingIs DEF h

LEMMA ReceiveIndicatorEffect ==
    ASSUME TypeOK, ReceiveIndicator
    PROVE  /\ bus[1].channel = "indicator"
           /\ hub.stage = "wait"
           /\ hub' \in HubState
           /\ \/ hub'.stage = "wait" /\ hub'.to = {}
              \/ /\ hub'.stage = "send" /\ hub'.note \in Note
                 /\ hub'.frame \in Frame /\ hub'.frame.kind = "indicator"
                 /\ \A c \in hub'.to : Registered(c)
           /\ bus # <<>> /\ bus' = Tail(bus)
           /\ UNCHANGED <<place, listener, client>>
  <1> PICK n : n = Head(bus)
    OBVIOUS
  <1> PICK to : to = UNION {ClientsOf(a) : a \in Addr \ {n.addr}}
    OBVIOUS
  <1> DEFINE f == [kind |-> "indicator", msg |-> n.msg, place |-> "none"]
             h == [stage |-> "send", note |-> n, to |-> to, frame |-> f]
  <1>1. /\ hub.stage = "wait" /\ bus # <<>> /\ n.channel = "indicator"
        /\ bus' = Tail(bus)
        /\ hub' = IF to = {} THEN Waiting ELSE h
        /\ UNCHANGED <<place, listener, client>>
    BY DEF ReceiveIndicator
  <1>2. n \in Note /\ n = bus[1]
    BY <1>1, TakeEffect
  <1>3. f \in Frame /\ f.kind = "indicator"
    BY <1>2 DEF Frame, Note, Place
  <1>4. to \in SUBSET Client /\ \A c \in to : Registered(c)
    BY DEF ClientsOf
  <1> HIDE DEF f
  <1>5. /\ h \in HubState /\ h.stage = "send" /\ h.note = n /\ h.frame = f
        /\ h.to = to
    BY <1>2, <1>3, <1>4 DEF HubState
  <1> HIDE DEF h
  <1> QED BY <1>1, <1>2, <1>3, <1>4, <1>5, WaitingIs
LEMMA BuildEffect ==
    ASSUME TypeOK, Routed, NEW ok \in BOOLEAN, Build(ok),
           NEW n, n = hub.note, NEW at, at = place[n.addr][n.msg]
    PROVE  /\ hub.stage = "build" /\ n \in Note /\ at \in Place
           /\ hub' \in HubState
           /\ \/ /\ hub'.stage = "wait" /\ hub'.to = {}
                 /\ n.channel # "msg_trash" /\ (~ok \/ at = "purged")
              \/ /\ hub'.stage = "send" /\ hub'.to = hub.to /\ hub'.note = n
                 /\ hub'.frame \in Frame /\ hub'.frame.msg = n.msg
                 /\ \/ /\ hub'.frame.kind = "item" /\ hub'.frame.place = at
                       /\ ok /\ at # "purged"
                    \/ /\ hub'.frame.kind = "gone"
                       /\ hub'.frame.place = "purged" /\ (ok => at = "purged")
           /\ UNCHANGED <<place, bus, listener>>
  <1>1. /\ hub.stage = "build" /\ UNCHANGED <<place, bus, listener>>
        /\ hub' = IF Built(n, ok) = None THEN Waiting
                  ELSE [hub EXCEPT !.stage = "send", !.frame = Built(n, ok)]
    BY DEF Build
  <1>2. n \in Note
    BY <1>1 DEF Routed
  <1>3. at \in Place /\ n.msg \in Msg /\ n.addr \in Addr
    BY <1>2 DEF TypeOK, Note
  <1> DEFINE item == [kind |-> "item", msg |-> n.msg, place |-> at]
             gone == [kind |-> "gone", msg |-> n.msg, place |-> "purged"]
             send(f) == [hub EXCEPT !.stage = "send", !.frame = f]
  <1>4. item \in Frame /\ gone \in Frame
    BY <1>3 DEF Frame, Place
  <1>5. Built(n, ok) = IF ok /\ at # "purged" THEN item
                       ELSE IF n.channel = "msg_trash" THEN gone ELSE None
    BY DEF Built
  <1>6. item # None /\ gone # None
    BY <1>4, NoneAssumption
  <1>7. \A f \in Frame : /\ send(f) \in HubState /\ send(f).stage = "send"
                         /\ send(f).to = hub.to /\ send(f).frame = f
                         /\ send(f).note = n
    BY DEF TypeOK, HubState
  <1>8. /\ item.kind = "item" /\ item.msg = n.msg /\ item.place = at
        /\ gone.kind = "gone" /\ gone.msg = n.msg /\ gone.place = "purged"
    OBVIOUS
  <1> HIDE DEF item, gone
  <1>9. CASE ok /\ at # "purged"
    <2>1. hub' = send(item)
      BY <1>1, <1>5, <1>6, <1>9
    <2>2. /\ hub' \in HubState /\ hub'.stage = "send" /\ hub'.to = hub.to
          /\ hub'.frame = item /\ hub'.note = n
      BY <1>4, <1>7, <2>1
    <2> QED BY <1>1, <1>2, <1>3, <1>4, <1>8, <1>9, <2>2
  <1>10. CASE ~(ok /\ at # "purged") /\ n.channel = "msg_trash"
    <2>1. hub' = send(gone)
      BY <1>1, <1>5, <1>6, <1>10
    <2>2. /\ hub' \in HubState /\ hub'.stage = "send" /\ hub'.to = hub.to
          /\ hub'.frame = gone /\ hub'.note = n
      BY <1>4, <1>7, <2>1
    <2> QED BY <1>1, <1>2, <1>3, <1>4, <1>8, <1>10, <2>2
  <1>11. CASE ~(ok /\ at # "purged") /\ n.channel # "msg_trash"
    <2>1. hub' = Waiting
      BY <1>1, <1>5, <1>11
    <2> QED BY <1>1, <1>2, <1>3, <1>11, <2>1, WaitingIs
  <1> QED BY <1>9, <1>10, <1>11

\* Only a failed read of a message that is there misleads, and only those
\* the notification was for.
LEMMA BuildClients ==
    ASSUME TypeOK, Routed, NEW ok \in BOOLEAN, Build(ok),
           NEW n, n = hub.note, NEW at, at = place[n.addr][n.msg]
    PROVE  /\ Clients'
           /\ \A c \in Client :
                 /\ client'[c].phase = client[c].phase
                 /\ client'[c].queue = client[c].queue
                 /\ client'[c].view = client[c].view
                 /\ client'[c].owed = client[c].owed
                 /\ client[c].misled \subseteq client'[c].misled
                 /\ c \notin hub.to => client'[c] = client[c]
                 /\ c \in hub.to /\ ~ok /\ at # "purged" =>
                       n.msg \in client'[c].misled
  <1>1. /\ hub.stage = "build"
        /\ client' = IF ok \/ at = "purged" THEN client
                     ELSE [c \in Client |->
                             IF c \notin hub.to THEN client[c]
                             ELSE [client[c] EXCEPT
                                     !.misled = client[c].misled \cup {n.msg}]]
    BY DEF Build
  <1>2. n.msg \in Msg
    BY <1>1 DEF Routed, Note
  <1>3. client \in [Client -> ClientState]
    BY DEF TypeOK
  <1>4. CASE ok \/ at = "purged"
    BY <1>1, <1>3, <1>4 DEF Clients
  <1>5. CASE ~(ok \/ at = "purged")
    <2>1. client' = [c \in Client |->
                       IF c \notin hub.to THEN client[c]
                       ELSE [client[c] EXCEPT
                               !.misled = client[c].misled \cup {n.msg}]]
      BY <1>1, <1>5
    <2>2. ASSUME NEW c \in Client
          PROVE  /\ client'[c] \in ClientState
                 /\ client'[c].phase = client[c].phase
                 /\ client'[c].queue = client[c].queue
                 /\ client'[c].view = client[c].view
                 /\ client'[c].owed = client[c].owed
                 /\ client[c].misled \subseteq client'[c].misled
                 /\ c \notin hub.to => client'[c] = client[c]
                 /\ c \in hub.to => n.msg \in client'[c].misled
      <3> PICK o : o = client[c].misled \cup {n.msg}
        OBVIOUS
      <3> DEFINE q == [client[c] EXCEPT !.misled = o]
      <3>1. o \in SUBSET Msg
        BY <1>2, <1>3, ClientFields
      <3>2. /\ q \in ClientState
            /\ q.phase = client[c].phase /\ q.queue = client[c].queue
            /\ q.view = client[c].view /\ q.owed = client[c].owed
            /\ q.misled = o
        BY <1>3, <3>1, MisledChange
      <3>3. client'[c] = IF c \notin hub.to THEN client[c] ELSE q
        BY <2>1
      <3> HIDE DEF q
      <3> QED BY <1>3, <3>2, <3>3
    <2>3. Clients'
      BY <2>1, <2>2 DEF Clients
    <2> QED BY <2>2, <2>3
  <1> QED BY <1>4, <1>5

LEMMA SendToEffect ==
    ASSUME TypeOK, Routed, NEW c \in Client, SendTo(c)
    PROVE  /\ hub.stage = "send" /\ c \in hub.to /\ hub.frame \in Frame
           /\ hub' \in HubState /\ hub'.to = hub.to \ {c}
           /\ \/ hub'.stage = "wait" /\ hub'.to = {}
              \/ /\ hub'.stage = "send" /\ hub'.note = hub.note
                 /\ hub'.frame = hub.frame
           /\ UNCHANGED <<place, bus, listener>>
  <1>1. /\ hub.stage = "send" /\ c \in hub.to
        /\ hub' = IF hub.to = {c} THEN Waiting ELSE [hub EXCEPT !.to = @ \ {c}]
        /\ UNCHANGED <<place, bus, listener>>
    BY DEF SendTo
  <1> DEFINE h == [hub EXCEPT !.to = @ \ {c}]
  <1>2. /\ h \in HubState /\ h.to = hub.to \ {c} /\ h.stage = hub.stage
        /\ h.note = hub.note /\ h.frame = hub.frame
    BY DEF TypeOK, HubState
  <1>3. hub.frame \in Frame
    BY <1>1 DEF Routed
  <1> HIDE DEF h
  <1> QED BY <1>1, <1>2, <1>3, WaitingIs DEF h

\* The frame is queued, or there is no room and the client is closed.
LEMMA SendToClients ==
    ASSUME TypeOK, Routed, NEW c \in Client, SendTo(c)
    PROVE  /\ Clients'
           /\ \A o \in Client \ {c} : client'[o] = client[o]
           /\ ~Registered(c) => client'[c] = client[c]
           /\ Registered(c) =>
                 /\ client'[c].view = client[c].view
                 /\ client'[c].owed = client[c].owed
                 /\ client'[c].misled = client[c].misled
                 /\ \/ /\ client'[c].phase = client[c].phase
                       /\ client'[c].queue = Append(client[c].queue, hub.frame)
                       /\ Len(client[c].queue) < Buffer
                    \/ /\ client'[c].phase = "closing"
                       /\ client'[c].queue = client[c].queue
  <1>0. hub.frame \in Frame /\ client \in [Client -> ClientState]
    BY SendToEffect DEF TypeOK
  <1> PICK q : q = client[c]
    OBVIOUS
  <1>1. q \in ClientState /\ q.queue \in Seq(Frame)
    BY <1>0, ClientFields
  <1>2. CASE ~Registered(c)
    BY <1>0, <1>2 DEF SendTo, Clients
  <1>3. CASE Registered(c)
    <2> DEFINE n == Queued(q, hub.frame)
    <2>1. client' = [client EXCEPT ![c] = n]
      BY <1>3 DEF SendTo
    <2>2. /\ n \in ClientState /\ n.view = q.view /\ n.owed = q.owed
          /\ n.misled = q.misled
          /\ \/ /\ n.phase = q.phase /\ n.queue = Append(q.queue, hub.frame)
                /\ Len(q.queue) < Buffer
             \/ n.phase = "closing" /\ n.queue = q.queue
      <3>1. CASE Len(q.queue) < Buffer
        <4>0. PICK s : s = Append(q.queue, hub.frame)
          OBVIOUS
        <4>1. s \in Seq(Frame)
          BY <1>0, <1>1, <4>0, AppendSeq
        <4>2. n = [q EXCEPT !.queue = s]
          BY <3>1, <4>0 DEF Queued
        <4>3. /\ n \in ClientState /\ n.phase = q.phase /\ n.queue = s
              /\ n.view = q.view /\ n.owed = q.owed /\ n.misled = q.misled
          BY <1>1, <4>1, <4>2, QueueChange
        <4> HIDE DEF n
        <4> QED BY <3>1, <4>0, <4>3
      <3>2. CASE ~(Len(q.queue) < Buffer)
        <4>1. n = [q EXCEPT !.phase = "closing"]
          BY <3>2 DEF Queued
        <4> HIDE DEF n
        <4> QED BY <1>1, <4>1, Closes
      <3> QED BY <3>1, <3>2
    <2> HIDE DEF n
    <2>3. Clients' /\ client'[c] = n /\ \A o \in Client \ {c} : client'[o] = client[o]
      BY <1>0, <2>1, <2>2 DEF Clients
    <2> QED BY <1>3, <2>2, <2>3
  <1> QED BY <1>2, <1>3
LEMMA DropEffect ==
    ASSUME TypeOK, ListenerDrops
    PROVE  /\ Clients'
           /\ \A c \in Client : SameClient(c) /\ client'[c].owed = {}
           /\ bus' = <<>> /\ UNCHANGED <<place, hub>>
           /\ listener' \in [up : BOOLEAN, backoff : 1 .. (2 * MaxBackoff - 1)]
  <1>1. /\ client' = [c \in Client |-> [client[c] EXCEPT !.owed = {}]]
        /\ bus' = <<>> /\ UNCHANGED <<place, hub>>
        /\ listener' = [listener EXCEPT !.up = FALSE]
    BY DEF ListenerDrops
  <1>2. ASSUME NEW c \in Client
        PROVE  /\ client'[c] \in ClientState /\ SameClient(c)
               /\ client'[c].owed = {}
    <2> DEFINE q == [client[c] EXCEPT !.owed = {}]
    <2>1. /\ q \in ClientState /\ q.phase = client[c].phase
          /\ q.queue = client[c].queue /\ q.view = client[c].view
          /\ q.owed = {} /\ q.misled = client[c].misled
      BY OwedChange DEF TypeOK
    <2>2. client'[c] = q
      BY <1>1
    <2> HIDE DEF q
    <2> QED BY <2>1, <2>2 DEF SameClient
  <1>3. listener' \in [up : BOOLEAN, backoff : 1 .. (2 * MaxBackoff - 1)]
    BY <1>1 DEF TypeOK
  <1> QED BY <1>1, <1>2, <1>3 DEF Clients

\* Only connection c changes.
OneClient(c) ==
    /\ Clients'
    /\ \A o \in Client \ {c} : client'[o] = client[o]
    /\ UNCHANGED <<place, bus, listener, hub>>

LEMMA ConnectEffect ==
    ASSUME TypeOK, NEW c \in Client, Connect(c)
    PROVE  /\ OneClient(c)
           /\ client[c].phase = "off" /\ client'[c].phase = "open"
           /\ client'[c].queue = client[c].queue
           /\ client'[c].view = client[c].view
           /\ client'[c].owed = client[c].owed
           /\ client'[c].misled = client[c].misled
  <1> DEFINE q == [client[c] EXCEPT !.phase = "open", !.writer = TRUE]
  <1>0. client \in [Client -> ClientState]
    BY DEF TypeOK
  <1>1. /\ q \in ClientState /\ q.phase = "open"
        /\ q.queue = client[c].queue /\ q.view = client[c].view
        /\ q.owed = client[c].owed /\ q.misled = client[c].misled
    BY <1>0, Opens
  <1>2. /\ client[c].phase = "off" /\ client' = [client EXCEPT ![c] = q]
        /\ UNCHANGED <<place, bus, listener, hub>>
    BY <1>0 DEF Connect, ClientState
  <1> HIDE DEF q
  <1> QED BY <1>0, <1>1, <1>2 DEF OneClient, Clients

LEMMA ExpireEffect ==
    ASSUME TypeOK, NEW c \in Client, Expire(c)
    PROVE  /\ OneClient(c)
           /\ client[c].phase = "open" /\ client'[c].phase = "closing"
           /\ client'[c].queue = client[c].queue
           /\ client'[c].view = client[c].view
           /\ client'[c].misled = client[c].misled
  <1> DEFINE q == [client[c] EXCEPT !.phase = "closing"]
  <1>0. client \in [Client -> ClientState]
    BY DEF TypeOK
  <1>1. /\ q \in ClientState /\ q.phase = "closing"
        /\ q.queue = client[c].queue /\ q.view = client[c].view
        /\ q.misled = client[c].misled
    BY <1>0, Closes
  <1>2. /\ client[c].phase = "open" /\ client' = [client EXCEPT ![c] = q]
        /\ UNCHANGED <<place, bus, listener, hub>>
    BY <1>0 DEF Expire, ClientState
  <1> HIDE DEF q
  <1> QED BY <1>0, <1>1, <1>2 DEF OneClient, Clients

LEMMA WriterEndsEffect ==
    ASSUME TypeOK, NEW c \in Client, WriterEnds(c)
    PROVE  /\ OneClient(c) /\ SameClient(c)
           /\ client'[c].owed = client[c].owed
  <1> DEFINE q == [client[c] EXCEPT !.writer = FALSE]
  <1>0. client \in [Client -> ClientState]
    BY DEF TypeOK
  <1>1. /\ q \in ClientState /\ q.phase = client[c].phase
        /\ q.queue = client[c].queue /\ q.view = client[c].view
        /\ q.owed = client[c].owed /\ q.misled = client[c].misled
    BY <1>0, WriterChange
  <1>2. /\ client' = [client EXCEPT ![c] = q]
        /\ UNCHANGED <<place, bus, listener, hub>>
    BY <1>0 DEF WriterEnds, ClientState
  <1> HIDE DEF q
  <1> QED BY <1>0, <1>1, <1>2 DEF OneClient, Clients, SameClient

LEMMA ReadEndsEffect ==
    ASSUME TypeOK, NEW c \in Client, ReadEnds(c)
    PROVE  /\ OneClient(c) /\ Registered(c)
           /\ client'[c].phase = "left" /\ client'[c].queue = <<>>
  <1>1. /\ Registered(c)
        /\ client' = [client EXCEPT ![c] = NoConnection("left")]
        /\ UNCHANGED <<place, bus, listener, hub>>
    BY DEF ReadEnds
  <1>2. /\ NoConnection("left") \in ClientState
        /\ NoConnection("left").phase = "left"
        /\ NoConnection("left").queue = <<>>
    BY NoConnectionType
  <1> QED BY <1>1, <1>2 DEF OneClient, Clients, TypeOK

LEMMA WriteEffect ==
    ASSUME TypeOK, NEW c \in Client, WriteFrame(c)
    PROVE  /\ OneClient(c)
           /\ client[c].phase = "open" /\ client'[c].phase = "open"
           /\ client[c].queue # <<>>
           /\ client'[c].queue = Tail(client[c].queue)
           /\ \A m \in Msg :
                 client'[c].view[m] = IF About(client[c].queue[1], m)
                                      THEN client[c].queue[1].place
                                      ELSE client[c].view[m]
           /\ client'[c].owed = client[c].owed
           /\ client'[c].misled = client[c].misled
  <1>0. client \in [Client -> ClientState]
    BY DEF TypeOK
  <1>1. PICK f : f = Head(client[c].queue)
    OBVIOUS
  <1>2. PICK s : s = Tail(client[c].queue)
    OBVIOUS
  <1>3. PICK v : v = [client[c].view EXCEPT ![f.msg] =
                        IF f.kind = "indicator" THEN @ ELSE f.place]
    OBVIOUS
  <1>4. /\ client[c].phase = "open" /\ client[c].queue # <<>>
        /\ UNCHANGED <<place, bus, listener, hub>>
    BY DEF WriteFrame
  <1>5. client[c].queue \in Seq(Frame) /\ client[c].view \in [Msg -> Place]
    BY <1>0, ClientFields
  <1>6. f \in Frame /\ f = client[c].queue[1] /\ s \in Seq(Frame)
    BY <1>1, <1>2, <1>4, <1>5, TailSeq
  <1>7. v \in [Msg -> Place]
    BY <1>3, <1>5, <1>6 DEF Frame
  <1>8. \A m \in Msg : v[m] = IF About(f, m) THEN f.place ELSE client[c].view[m]
    BY <1>3, <1>5, <1>6 DEF About
  <1> DEFINE q == [client[c] EXCEPT !.queue = s, !.view = v]
  <1>9. /\ q \in ClientState /\ q.phase = client[c].phase
        /\ q.queue = s /\ q.view = v
        /\ q.owed = client[c].owed /\ q.misled = client[c].misled
    <2>1. client[c] \in ClientState
      BY <1>0
    <2> QED BY <1>6, <1>7, <2>1 DEF ClientState
  <1>10. client' = [client EXCEPT ![c] = q]
    BY <1>0, <1>1, <1>2, <1>3 DEF WriteFrame, ClientState
  <1> HIDE DEF q
  <1>11. OneClient(c) /\ client'[c] = q
    BY <1>0, <1>4, <1>9, <1>10 DEF OneClient, Clients
  <1> QED BY <1>2, <1>4, <1>6, <1>8, <1>9, <1>11
\* Commits that move nothing, and the listener's connection attempts.
Idle == /\ KeepsBus
        /\ bus' \in Seq(Note) /\ Len(bus') <= MaxBus
        /\ listener' \in [up : BOOLEAN, backoff : 1 .. (2 * MaxBackoff - 1)]
        /\ UNCHANGED <<place, hub, client>>

LEMMA IdleSteps ==
    ASSUME TypeOK
    PROVE  /\ \A a \in Addr, m \in Msg : Touch(a, m) \/ Indicate(a, m) => Idle
           /\ ListenSucceeds \/ ListenFails \/ UNCHANGED vars => Idle
  <1>1. ASSUME NEW a \in Addr, NEW m \in Msg, Touch(a, m) \/ Indicate(a, m)
        PROVE  Idle
    <2>1. PICK channel : Notify(channel, m, a)
      BY <1>1 DEF Touch, Indicate
    <2>2. UNCHANGED <<place, listener, hub, client>>
      BY <1>1 DEF Touch, Indicate
    <2> QED BY <2>1, <2>2, NotifyEffect DEF Idle, TypeOK
  <1>2. ASSUME UNCHANGED bus PROVE KeepsBus
    BY <1>2 DEF KeepsBus
  <1>3. MaxBackoff \in Nat \ {0}
    BY BoundAssumption
  <1>4. ASSUME ListenSucceeds PROVE Idle
    <2>1. listener' \in [up : BOOLEAN, backoff : 1 .. (2 * MaxBackoff - 1)]
      <3>1. 1 \in 1 .. (2 * MaxBackoff - 1)
        BY <1>3
      <3> QED BY <1>4, <3>1 DEF ListenSucceeds
    <2> QED BY <1>2, <1>4, <2>1 DEF ListenSucceeds, Idle, TypeOK
  <1>5. ASSUME ListenFails PROVE Idle
    <2> PICK b : b = IF listener.backoff < MaxBackoff THEN 2 * listener.backoff
                     ELSE listener.backoff
      OBVIOUS
    <2>1. b \in 1 .. (2 * MaxBackoff - 1)
      BY <1>3 DEF TypeOK
    <2>2. listener' = [listener EXCEPT !.backoff = b]
      BY <1>5 DEF ListenFails
    <2>3. listener' \in [up : BOOLEAN, backoff : 1 .. (2 * MaxBackoff - 1)]
      BY <2>1, <2>2 DEF TypeOK
    <2> QED BY <1>2, <1>5, <2>3 DEF ListenFails, Idle, TypeOK
  <1>6. ASSUME UNCHANGED vars PROVE Idle
    BY <1>2, <1>6 DEF vars, Idle, TypeOK
  <1> QED BY <1>1, <1>4, <1>5, <1>6

\* What the steps are.
LEMMA StepCases ==
    ASSUME TypeOK, [Next]_vars
    PROVE  \/ Idle
           \/ \E a \in Addr, m \in Msg, to \in Place : Move(a, m, to)
           \/ ListenerDrops
           \/ Receive
           \/ ReceiveIndicator
           \/ \E ok \in BOOLEAN : Build(ok)
           \/ \E c \in Client :
                 \/ SendTo(c) \/ Connect(c) \/ Expire(c) \/ WriteFrame(c)
                 \/ WriterEnds(c) \/ ReadEnds(c)
  <1>1. CASE Commit
    <2>1. PICK a \in Addr, m \in Msg : \/ \E to \in Place : Move(a, m, to)
                                       \/ Touch(a, m) \/ Indicate(a, m)
      BY <1>1 DEF Commit
    <2> QED BY <2>1, IdleSteps
  <1>2. CASE HubStep
    BY <1>2, Zenon DEF HubStep
  <1>3. CASE Build(FALSE)
    BY <1>3, Zenon
  <1> QED BY <1>1, <1>2, <1>3, IdleSteps DEF Next

LEMMA TypeInit == Init => TypeOK
  <1> SUFFICES ASSUME Init PROVE TypeOK
    OBVIOUS
  <1>1. Clients /\ \A c \in Client : Len(client[c].queue) <= Buffer
    <2>1. \A c \in Client : client[c] = NoConnection("off")
      BY DEF Init
    <2>2. Len(<<>>) <= Buffer
      BY BoundAssumption
    <2> QED BY <2>1, <2>2, NoConnectionType DEF Init, Clients
  <1>2. listener \in [up : BOOLEAN, backoff : 1 .. (2 * MaxBackoff - 1)]
    <2>1. 1 \in 1 .. (2 * MaxBackoff - 1)
      BY BoundAssumption
    <2> QED BY <2>1 DEF Init
  <1>3. place \in [Addr -> [Msg -> Place]]
    BY DEF Init, Place
  <1>4. bus \in Seq(Note) /\ Len(bus) <= MaxBus
    BY BoundAssumption DEF Init
  <1> QED BY <1>1, <1>2, <1>3, <1>4, WaitingIs DEF Init, TypeOK, Clients

LEMMA TypeStep == TypeOK /\ Routed /\ [Next]_vars => TypeOK'
  <1> SUFFICES ASSUME TypeOK, Routed, [Next]_vars PROVE TypeOK'
    OBVIOUS
  <1>0. /\ Buffer \in Nat /\ MaxBus \in Nat
        /\ \A c \in Client : /\ client[c].queue \in Seq(Frame)
                             /\ Len(client[c].queue) \in Nat
                             /\ Len(client[c].queue) <= Buffer
    <2>1. \A c \in Client : client[c].queue \in Seq(Frame)
      BY ClientFields DEF TypeOK
    <2> QED BY <2>1, BoundAssumption DEF TypeOK
  <1>1. CASE Idle
    BY <1>1 DEF Idle, TypeOK
  <1>2. ASSUME NEW a \in Addr, NEW m \in Msg, NEW to \in Place, Move(a, m, to)
        PROVE  TypeOK'
    BY <1>0, <1>2, MoveEffect DEF TypeOK, Clients, SameClient
  <1>3. CASE ListenerDrops
    <2>1. bus' \in Seq(Note) /\ Len(bus') <= MaxBus
      BY <1>0, <1>3, DropEffect
    <2> QED BY <1>0, <1>3, <2>1, DropEffect DEF TypeOK, Clients, SameClient
  <1>4. CASE Receive
    <2>1. /\ bus # <<>> /\ bus' = Tail(bus) /\ hub' \in HubState
          /\ UNCHANGED <<place, listener, client>>
      BY <1>4, ReceiveEffect
    <2>2. bus' \in Seq(Note) /\ Len(bus') <= MaxBus
      BY <2>1, TakeEffect
    <2> QED BY <2>1, <2>2 DEF TypeOK
  <1>5. CASE ReceiveIndicator
    <2>1. /\ bus # <<>> /\ bus' = Tail(bus) /\ hub' \in HubState
          /\ UNCHANGED <<place, listener, client>>
      BY <1>5, ReceiveIndicatorEffect
    <2>2. bus' \in Seq(Note) /\ Len(bus') <= MaxBus
      BY <2>1, TakeEffect
    <2> QED BY <2>1, <2>2 DEF TypeOK
  <1>6. ASSUME NEW ok \in BOOLEAN, Build(ok)
        PROVE  TypeOK'
    <2>1. hub' \in HubState /\ UNCHANGED <<place, bus, listener>>
      BY <1>6, BuildEffect
    <2>2. Clients' /\ \A c \in Client : client'[c].queue = client[c].queue
      BY <1>6, BuildClients
    <2> QED BY <2>1, <2>2 DEF TypeOK, Clients
  <1>7. ASSUME NEW c \in Client, SendTo(c)
        PROVE  TypeOK'
    <2>1. hub' \in HubState /\ hub.frame \in Frame /\ UNCHANGED <<place, bus, listener>>
      BY <1>7, SendToEffect
    <2>2. /\ Clients'
          /\ \A o \in Client \ {c} : client'[o] = client[o]
          /\ \/ client'[c].queue = client[c].queue
             \/ /\ client'[c].queue = Append(client[c].queue, hub.frame)
                /\ Len(client[c].queue) < Buffer
      BY <1>7, SendToClients
    <2>3. Len(client'[c].queue) <= Buffer
      BY <1>0, <2>1, <2>2, AppendSeq
    <2> QED BY <1>0, <2>1, <2>2, <2>3 DEF TypeOK, Clients
  <1>8. ASSUME NEW c \in Client, OneClient(c), Len(client'[c].queue) <= Buffer
        PROVE  TypeOK'
    BY <1>8 DEF OneClient, TypeOK, Clients
  <1>9. ASSUME NEW c \in Client,
               Connect(c) \/ Expire(c) \/ WriterEnds(c) \/ ReadEnds(c)
        PROVE  TypeOK'
    <2>1. Len(<<>>) <= Buffer
      BY <1>0
    <2> QED BY <1>0, <1>8, <1>9, <2>1, ConnectEffect, ExpireEffect,
               WriterEndsEffect, ReadEndsEffect DEF SameClient
  <1>10. ASSUME NEW c \in Client, WriteFrame(c)
         PROVE  TypeOK'
    <2>1. OneClient(c) /\ client[c].queue # <<>>
          /\ client'[c].queue = Tail(client[c].queue)
      BY <1>10, WriteEffect
    <2>2. Len(client'[c].queue) <= Buffer
      BY <1>0, <2>1, TailSeq
    <2> QED BY <1>8, <2>1, <2>2
  <1> QED BY <1>1, <1>2, <1>3, <1>4, <1>5, <1>6, <1>7, <1>9, <1>10, StepCases
LEMMA RoutedInit == Init => Routed
  <1> SUFFICES ASSUME Init PROVE Routed
    OBVIOUS
  <1>1. /\ hub.stage = "wait" /\ hub.to = {}
        /\ \A c \in Client : client[c] = NoConnection("off")
    BY WaitingIs DEF Init
  <1>2. \A c \in Client : client[c].phase = "off" /\ client[c].queue = <<>>
    BY <1>1, NoConnectionType
  <1> QED BY <1>1, <1>2 DEF Routed

\* The part of Routed about connections, and the part about the listener.
Tidy(c) ==
    /\ client[c].phase = "off" => client[c] = NoConnection("off")
    /\ client[c].phase = "left" => client[c].queue = <<>>
    /\ \A i \in DOMAIN client[c].queue :
          client[c].queue[i].kind = "item" => client[c].queue[i].place # "purged"

AtWork ==
    /\ hub.stage # "wait" => hub.note \in Note
    /\ hub.stage = "send" => hub.frame \in Frame
    /\ hub.stage = "build" => hub.note.channel # "indicator"
    /\ hub.stage = "send" /\ hub.frame.kind # "indicator" =>
          hub.frame.msg = hub.note.msg
    /\ \/ hub.stage = "wait"
       \/ hub.stage = "send" /\ hub.frame.kind = "indicator"
       \/ \A c \in hub.to : AddrOf[c] = hub.note.addr
    /\ hub.stage = "send" /\ hub.frame.kind = "item" => hub.frame.place # "purged"

LEMMA RoutedParts ==
    Routed <=> /\ AtWork
               /\ \A c \in Client : Tidy(c)
               /\ \A c \in hub.to : client[c].phase # "off"
  BY DEF Routed, AtWork, Tidy

LEMMA RoutedStep == TypeOK /\ Routed /\ [Next]_vars => Routed'
  <1> SUFFICES ASSUME TypeOK, Routed, [Next]_vars PROVE Routed'
    OBVIOUS
  <1>0. /\ AtWork /\ hub.to \subseteq Client
        /\ \A c \in Client : Tidy(c)
        /\ \A c \in hub.to : client[c].phase # "off"
    BY RoutedParts DEF TypeOK, HubState
  <1>1. (/\ AtWork'
         /\ \A c \in Client : Tidy(c)'
         /\ \A c \in hub'.to : client'[c].phase # "off") => Routed'
    BY DEF Routed, AtWork, Tidy
  <1>2. ASSUME UNCHANGED hub PROVE AtWork'
    BY <1>0, <1>2 DEF AtWork
  <1>3. ASSUME NEW c \in Client, client'[c] = client[c] PROVE Tidy(c)'
    BY <1>0, <1>3 DEF Tidy
  \* Connections that are not off, and were not, keep their queue.
  <1>4. ASSUME NEW c \in Client, client[c].phase # "off",
               client'[c].phase # "off",
               client'[c].phase = "left" => client[c].phase = "left",
               client'[c].queue = client[c].queue
        PROVE  Tidy(c)'
    BY <1>0, <1>4 DEF Tidy
  <1>5. CASE Idle
    BY <1>0, <1>1, <1>2, <1>3, <1>5 DEF Idle
  <1>6. ASSUME NEW a \in Addr, NEW m \in Msg, NEW to \in Place, Move(a, m, to)
        PROVE  Routed'
    <2>1. \A c \in Client : SameClient(c)
      BY <1>6, MoveEffect
    <2>2. \A c \in Client : client[c].phase = "off" => client'[c] = client[c]
      BY <1>6 DEF Move, ClientsOf, Registered
    <2>3. \A c \in Client : Tidy(c)'
      BY <1>3, <1>4, <2>1, <2>2 DEF SameClient
    <2>4. hub' = hub
      BY <1>6, MoveEffect
    <2> QED BY <1>0, <1>1, <1>2, <2>1, <2>3, <2>4 DEF SameClient
  <1>7. CASE ListenerDrops
    <2>1. \A c \in Client : SameClient(c)
      BY <1>7, DropEffect
    <2>2. ASSUME NEW c \in Client, client[c].phase = "off"
          PROVE  client'[c] = client[c]
      <3>1. client[c] = NoConnection("off")
        BY <1>0, <2>2 DEF Tidy
      <3>2. [NoConnection("off") EXCEPT !.owed = {}] = NoConnection("off")
        <4>1. ASSUME NEW q \in ClientState, q.owed = {}
              PROVE  [q EXCEPT !.owed = {}] = q
          BY <4>1 DEF ClientState
        <4> QED BY <4>1, NoConnectionType
      <3> QED BY <1>7, <3>1, <3>2 DEF ListenerDrops
    <2>3. \A c \in Client : Tidy(c)'
      BY <1>3, <1>4, <2>1, <2>2 DEF SameClient
    <2>4. hub' = hub
      BY <1>7, DropEffect
    <2> QED BY <1>0, <1>1, <1>2, <2>1, <2>3, <2>4 DEF SameClient
  <1>8. CASE Receive
    <2>1. PICK n \in Note :
              /\ n.channel # "indicator"
              /\ \/ hub'.stage = "wait" /\ hub'.to = {}
                 \/ hub'.stage = "build" /\ hub'.note = n
                    /\ hub'.to = ClientsOf(n.addr)
              /\ client' = client
      BY <1>8, ReceiveEffect
    <2>2. \A c \in ClientsOf(n.addr) : /\ AddrOf[c] = n.addr
                                       /\ client[c].phase # "off"
      BY DEF ClientsOf, Registered
    <2>3. AtWork'
      BY <2>1, <2>2 DEF AtWork
    <2> QED BY <1>1, <1>3, <2>1, <2>2, <2>3
  <1>9. CASE ReceiveIndicator
    <2>1. /\ \/ hub'.stage = "wait" /\ hub'.to = {}
             \/ /\ hub'.stage = "send" /\ hub'.note \in Note
                /\ hub'.frame \in Frame /\ hub'.frame.kind = "indicator"
                /\ \A c \in hub'.to : Registered(c)
          /\ client' = client
      BY <1>9, ReceiveIndicatorEffect
    <2>2. AtWork'
      BY <2>1 DEF AtWork
    <2> QED BY <1>1, <1>3, <2>1, <2>2 DEF Registered
  <1>10. ASSUME NEW ok \in BOOLEAN, Build(ok)
         PROVE  Routed'
    <2> PICK n : n = hub.note
      OBVIOUS
    <2>1. /\ hub.stage = "build" /\ n \in Note
          /\ \/ hub'.stage = "wait" /\ hub'.to = {}
             \/ /\ hub'.stage = "send" /\ hub'.to = hub.to /\ hub'.note = n
                /\ hub'.frame \in Frame /\ hub'.frame.msg = n.msg
                /\ \/ hub'.frame.kind = "item" /\ hub'.frame.place # "purged"
                   \/ hub'.frame.kind = "gone"
      BY <1>10, BuildEffect
    <2>2. \A c \in Client : /\ client'[c].phase = client[c].phase
                            /\ client'[c].queue = client[c].queue
                            /\ c \notin hub.to => client'[c] = client[c]
      BY <1>10, BuildClients
    <2>3. AtWork'
      BY <1>0, <2>1 DEF AtWork
    <2>4. \A c \in Client : Tidy(c)'
      BY <1>0, <1>3, <1>4, <2>2
    <2> QED BY <1>0, <1>1, <2>1, <2>2, <2>3, <2>4
  <1>11. ASSUME NEW c \in Client, SendTo(c)
         PROVE  Routed'
    <2>1. /\ hub.stage = "send" /\ c \in hub.to /\ hub.frame \in Frame
          /\ hub'.to = hub.to \ {c}
          /\ \/ hub'.stage = "wait"
             \/ /\ hub'.stage = "send" /\ hub'.note = hub.note
                /\ hub'.frame = hub.frame
      BY <1>11, SendToEffect
    <2>2. /\ \A o \in Client \ {c} : client'[o] = client[o]
          /\ ~Registered(c) => client'[c] = client[c]
          /\ Registered(c) =>
                \/ /\ client'[c].phase = client[c].phase
                   /\ client'[c].queue = Append(client[c].queue, hub.frame)
                \/ /\ client'[c].phase = "closing"
                   /\ client'[c].queue = client[c].queue
      BY <1>11, SendToClients
    <2>3. AtWork'
      BY <1>0, <2>1 DEF AtWork
    <2>4. ASSUME Registered(c), client'[c].phase = client[c].phase,
                 client'[c].queue = Append(client[c].queue, hub.frame)
          PROVE  Tidy(c)'
      <3>1. client[c].queue \in Seq(Frame)
        BY ClientFields DEF TypeOK
      <3>2. /\ DOMAIN client[c].queue = 1 .. Len(client[c].queue)
            /\ DOMAIN client'[c].queue = 1 .. (Len(client[c].queue) + 1)
            /\ Len(client[c].queue) \in Nat
            /\ \A i \in DOMAIN client[c].queue :
                  client'[c].queue[i] = client[c].queue[i]
            /\ client'[c].queue[Len(client[c].queue) + 1] = hub.frame
        BY <2>1, <2>4, <3>1, AppendSeq
      <3>3. hub.frame.kind = "item" => hub.frame.place # "purged"
        BY <1>0, <2>1 DEF AtWork
      <3>4. \A i \in DOMAIN client'[c].queue :
               i \in DOMAIN client[c].queue \/ i = Len(client[c].queue) + 1
        BY <3>2
      <3> QED BY <1>0, <2>4, <3>2, <3>3, <3>4 DEF Tidy, Registered
    <2>5. \A o \in Client : Tidy(o)'
      BY <1>3, <1>4, <2>2, <2>4 DEF Registered
    <2> QED BY <1>0, <1>1, <2>1, <2>2, <2>3, <2>5
  <1>12. ASSUME NEW c \in Client, OneClient(c), Tidy(c)',
                client'[c].phase # "off" \/ client[c].phase = "off"
         PROVE  Routed'
    BY <1>0, <1>1, <1>2, <1>3, <1>12 DEF OneClient
  <1>13. ASSUME NEW c \in Client, Connect(c) PROVE Routed'
    <2>1. /\ OneClient(c) /\ client[c].phase = "off"
          /\ client'[c].phase = "open" /\ client'[c].queue = client[c].queue
      BY <1>13, ConnectEffect
    <2>2. Tidy(c)'
      BY <1>0, <2>1 DEF Tidy
    <2> QED BY <1>12, <2>1, <2>2
  <1>14. ASSUME NEW c \in Client, Expire(c) PROVE Routed'
    BY <1>4, <1>12, <1>14, ExpireEffect
  <1>15. ASSUME NEW c \in Client, ReadEnds(c) PROVE Routed'
    <2>1. /\ OneClient(c) /\ client'[c].phase = "left"
          /\ client'[c].queue = <<>>
      BY <1>15, ReadEndsEffect
    <2>2. Tidy(c)'
      BY <2>1 DEF Tidy
    <2> QED BY <1>12, <2>1, <2>2
  <1>16. ASSUME NEW c \in Client, WriterEnds(c) PROVE Routed'
    <2>1. OneClient(c) /\ SameClient(c)
      BY <1>16, WriterEndsEffect
    <2>2. client[c].phase # "off"
      <3>1. NoConnection("off").writer = FALSE
        BY DEF NoConnection
      <3> QED BY <1>0, <1>16, <3>1 DEF WriterEnds, Tidy
    <2>3. Tidy(c)'
      BY <1>4, <2>1, <2>2 DEF SameClient
    <2> QED BY <1>12, <2>1, <2>2, <2>3 DEF SameClient
  <1>17. ASSUME NEW c \in Client, WriteFrame(c) PROVE Routed'
    <2>1. /\ OneClient(c) /\ client'[c].phase = "open"
          /\ client[c].queue # <<>> /\ client'[c].queue = Tail(client[c].queue)
      BY <1>17, WriteEffect
    <2>2. client[c].queue \in Seq(Frame)
      BY ClientFields DEF TypeOK
    <2>3. \A i \in DOMAIN client'[c].queue :
             /\ i + 1 \in DOMAIN client[c].queue
             /\ client'[c].queue[i] = client[c].queue[i + 1]
      BY <2>1, <2>2, TailSeq
    <2>4. Tidy(c)'
      BY <1>0, <2>1, <2>3 DEF Tidy
    <2> QED BY <1>12, <2>1, <2>4
  <1> QED BY <1>5, <1>6, <1>7, <1>8, <1>9, <1>10, <1>11, <1>13, <1>14, <1>15,
             <1>16, <1>17, StepCases

\* Registry, queues and listener are as Hub types them: no queue is longer
\* than wsSendBuffer, the listener never builds without a notification or
\* sends without a frame, and its backoff stays below twice maxBackoff.
THEOREM HubTyped == Spec => []TypeOK
  <1> QED BY TypeInit, TypeStep, RoutedInit, RoutedStep, PTL DEF Spec
-----------------------------------------------------------------------------
(***************************************************************************)
(* After a delete for good                                                 *)
(***************************************************************************)

Honest(c) ==
    \A m \in Msg \ client[c].misled :
        Registered(c) /\ (\/ client[c].view[m] = "purged"
                          \/ Queues(c, "gone", m)
                          \/ Sends(c, m) /\ hub.frame.kind = "gone")
            => place[AddrOf[c]][m] = "purged"

InOrder(c) ==
    LET q == client[c].queue IN
    \A i \in DOMAIN q : q[i].kind = "item" /\ q[i].msg \notin client[c].misled =>
        /\ client[c].view[q[i].msg] # "purged"
        /\ \A j \in 1 .. (i - 1) : ~(q[j].kind = "gone" /\ q[j].msg = q[i].msg)

NextInOrder(c) ==
    \A m \in Msg \ client[c].misled :
        Registered(c) /\ Sends(c, m) /\ hub.frame.kind = "item"
            => client[c].view[m] # "purged" /\ ~Queues(c, "gone", m)

Settled(c) == Honest(c) /\ InOrder(c) /\ NextInOrder(c)

LEMMA SettledParts ==
    NoFalseGone /\ NoItemAfter <=> \A c \in Client : Settled(c)
  BY DEF NoFalseGone, NoItemAfter, GoneIsLast, Settled, Honest, InOrder,
         NextInOrder

\* A delete for good is never undone.
PurgedStays ==
    \A a \in Addr, m \in Msg : place[a][m] = "purged" => place'[a][m] = "purged"

\* A step that queues nothing for c, and starts to send it nothing.
LEMMA SettledFrame ==
    ASSUME TypeOK, PurgedStays, NEW c \in Client, Settled(c),
           Registered(c)' => Registered(c),
           client'[c].queue = client[c].queue,
           client'[c].view = client[c].view,
           client[c].misled \subseteq client'[c].misled,
           \A m \in Msg : Sends(c, m)' =>
               Sends(c, m) /\ hub'.frame.kind = hub.frame.kind
    PROVE  Settled(c)'
  <1>1. \A m \in Msg : \A kind : Queues(c, kind, m)' <=> Queues(c, kind, m)
    BY DEF Queues
  <1>2. AddrOf[c] \in Addr
    BY ClientAssumption
  <1>3. Honest(c)'
    BY <1>1, <1>2 DEF Settled, Honest, PurgedStays
  <1>4. NextInOrder(c)'
    BY <1>1 DEF Settled, NextInOrder
  <1>5. InOrder(c)'
    BY DEF Settled, InOrder
  <1> QED BY <1>3, <1>4, <1>5 DEF Settled

LEMMA SettledBuild ==
    ASSUME TypeOK, Routed, NEW c \in Client, Settled(c), NEW ok \in BOOLEAN,
           Build(ok)
    PROVE  Settled(c)'
  <1> PICK n : n = hub.note
    OBVIOUS
  <1> PICK at : at = place[n.addr][n.msg]
    OBVIOUS
  <1>1. /\ hub.stage = "build" /\ n \in Note
        /\ \/ hub'.stage = "wait" /\ hub'.to = {}
           \/ /\ hub'.stage = "send" /\ hub'.to = hub.to
              /\ hub'.frame.msg = n.msg
              /\ \/ hub'.frame.kind = "item" /\ ok /\ at # "purged"
                 \/ hub'.frame.kind = "gone" /\ (ok => at = "purged")
        /\ UNCHANGED place
    BY BuildEffect
  <1>2. /\ client'[c].phase = client[c].phase
        /\ client'[c].queue = client[c].queue
        /\ client'[c].view = client[c].view
        /\ client[c].misled \subseteq client'[c].misled
        /\ c \in hub.to /\ ~ok /\ at # "purged" => n.msg \in client'[c].misled
    BY BuildClients
  <1>3. c \in hub.to => AddrOf[c] = n.addr
    BY <1>1 DEF Routed
  <1>4. \A m \in Msg : \A kind : Queues(c, kind, m)' <=> Queues(c, kind, m)
    BY <1>2 DEF Queues
  <1>5. Registered(c)' <=> Registered(c)
    BY <1>2 DEF Registered
  <1>6. \A m \in Msg : Sends(c, m)' => m = n.msg /\ c \in hub.to
    BY <1>1 DEF Sends
  <1>7. ASSUME NEW m \in Msg \ client'[c].misled, Sends(c, m)'
        PROVE  IF hub'.frame.kind = "gone" THEN place[AddrOf[c]][m] = "purged"
               ELSE place[AddrOf[c]][m] # "purged"
    <2>1. m = n.msg /\ c \in hub.to /\ AddrOf[c] = n.addr /\ hub'.stage = "send"
      BY <1>3, <1>6, <1>7 DEF Sends
    <2>2. place[AddrOf[c]][m] = at
      BY <2>1
    <2>3. CASE hub'.frame.kind = "gone"
      <3>1. ok => at = "purged"
        BY <1>1, <2>1, <2>3
      <3>2. ~ok => at = "purged"
        BY <1>2, <1>7, <2>1
      <3> QED BY <2>2, <2>3, <3>1, <3>2
    <2>4. CASE hub'.frame.kind # "gone"
      BY <1>1, <2>1, <2>2, <2>4
    <2> QED BY <2>3, <2>4
  <1>8. Honest(c)'
    <2> SUFFICES ASSUME NEW m \in Msg \ client'[c].misled, Registered(c)',
                        \/ client'[c].view[m] = "purged"
                        \/ Queues(c, "gone", m)'
                        \/ Sends(c, m)' /\ hub'.frame.kind = "gone"
                 PROVE  place'[AddrOf[c]][m] = "purged"
      BY DEF Honest
    <2>1. CASE Sends(c, m)' /\ hub'.frame.kind = "gone"
      BY <1>1, <1>7, <2>1
    <2>2. CASE client'[c].view[m] = "purged" \/ Queues(c, "gone", m)'
      BY <1>1, <1>2, <1>4, <1>5, <2>2 DEF Settled, Honest
    <2> QED BY <2>1, <2>2
  <1>9. NextInOrder(c)'
    <2> SUFFICES ASSUME NEW m \in Msg \ client'[c].misled, Registered(c)',
                        Sends(c, m)', hub'.frame.kind = "item"
                 PROVE  /\ client'[c].view[m] # "purged"
                        /\ ~Queues(c, "gone", m)'
      BY DEF NextInOrder
    <2>1. place[AddrOf[c]][m] # "purged"
      BY <1>7
    <2> QED BY <1>2, <1>4, <1>5, <2>1 DEF Settled, Honest
  <1>10. InOrder(c)'
    BY <1>2 DEF Settled, InOrder
  <1> QED BY <1>8, <1>9, <1>10 DEF Settled
\* The frame sent goes to the end of the queue.
LEMMA QueuedLast ==
    ASSUME TypeOK, NEW c \in Client, hub.frame \in Frame,
           client'[c].queue = Append(client[c].queue, hub.frame)
    PROVE  LET len == Len(client[c].queue) IN
           /\ len \in Nat /\ DOMAIN client[c].queue = 1 .. len
           /\ DOMAIN client'[c].queue = 1 .. (len + 1)
           /\ \A i \in 1 .. len : client'[c].queue[i] = client[c].queue[i]
           /\ client'[c].queue[len + 1] = hub.frame
  <1>1. client[c].queue \in Seq(Frame)
    BY ClientFields DEF TypeOK
  <1> QED BY <1>1, AppendSeq

LEMMA SettledSend ==
    ASSUME TypeOK, Routed, NEW c \in Client, Settled(c), SendTo(c)
    PROVE  Settled(c)'
  <1>1. /\ hub.stage = "send" /\ c \in hub.to /\ hub.frame \in Frame
        /\ hub'.to = hub.to \ {c} /\ UNCHANGED place
    BY SendToEffect
  <1>2. \A m \in Msg : ~Sends(c, m)'
    BY <1>1 DEF Sends
  <1>3. PurgedStays
    BY <1>1 DEF PurgedStays
  <1>4. CASE ~Registered(c)
    <2>1. client'[c] = client[c]
      BY <1>4, SendToClients
    <2> QED BY <1>2, <1>3, <2>1, SettledFrame DEF Registered
  <1>5. CASE Registered(c) /\ client'[c].queue = client[c].queue
    <2>1. /\ client'[c].view = client[c].view
          /\ client'[c].misled = client[c].misled
      BY <1>5, SendToClients
    <2> QED BY <1>2, <1>3, <1>5, <2>1, SettledFrame
  <1>6. CASE Registered(c) /\ client'[c].queue # client[c].queue
    <2>1. /\ client'[c].view = client[c].view
          /\ client'[c].misled = client[c].misled
          /\ client'[c].queue = Append(client[c].queue, hub.frame)
      BY <1>6, SendToClients
    <2> PICK len : len = Len(client[c].queue)
      OBVIOUS
    <2>2. /\ len \in Nat /\ DOMAIN client[c].queue = 1 .. len
          /\ DOMAIN client'[c].queue = 1 .. (len + 1)
          /\ \A i \in 1 .. len : client'[c].queue[i] = client[c].queue[i]
          /\ client'[c].queue[len + 1] = hub.frame
      BY <1>1, <2>1, QueuedLast
    <2>3. \A m \in Msg : Queues(c, "gone", m)' =>
             Queues(c, "gone", m) \/ (Sends(c, m) /\ hub.frame.kind = "gone")
      <3> SUFFICES ASSUME NEW m \in Msg, NEW i \in DOMAIN client'[c].queue,
                          client'[c].queue[i].kind = "gone",
                          client'[c].queue[i].msg = m
                   PROVE  \/ Queues(c, "gone", m)
                          \/ Sends(c, m) /\ hub.frame.kind = "gone"
        BY DEF Queues
      <3>1. CASE i = len + 1
        BY <1>1, <2>2, <3>1 DEF Sends
      <3>2. CASE i \in 1 .. len
        BY <2>2, <3>2 DEF Queues
      <3> QED BY <2>2, <3>1, <3>2
    <2>4. Honest(c)'
      BY <1>1, <1>2, <1>6, <2>1, <2>3 DEF Settled, Honest
    <2>5. NextInOrder(c)'
      BY <1>2 DEF NextInOrder
    <2>6. InOrder(c)'
      <3> SUFFICES ASSUME NEW i \in DOMAIN client'[c].queue,
                          client'[c].queue[i].kind = "item",
                          client'[c].queue[i].msg \notin client'[c].misled
                   PROVE  /\ client'[c].view[client'[c].queue[i].msg] # "purged"
                          /\ \A j \in 1 .. (i - 1) :
                                ~(/\ client'[c].queue[j].kind = "gone"
                                  /\ client'[c].queue[j].msg
                                        = client'[c].queue[i].msg)
        BY DEF InOrder
      <3>1. CASE i = len + 1
        <4> PICK m : m = hub.frame.msg
          OBVIOUS
        <4>1. hub.frame.kind = "item" /\ m \notin client[c].misled /\ m \in Msg
          BY <1>1, <2>1, <2>2, <3>1 DEF Frame
        <4>2. Sends(c, m)
          BY <1>1, <4>1 DEF Sends
        <4>3. client[c].view[m] # "purged" /\ ~Queues(c, "gone", m)
          BY <1>6, <4>1, <4>2 DEF Settled, NextInOrder
        <4> QED BY <2>1, <2>2, <3>1, <4>3 DEF Queues
      <3>2. CASE i \in 1 .. len
        <4>1. \A j \in 1 .. (i - 1) : j \in 1 .. len
          BY <2>2, <3>2
        <4>2. /\ client[c].view[client[c].queue[i].msg] # "purged"
              /\ \A j \in 1 .. (i - 1) :
                    ~(/\ client[c].queue[j].kind = "gone"
                      /\ client[c].queue[j].msg = client[c].queue[i].msg)
          BY <2>1, <2>2, <3>2 DEF Settled, InOrder
        <4> QED BY <2>1, <2>2, <3>2, <4>1, <4>2
      <3> QED BY <2>2, <3>1, <3>2
    <2> QED BY <2>4, <2>5, <2>6 DEF Settled
  <1> QED BY <1>4, <1>5, <1>6

LEMMA SettledWrite ==
    ASSUME TypeOK, Routed, NEW c \in Client, Settled(c), WriteFrame(c)
    PROVE  Settled(c)'
  <1> PICK f : f = client[c].queue[1]
    OBVIOUS
  <1>1. /\ client[c].phase = "open" /\ client'[c].phase = "open"
        /\ client[c].queue # <<>> /\ client'[c].queue = Tail(client[c].queue)
        /\ \A m \in Msg :
              client'[c].view[m] = IF About(f, m) THEN f.place
                                   ELSE client[c].view[m]
        /\ client'[c].misled = client[c].misled
        /\ UNCHANGED <<place, hub>>
    BY WriteEffect DEF OneClient
  <1>2. client[c].queue \in Seq(Frame)
    BY ClientFields DEF TypeOK
  <1> PICK len : len = Len(client[c].queue)
    OBVIOUS
  <1>3. /\ f \in Frame /\ 1 \in DOMAIN client[c].queue /\ len \in Nat
        /\ DOMAIN client[c].queue = 1 .. len
        /\ DOMAIN client'[c].queue = 1 .. (len - 1)
        /\ \A i \in DOMAIN client'[c].queue :
              /\ i + 1 \in DOMAIN client[c].queue
              /\ client'[c].queue[i] = client[c].queue[i + 1]
    BY <1>1, <1>2, TailSeq
  <1>4. f.kind = "item" => f.place # "purged"
    BY <1>3 DEF Routed
  <1>5. Registered(c) /\ \A m \in Msg : Sends(c, m)' <=> Sends(c, m)
    BY <1>1 DEF Registered, Sends
  <1>6. \A m \in Msg : Queues(c, "gone", m)' => Queues(c, "gone", m)
    BY <1>3 DEF Queues
  <1>7. \A m \in Msg : About(f, m) /\ f.place = "purged" => Queues(c, "gone", m)
    BY <1>3, <1>4 DEF About, Queues, Frame
  <1>8. Honest(c)'
    BY <1>1, <1>5, <1>6, <1>7 DEF Settled, Honest
  <1>9. NextInOrder(c)'
    BY <1>1, <1>5, <1>6, <1>7 DEF Settled, NextInOrder
  <1>10. InOrder(c)'
    <2> SUFFICES ASSUME NEW i \in DOMAIN client'[c].queue,
                        client'[c].queue[i].kind = "item",
                        client'[c].queue[i].msg \notin client'[c].misled
                 PROVE  /\ client'[c].view[client'[c].queue[i].msg] # "purged"
                        /\ \A j \in 1 .. (i - 1) :
                              ~(/\ client'[c].queue[j].kind = "gone"
                                /\ client'[c].queue[j].msg
                                      = client'[c].queue[i].msg)
      BY DEF InOrder
    <2> PICK m : m = client'[c].queue[i].msg
      OBVIOUS
    <2>1. /\ i + 1 \in DOMAIN client[c].queue /\ i \in 1 .. (len - 1)
          /\ client[c].queue[i + 1].kind = "item"
          /\ client[c].queue[i + 1].msg = m
          /\ m \notin client[c].misled
      BY <1>1, <1>3
    <2>2. m \in Msg
      <3>1. client[c].queue[i + 1] \in Frame
        BY <1>2, <2>1
      <3> QED BY <2>1, <3>1 DEF Frame
    <2>3. /\ client[c].view[m] # "purged"
          /\ \A j \in 1 .. i :
                ~(client[c].queue[j].kind = "gone" /\ client[c].queue[j].msg = m)
      <3>1. (i + 1) - 1 = i
        BY <2>1
      <3> QED BY <2>1, <3>1 DEF Settled, InOrder
    <2>4. 1 \in 1 .. i /\ \A j \in 1 .. (i - 1) : j + 1 \in 1 .. i
                              /\ j \in DOMAIN client'[c].queue
      BY <1>3, <2>1
    <2>5. ~(f.kind = "gone" /\ f.msg = m)
      BY <2>3, <2>4
    <2>6. client'[c].view[m] # "purged"
      BY <1>1, <1>3, <1>4, <2>2, <2>3, <2>5 DEF About, Frame
    <2> QED BY <1>3, <2>3, <2>4, <2>6
  <1> QED BY <1>8, <1>9, <1>10 DEF Settled
LEMMA SettledStep ==
    TypeOK /\ Routed /\ NoFalseGone /\ NoItemAfter /\ [Next]_vars
        => (NoFalseGone /\ NoItemAfter)'
  <1> SUFFICES ASSUME TypeOK, Routed, NoFalseGone, NoItemAfter, [Next]_vars,
                      NEW o \in Client
               PROVE  Settled(o)'
    <2>1. (\A c \in Client : Settled(c)') => (NoFalseGone /\ NoItemAfter)'
      BY DEF NoFalseGone, NoItemAfter, GoneIsLast, Settled, Honest, InOrder,
             NextInOrder
    <2> QED BY <2>1
  <1>0. Settled(o)
    BY SettledParts
  \* Steps after which the listener is as it was, or sends o nothing new.
  <1>1. ASSUME UNCHANGED hub \/ (\A m \in Msg : ~Sends(o, m)'),
               client'[o] = client[o] \/ SameClient(o), PurgedStays
        PROVE  Settled(o)'
    <2>1. \A m \in Msg : Sends(o, m)' =>
             Sends(o, m) /\ hub'.frame.kind = hub.frame.kind
      BY <1>1 DEF Sends
    <2>2. /\ client'[o].queue = client[o].queue
          /\ client'[o].view = client[o].view
          /\ client[o].misled \subseteq client'[o].misled
          /\ Registered(o)' => Registered(o)
      BY <1>1 DEF SameClient, Registered
    <2> QED BY <1>0, <1>1, <2>1, <2>2, SettledFrame
  <1>2. ASSUME UNCHANGED place PROVE PurgedStays
    BY <1>2 DEF PurgedStays
  <1>3. CASE Idle
    BY <1>1, <1>2, <1>3 DEF Idle
  <1>4. ASSUME NEW a \in Addr, NEW m \in Msg, NEW to \in Place, Move(a, m, to)
        PROVE  Settled(o)'
    <2>1. /\ SameClient(o) /\ hub' = hub /\ place[a][m] # "purged"
          /\ \A b \in Addr, x \in Msg :
                b # a \/ x # m => place'[b][x] = place[b][x]
      BY <1>4, MoveEffect
    <2>2. PurgedStays
      BY <2>1 DEF PurgedStays
    <2> QED BY <1>1, <2>1, <2>2
  <1>5. CASE ListenerDrops
    BY <1>1, <1>2, <1>5, DropEffect
  <1>6. CASE Receive \/ ReceiveIndicator
    <2>1. /\ UNCHANGED <<place, client>>
          /\ \/ hub'.stage \in {"wait", "build"}
             \/ hub'.frame.kind = "indicator"
      BY <1>6, ReceiveEffect, ReceiveIndicatorEffect
    <2>2. \A m \in Msg : ~Sends(o, m)'
      BY <2>1 DEF Sends
    <2> QED BY <1>1, <1>2, <2>1, <2>2
  <1>7. ASSUME NEW ok \in BOOLEAN, Build(ok)
        PROVE  Settled(o)'
    BY <1>0, <1>7, SettledBuild
  <1>8. ASSUME NEW c \in Client, SendTo(c)
        PROVE  Settled(o)'
    <2>1. CASE c = o
      BY <1>0, <1>8, <2>1, SettledSend
    <2>2. CASE c # o
      <3>1. /\ client'[o] = client[o] /\ hub'.to = hub.to \ {c}
            /\ \/ hub'.stage = "wait"
               \/ hub'.stage = hub.stage /\ hub'.frame = hub.frame
            /\ UNCHANGED place
        BY <1>8, <2>2, SendToEffect, SendToClients
      <3>2. \A m \in Msg : Sends(o, m)' =>
               Sends(o, m) /\ hub'.frame.kind = hub.frame.kind
        BY <3>1 DEF Sends
      <3> QED BY <1>0, <1>2, <3>1, <3>2, SettledFrame DEF Registered
    <2> QED BY <2>1, <2>2
  <1>9. ASSUME NEW c \in Client, c # o, OneClient(c)
        PROVE  Settled(o)'
    BY <1>1, <1>2, <1>9 DEF OneClient
  <1>10. CASE WriterEnds(o)
    BY <1>1, <1>2, <1>10, WriterEndsEffect DEF OneClient
  <1>11. CASE Expire(o)
    <2>1. /\ UNCHANGED <<place, hub>> /\ client[o].phase = "open"
          /\ client'[o].queue = client[o].queue
          /\ client'[o].view = client[o].view
          /\ client'[o].misled = client[o].misled
      BY <1>11, ExpireEffect DEF OneClient
    <2>2. Registered(o) /\ \A m \in Msg : Sends(o, m)' => Sends(o, m)
      BY <2>1 DEF Registered, Sends
    <2> QED BY <1>0, <1>2, <2>1, <2>2, SettledFrame
  <1>12. CASE Connect(o)
    <2>1. /\ UNCHANGED <<place, hub>> /\ client[o].phase = "off"
          /\ client'[o].queue = client[o].queue
          /\ client'[o].view = client[o].view
      BY <1>12, ConnectEffect DEF OneClient
    <2>2. client[o] = NoConnection("off")
      BY <2>1 DEF Routed
    <2>3. client'[o].queue = <<>> /\ \A m \in Msg : client'[o].view[m] = "none"
      BY <2>1, <2>2, NoConnectionType
    <2>4. \A m \in Msg : ~Sends(o, m)'
      BY <2>1 DEF Sends, Routed
    <2>5. \A m \in Msg : ~Queues(o, "gone", m)'
      BY <2>3 DEF Queues
    <2> QED BY <2>3, <2>4, <2>5 DEF Settled, Honest, InOrder, NextInOrder
  <1>13. CASE ReadEnds(o)
    <2>1. client'[o].phase = "left" /\ client'[o].queue = <<>>
      BY <1>13, ReadEndsEffect
    <2>2. ~Registered(o)'
      BY <2>1 DEF Registered
    <2> QED BY <2>1, <2>2 DEF Settled, Honest, InOrder, NextInOrder
  <1>14. CASE WriteFrame(o)
    BY <1>0, <1>14, SettledWrite
  <1>15. ASSUME NEW c \in Client, c # o,
                \/ Connect(c) \/ Expire(c) \/ WriteFrame(c)
                \/ WriterEnds(c) \/ ReadEnds(c)
         PROVE  Settled(o)'
    <2>1. OneClient(c)
      BY <1>15, ConnectEffect, ExpireEffect, WriteEffect, WriterEndsEffect,
         ReadEndsEffect
    <2> QED BY <1>9, <1>15, <2>1
  <1> QED BY <1>3, <1>4, <1>5, <1>6, <1>7, <1>8, <1>10, <1>11, <1>12, <1>13,
             <1>14, <1>15, StepCases

LEMMA SettledInit == Init => NoFalseGone /\ NoItemAfter
  <1> SUFFICES ASSUME Init, NEW c \in Client PROVE Settled(c)
    BY SettledParts
  <1>1. client[c].phase = "off" /\ client[c].queue = <<>>
    BY NoConnectionType DEF Init
  <1> QED BY <1>1 DEF Settled, Honest, InOrder, NextInOrder, Registered

\* GoneIsLast, for any number of connections, notifications and messages and
\* whatever the queue length: nothing queued or being built when a message is
\* deleted for good reaches a client behind the news of it.
THEOREM NoItemAfterGone == Spec => []GoneIsLast
  <1>1. NoItemAfter => GoneIsLast
    BY DEF NoItemAfter
  <1> QED BY <1>1, TypeInit, TypeStep, RoutedInit, RoutedStep, SettledInit,
             SettledStep, PTL DEF Spec
-----------------------------------------------------------------------------
(***************************************************************************)
(* What an open connection is owed                                         *)
(***************************************************************************)

LEMMA ToldAppend ==
    ASSUME TypeOK, NEW c \in Client, NEW m \in Msg, NEW p, hub.frame \in Frame,
           client'[c].queue = Append(client[c].queue, hub.frame),
           client'[c].view = client[c].view,
           IF About(hub.frame, m) THEN hub.frame.place = p
           ELSE Told(client[c], m, p)
    PROVE  Told(client'[c], m, p)
  <1> PICK len : len = Len(client[c].queue)
    OBVIOUS
  <1>1. /\ len \in Nat /\ DOMAIN client[c].queue = 1 .. len
        /\ DOMAIN client'[c].queue = 1 .. (len + 1)
        /\ \A i \in 1 .. len : client'[c].queue[i] = client[c].queue[i]
        /\ client'[c].queue[len + 1] = hub.frame
    BY QueuedLast
  <1>2. len + 1 \in DOMAIN client'[c].queue
        /\ \A j \in DOMAIN client'[c].queue : ~(j > len + 1)
    BY <1>1
  <1>3. CASE About(hub.frame, m)
    BY <1>1, <1>2, <1>3 DEF Told
  <1>4. CASE ~About(hub.frame, m)
    <2>1. Told(client[c], m, p)
      BY <1>4
    <2>2. \A j \in DOMAIN client'[c].queue : j \in 1 .. len \/ j = len + 1
      BY <1>1
    <2>3. ASSUME NEW i \in DOMAIN client[c].queue,
                 About(client[c].queue[i], m), client[c].queue[i].place = p,
                 \A j \in DOMAIN client[c].queue :
                     j > i => ~About(client[c].queue[j], m)
          PROVE  Told(client'[c], m, p)
      <3>1. i \in DOMAIN client'[c].queue
            /\ client'[c].queue[i] = client[c].queue[i]
        BY <1>1
      <3>2. \A j \in DOMAIN client'[c].queue :
               j > i => ~About(client'[c].queue[j], m)
        BY <1>1, <1>4, <2>2, <2>3
      <3> QED BY <2>3, <3>1, <3>2 DEF Told
    <2>4. ASSUME \A j \in DOMAIN client[c].queue : ~About(client[c].queue[j], m),
                 client[c].view[m] = p
          PROVE  Told(client'[c], m, p)
      BY <1>1, <1>4, <2>2, <2>4 DEF Told
    <2> QED BY <2>1, <2>3, <2>4 DEF Told
  <1> QED BY <1>3, <1>4

LEMMA ToldTail ==
    ASSUME TypeOK, NEW c \in Client, NEW m \in Msg, NEW p, WriteFrame(c),
           Told(client[c], m, p)
    PROVE  Told(client'[c], m, p)
  <1> PICK f : f = client[c].queue[1]
    OBVIOUS
  <1>1. /\ client[c].queue # <<>> /\ client'[c].queue = Tail(client[c].queue)
        /\ client'[c].view[m] = IF About(f, m) THEN f.place
                                ELSE client[c].view[m]
    BY WriteEffect
  <1> PICK len : len = Len(client[c].queue)
    OBVIOUS
  <1>2. /\ 1 \in DOMAIN client[c].queue /\ len \in Nat
        /\ DOMAIN client[c].queue = 1 .. len
        /\ DOMAIN client'[c].queue = 1 .. (len - 1)
        /\ \A i \in DOMAIN client'[c].queue :
              /\ i + 1 \in DOMAIN client[c].queue
              /\ client'[c].queue[i] = client[c].queue[i + 1]
    <2>1. client[c].queue \in Seq(Frame)
      BY ClientFields DEF TypeOK
    <2> QED BY <1>1, <2>1, TailSeq
  <1>3. ASSUME NEW i \in DOMAIN client[c].queue,
               About(client[c].queue[i], m), client[c].queue[i].place = p,
               \A j \in DOMAIN client[c].queue :
                   j > i => ~About(client[c].queue[j], m)
        PROVE  Told(client'[c], m, p)
    <2>1. CASE i = 1
      <3>1. \A j \in DOMAIN client'[c].queue : ~About(client'[c].queue[j], m)
        BY <1>2, <1>3, <2>1
      <3> QED BY <1>1, <1>3, <2>1, <3>1 DEF Told
    <2>2. CASE i # 1
      <3>1. i - 1 \in DOMAIN client'[c].queue /\ (i - 1) + 1 = i
        BY <1>2, <2>2
      <3>2. client'[c].queue[i - 1] = client[c].queue[i]
        BY <1>2, <3>1
      <3>3. \A j \in DOMAIN client'[c].queue :
               j > i - 1 => ~About(client'[c].queue[j], m)
        BY <1>2, <1>3
      <3> QED BY <1>3, <3>1, <3>2, <3>3 DEF Told
    <2> QED BY <2>1, <2>2
  <1>4. ASSUME \A j \in DOMAIN client[c].queue : ~About(client[c].queue[j], m),
               client[c].view[m] = p
        PROVE  Told(client'[c], m, p)
    BY <1>1, <1>2, <1>4 DEF Told
  <1> QED BY <1>3, <1>4 DEF Told

LEMMA OnBusFrame ==
    ASSUME NEW c \in Client, NEW m \in Msg, KeepsBus,
           PlaceFor(c, m)' = PlaceFor(c, m), OnBus(c, m)
    PROVE  OnBus(c, m)'
  BY DEF OnBus, KeepsBus

LEMMA OnBusTail ==
    ASSUME TypeOK, NEW c \in Client, NEW m \in Msg, bus # <<>>, bus' = Tail(bus),
           UNCHANGED place, OnBus(c, m)
    PROVE  OnBus(c, m)' \/ Tells(bus[1], AddrOf[c], m, PlaceFor(c, m))
  <1>1. \A i \in DOMAIN bus : i = 1 \/ \E j \in DOMAIN bus' : bus'[j] = bus[i]
    BY TakeEffect
  <1>2. PlaceFor(c, m)' = PlaceFor(c, m)
    BY DEF PlaceFor
  <1> QED BY <1>1, <1>2 DEF OnBus

\* A step that leaves alone what m and c have to do with each other.
LEMMA KnowsFrame ==
    ASSUME NEW c \in Client, NEW m \in Msg, Knows(c, m), KeepsBus,
           PlaceFor(c, m)' = PlaceFor(c, m), UNCHANGED hub,
           client'[c].queue = client[c].queue,
           client'[c].view = client[c].view
    PROVE  Knows(c, m)'
  <1>1. OnBus(c, m) => OnBus(c, m)'
    BY OnBusFrame
  <1>2. AtHub(c, m) => AtHub(c, m)'
    BY DEF AtHub
  <1>3. Sends(c, m)' <=> Sends(c, m)
    BY DEF Sends
  <1>4. Outgoing(c, m) => Outgoing(c, m)'
    BY <1>3 DEF Outgoing
  <1>5. Written(c, m) => Written(c, m)'
    BY <1>3 DEF Written, Told
  <1> QED BY <1>1, <1>2, <1>4, <1>5 DEF Knows
LEMMA KnowsMove ==
    ASSUME TypeOK, Routed, NEW c \in Client, client[c].phase = "open",
           NEW a \in Addr, NEW x \in Msg, NEW to \in Place, Move(a, x, to),
           NEW m \in client'[c].owed \ client'[c].misled,
           m \in client[c].owed \ client[c].misled => Knows(c, m)
    PROVE  Knows(c, m)'
  <1>1. /\ SameClient(c) /\ hub' = hub /\ KeepsBus
        /\ \A y \in client'[c].owed : \/ y \in client[c].owed
                                      \/ y = x /\ c \in ClientsOf(a)
        /\ c \in ClientsOf(a) /\ x \in client'[c].owed => listener.up
        /\ place'[a][x] = to
        /\ \A b \in Addr, y \in Msg : b # a \/ y # x => place'[b][y] = place[b][y]
        /\ listener.up => \E i \in DOMAIN bus' :
              /\ bus'[i].addr = a /\ bus'[i].msg = x
              /\ bus'[i].channel \in {"message", "msg_trash"}
              /\ to = "purged" => bus'[i].channel = "msg_trash"
    <2>1. SameClient(c)
      BY MoveEffect
    <2>5. /\ \A y \in client'[c].owed : \/ y \in client[c].owed
                                        \/ y = x /\ c \in ClientsOf(a)
          /\ c \in ClientsOf(a) /\ x \in client'[c].owed => listener.up
      BY MoveEffect
    <2>2. hub' = hub /\ KeepsBus /\ place'[a][x] = to
      BY MoveEffect
    <2>3. \A b \in Addr, y \in Msg : b # a \/ y # x => place'[b][y] = place[b][y]
      BY MoveEffect
    <2>4. listener.up => \E i \in DOMAIN bus' :
             /\ bus'[i].addr = a /\ bus'[i].msg = x
             /\ bus'[i].channel \in {"message", "msg_trash"}
             /\ to = "purged" => bus'[i].channel = "msg_trash"
      BY MoveEffect
    <2> QED BY <2>1, <2>2, <2>3, <2>4, <2>5
  <1>2. AddrOf[c] \in Addr /\ client[c].owed \subseteq Msg /\ m \in Msg
    BY <1>1, ClientAssumption, ClientFields DEF TypeOK
  <1>3. CASE AddrOf[c] = a /\ m = x
    <2>1. c \in ClientsOf(a)
      BY <1>3 DEF ClientsOf, Registered
    <2>2. listener.up
      BY <1>1, <1>3, <2>1
    <2>3. PlaceFor(c, m)' = to
      BY <1>1, <1>3 DEF PlaceFor
    <2>4. OnBus(c, m)'
      BY <1>1, <1>3, <2>2, <2>3 DEF OnBus, Tells
    <2> QED BY <2>4 DEF Knows
  <1>4. CASE ~(AddrOf[c] = a /\ m = x)
    <2>1. m \in client[c].owed \ client[c].misled
      BY <1>1, <1>4 DEF SameClient, ClientsOf
    <2>2. PlaceFor(c, m)' = PlaceFor(c, m)
      BY <1>1, <1>2, <1>4 DEF PlaceFor
    <2> QED BY <1>1, <1>2, <2>1, <2>2, KnowsFrame DEF SameClient
  <1> QED BY <1>3, <1>4

LEMMA KnowsReceive ==
    ASSUME TypeOK, Routed, NEW c \in Client, client[c].phase = "open",
           Receive \/ ReceiveIndicator, NEW m \in Msg, Knows(c, m)
    PROVE  Knows(c, m)'
  <1>1. /\ hub.stage = "wait" /\ bus # <<>> /\ bus' = Tail(bus)
        /\ UNCHANGED <<place, client>>
        /\ \/ hub'.stage = "wait" \/ hub'.stage = "build"
           \/ hub'.stage = "send" /\ hub'.frame.kind = "indicator"
    BY ReceiveEffect, ReceiveIndicatorEffect
  <1>2. ~Sends(c, m) /\ ~Sends(c, m)' /\ PlaceFor(c, m)' = PlaceFor(c, m)
    BY <1>1 DEF Sends, PlaceFor
  <1>3. Written(c, m) => Written(c, m)'
    BY <1>1, <1>2 DEF Written
  <1>4. ~AtHub(c, m) /\ ~Outgoing(c, m)
    BY <1>1, <1>2 DEF AtHub, Outgoing
  <1>5. ASSUME Tells(bus[1], AddrOf[c], m, PlaceFor(c, m))
        PROVE  AtHub(c, m)'
    <2>1. bus[1].addr = AddrOf[c] /\ bus[1].channel # "indicator"
      BY <1>5 DEF Tells
    <2>2. c \in ClientsOf(bus[1].addr)
      BY <2>1 DEF ClientsOf, Registered
    <2>3. Receive
      BY <2>1, ReceiveIndicatorEffect
    <2>4. hub'.stage = "build" /\ hub'.note = bus[1]
          /\ hub'.to = ClientsOf(bus[1].addr)
      BY <2>2, <2>3, ReceiveEffect
    <2> QED BY <1>2, <1>5, <2>2, <2>4 DEF AtHub
  <1>6. OnBus(c, m) => OnBus(c, m)' \/ AtHub(c, m)'
    BY <1>1, <1>5, OnBusTail
  <1> QED BY <1>3, <1>4, <1>6 DEF Knows

LEMMA KnowsBuild ==
    ASSUME TypeOK, Routed, NEW c \in Client, NEW ok \in BOOLEAN, Build(ok),
           NEW m \in Msg, m \notin client'[c].misled, Knows(c, m)
    PROVE  Knows(c, m)'
  <1> PICK n : n = hub.note
    OBVIOUS
  <1> PICK at : at = place[n.addr][n.msg]
    OBVIOUS
  <1>1. /\ hub.stage = "build" /\ n \in Note
        /\ \/ /\ hub'.stage = "wait" /\ hub'.to = {}
              /\ n.channel # "msg_trash" /\ (~ok \/ at = "purged")
           \/ /\ hub'.stage = "send" /\ hub'.to = hub.to /\ hub'.note = n
              /\ hub'.frame \in Frame /\ hub'.frame.msg = n.msg
              /\ \/ /\ hub'.frame.kind = "item" /\ hub'.frame.place = at
                    /\ ok /\ at # "purged"
                 \/ /\ hub'.frame.kind = "gone"
                    /\ hub'.frame.place = "purged" /\ (ok => at = "purged")
        /\ UNCHANGED <<place, bus>>
    BY BuildEffect
  <1>2. /\ client'[c].queue = client[c].queue
        /\ client'[c].view = client[c].view
        /\ c \in hub.to /\ ~ok /\ at # "purged" => n.msg \in client'[c].misled
    BY BuildClients
  <1>3. c \in hub.to => AddrOf[c] = n.addr
    BY <1>1 DEF Routed
  <1>4. PlaceFor(c, m)' = PlaceFor(c, m) /\ ~Sends(c, m)
    BY <1>1 DEF PlaceFor, Sends
  <1>5. CASE c \in hub.to /\ n.msg = m
    <2>1. at = PlaceFor(c, m)
      BY <1>3, <1>5 DEF PlaceFor
    <2>2. ok \/ at = "purged"
      BY <1>2, <1>5
    <2>3. CASE hub'.stage = "send"
      <3>1. hub'.to = hub.to /\ hub'.frame.msg = m
            /\ hub'.frame.kind # "indicator" /\ hub'.frame.place = at
        BY <1>1, <1>5, <2>2, <2>3
      <3> QED BY <1>4, <1>5, <2>1, <2>3, <3>1 DEF Knows, Outgoing, Sends
    <2>4. CASE hub'.stage = "wait"
      <3>1. at = "purged" /\ n.channel # "msg_trash"
        BY <1>1, <2>2, <2>4
      <3>2. ~AtHub(c, m)
        BY <2>1, <3>1 DEF AtHub, Tells
      <3>3. ~Sends(c, m)' /\ ~Outgoing(c, m)
        BY <1>4, <2>4 DEF Sends, Outgoing
      <3>4. Written(c, m) => Written(c, m)'
        BY <1>2, <1>4, <3>3 DEF Written, Told
      <3>5. OnBus(c, m) => OnBus(c, m)'
        BY <1>1, <1>4 DEF OnBus
      <3> QED BY <3>2, <3>3, <3>4, <3>5 DEF Knows
    <2> QED BY <1>1, <2>3, <2>4
  <1>6. CASE ~(c \in hub.to /\ n.msg = m)
    <2>1. ~Sends(c, m)' /\ ~Outgoing(c, m) /\ ~AtHub(c, m)
      BY <1>1, <1>4, <1>6 DEF Sends, Outgoing, AtHub, Tells
    <2>2. Written(c, m) => Written(c, m)'
      BY <1>2, <1>4, <2>1 DEF Written, Told
    <2>3. OnBus(c, m) => OnBus(c, m)'
      BY <1>1, <1>4 DEF OnBus
    <2> QED BY <2>1, <2>2, <2>3 DEF Knows
  <1> QED BY <1>5, <1>6
LEMMA KnowsSend ==
    ASSUME TypeOK, Routed, NEW o \in Client, SendTo(o),
           NEW c \in Client, client[c].phase = "open", client'[c].phase = "open",
           NEW m \in Msg, Knows(c, m)
    PROVE  Knows(c, m)'
  <1>1. /\ hub.stage = "send" /\ o \in hub.to /\ hub.frame \in Frame
        /\ hub'.to = hub.to \ {o}
        /\ \/ hub'.stage = "wait" /\ hub'.to = {}
           \/ hub'.stage = "send" /\ hub'.frame = hub.frame
        /\ UNCHANGED <<place, bus>>
    BY SendToEffect
  <1>2. PlaceFor(c, m)' = PlaceFor(c, m)
    BY <1>1 DEF PlaceFor
  <1>3. OnBus(c, m) => OnBus(c, m)'
    BY <1>1, <1>2 DEF OnBus
  <1>4. ~AtHub(c, m)
    BY <1>1 DEF AtHub
  <1>5. CASE c # o
    <2>1. client'[c] = client[c]
      BY <1>5, SendToClients
    <2>2. Sends(c, m)' <=> Sends(c, m)
      BY <1>1, <1>5 DEF Sends
    <2>3. Outgoing(c, m) => Outgoing(c, m)'
      BY <1>1, <1>2, <2>2 DEF Outgoing, Sends
    <2>4. Written(c, m) => Written(c, m)'
      BY <1>2, <2>1, <2>2 DEF Written
    <2> QED BY <1>3, <1>4, <2>3, <2>4 DEF Knows
  <1>6. CASE c = o
    <2>1. /\ client'[c].queue = Append(client[c].queue, hub.frame)
          /\ client'[c].view = client[c].view
      BY <1>6, SendToClients DEF Registered
    <2>2. ~Sends(c, m)'
      BY <1>1, <1>6 DEF Sends
    <2>3. Sends(c, m) <=> About(hub.frame, m)
      BY <1>1, <1>6 DEF Sends, About
    <2> PICK p : p = PlaceFor(c, m)
      OBVIOUS
    <2>4. Outgoing(c, m) \/ Written(c, m) => Told(client'[c], m, p)
      <3>1. Outgoing(c, m) => About(hub.frame, m) /\ hub.frame.place = p
        BY <2>3 DEF Outgoing
      <3>2. Written(c, m) => ~About(hub.frame, m) /\ Told(client[c], m, p)
        BY <2>3 DEF Written
      <3> QED BY <1>1, <2>1, <3>1, <3>2, ToldAppend
    <2>5. Outgoing(c, m) \/ Written(c, m) => Written(c, m)'
      BY <1>2, <2>2, <2>4 DEF Written
    <2> QED BY <1>3, <1>4, <2>5 DEF Knows
  <1> QED BY <1>5, <1>6

LEMMA KnowsWrite ==
    ASSUME TypeOK, NEW c \in Client, WriteFrame(c), NEW m \in Msg, Knows(c, m)
    PROVE  Knows(c, m)'
  <1>1. UNCHANGED <<place, bus, hub>>
    BY WriteEffect DEF OneClient
  <1>2. /\ PlaceFor(c, m)' = PlaceFor(c, m)
        /\ Sends(c, m)' <=> Sends(c, m)
    BY <1>1 DEF PlaceFor, Sends
  <1>3. /\ OnBus(c, m) => OnBus(c, m)'
        /\ AtHub(c, m) => AtHub(c, m)'
        /\ Outgoing(c, m) => Outgoing(c, m)'
    BY <1>1, <1>2 DEF OnBus, AtHub, Outgoing
  <1>4. Written(c, m) => Written(c, m)'
    <2> PICK p : p = PlaceFor(c, m)
      OBVIOUS
    <2>1. Written(c, m) => Told(client'[c], m, p)
      BY ToldTail DEF Written
    <2> QED BY <1>2, <2>1 DEF Written
  <1> QED BY <1>3, <1>4 DEF Knows

LEMMA WillKnowStep ==
    TypeOK /\ Routed /\ WillKnow /\ [Next]_vars => WillKnow'
  <1> SUFFICES ASSUME TypeOK, Routed, WillKnow, [Next]_vars,
                      NEW o \in Client, client'[o].phase = "open",
                      NEW m \in client'[o].owed \ client'[o].misled
               PROVE  Knows(o, m)'
    BY DEF WillKnow
  <1>1. client[o].phase = "open" /\ m \in client[o].owed \ client[o].misled
            => m \in Msg /\ Knows(o, m)
    BY ClientFields DEF WillKnow, TypeOK
  \* Steps that concern neither the listener nor o's queue.
  <1>2. ASSUME KeepsBus, UNCHANGED <<place, hub>>,
               \/ client'[o] = client[o]
               \/ SameClient(o) /\ client'[o].owed = client[o].owed
        PROVE  Knows(o, m)'
    <2>1. /\ client[o].phase = "open" /\ m \in client[o].owed \ client[o].misled
          /\ client'[o].queue = client[o].queue
          /\ client'[o].view = client[o].view
      BY <1>2 DEF SameClient
    <2>2. PlaceFor(o, m)' = PlaceFor(o, m)
      BY <1>2 DEF PlaceFor
    <2> QED BY <1>1, <1>2, <2>1, <2>2, KnowsFrame
  <1>3. CASE Idle
    BY <1>2, <1>3 DEF Idle
  <1>4. ASSUME NEW a \in Addr, NEW x \in Msg, NEW to \in Place, Move(a, x, to)
        PROVE  Knows(o, m)'
    <2>1. client[o].phase = "open"
      BY <1>4, MoveEffect DEF SameClient
    <2> QED BY <1>1, <1>4, <2>1, KnowsMove
  <1>5. CASE ListenerDrops
    BY <1>5, DropEffect
  <1>6. CASE Receive \/ ReceiveIndicator
    <2>1. UNCHANGED client
      BY <1>6, ReceiveEffect, ReceiveIndicatorEffect
    <2> QED BY <1>1, <1>6, <2>1, KnowsReceive
  <1>7. ASSUME NEW ok \in BOOLEAN, Build(ok)
        PROVE  Knows(o, m)'
    <2>1. /\ client'[o].phase = client[o].phase
          /\ client'[o].owed = client[o].owed
          /\ client[o].misled \subseteq client'[o].misled
      BY <1>7, BuildClients
    <2> QED BY <1>1, <1>7, <2>1, KnowsBuild
  <1>8. ASSUME NEW c \in Client, SendTo(c)
        PROVE  Knows(o, m)'
    <2>1. /\ client[o].phase = "open"
          /\ client'[o].owed = client[o].owed
          /\ client'[o].misled = client[o].misled
      BY <1>8, SendToClients DEF Registered
    <2> QED BY <1>1, <1>8, <2>1, KnowsSend
  <1>9. CASE WriterEnds(o)
    BY <1>2, <1>9, WriterEndsEffect DEF OneClient, KeepsBus
  <1>10. CASE Expire(o) \/ ReadEnds(o)
    BY <1>10, ExpireEffect, ReadEndsEffect
  <1>11. CASE Connect(o)
    <2>1. client[o].phase = "off" /\ client'[o].owed = client[o].owed
      BY <1>11, ConnectEffect
    <2>2. client[o] = NoConnection("off")
      BY <2>1 DEF Routed
    <2> QED BY <2>1, <2>2, NoConnectionType
  <1>12. CASE WriteFrame(o)
    <2>1. /\ client[o].phase = "open"
          /\ client'[o].owed = client[o].owed
          /\ client'[o].misled = client[o].misled
      BY <1>12, WriteEffect
    <2> QED BY <1>1, <1>12, <2>1, KnowsWrite
  <1>13. ASSUME NEW c \in Client, c # o,
                \/ Connect(c) \/ Expire(c) \/ WriteFrame(c)
                \/ WriterEnds(c) \/ ReadEnds(c)
         PROVE  Knows(o, m)'
    <2>1. OneClient(c)
      BY <1>13, ConnectEffect, ExpireEffect, WriteEffect, WriterEndsEffect,
         ReadEndsEffect
    <2> QED BY <1>2, <1>13, <2>1 DEF OneClient, KeepsBus
  <1> QED BY <1>3, <1>4, <1>5, <1>6, <1>7, <1>8, <1>9, <1>10, <1>11, <1>12,
             <1>13, StepCases

LEMMA WillKnowInit == Init => WillKnow
  BY NoConnectionType DEF Init, WillKnow

\* CaughtUp, for any number of connections, notifications and messages and
\* whatever the queue length: once everything notified has been routed and
\* written, an open connection shows where each message it is owed stands.
THEOREM OpenConnectionsCatchUp == Spec => []CaughtUp
  <1>1. TypeOK /\ WillKnow => CaughtUp
    <2> SUFFICES ASSUME TypeOK, WillKnow, bus = <<>>, hub.stage = "wait",
                        NEW c \in Client, client[c].phase = "open",
                        client[c].queue = <<>>,
                        NEW m \in client[c].owed \ client[c].misled
                 PROVE  client[c].view[m] = place[AddrOf[c]][m]
      BY DEF CaughtUp
    <2>1. Knows(c, m)
      BY DEF WillKnow
    <2>2. ~OnBus(c, m) /\ ~AtHub(c, m) /\ ~Outgoing(c, m)
      BY DEF OnBus, AtHub, Outgoing, Sends
    <2>3. Told(client[c], m, PlaceFor(c, m))
      BY <2>1, <2>2 DEF Knows, Written
    <2> QED BY <2>3 DEF Told, PlaceFor
  <1> QED BY <1>1, TypeInit, TypeStep, RoutedInit, RoutedStep, WillKnowInit,
             WillKnowStep, PTL DEF Spec
=============================================================================
