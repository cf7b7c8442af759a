-------------------------------- MODULE Marks -------------------------------
(***************************************************************************)
(* What participants leave on a sent message: the time a recipient read it *)
(* (MarkRead) and reactions (React, and those the host receives).  React   *)
(* runs under the lock of the message and is one action; MarkRead has no   *)
(* transaction, so requests of one reader, from two devices, interleave    *)
(* between its statements.  Who may mark or react, and the reaction as a   *)
(* message to deliver, are in Messages.                                    *)
(***************************************************************************)
EXTENDS Naturals, FiniteSets, SequencesExt

CONSTANTS
    Local,     \* local participants who react
    Remote,    \* participants whose reactions are received
    Emoji,     \* single emojis
    Cleared,   \* the empty reaction
    None,      \* no row, no request
    Hash,      \* hashes of reactions, which are compared as bytes
    Req,       \* MarkRead requests that can run at the same time (inputs)
    MaxTime,   \* the last microsecond told apart (bounds the inputs)
    MaxRows    \* reactions stored (bounds the inputs)

ASSUME MarksAssumption == /\ Cleared \notin Emoji /\ Local \cap Remote = {}
                          /\ Hash \subseteq Nat
                          /\ MaxTime \in Nat \ {0} /\ MaxRows \in Nat

VARIABLES
    read,       \* time_read of the reader's row in each recipient table
    req,        \* MarkRead requests running: the table to write, the time
    reactions,  \* reactions stored on the message
    clock,      \* the host's wall clock
    said,       \* history: times MarkRead answered with
    crossed,    \* history: two requests of the reader's ran at the same time
    want,       \* history: the reaction last asked for and granted, by address
    unsure,     \* history: addresses with a reaction not granted since commit
    setBack,    \* history: the clock was set back
    focus       \* what a behaviour is about (bounds the inputs): MarkRead and
                \* React share no row, so mixing them would add nothing

readVars == <<read, req, said, crossed>>
reactVars == <<reactions, want, unsure>>
vars == <<readVars, reactVars, clock, setBack, focus>>

Time     == 1 .. MaxTime
Null     == 0
Reaction == Emoji \cup {Cleared}

\* msg_to and msg_add_to.
Table == {"to", "addTo"}

\* A MarkRead request: which UPDATE comes next, and the time of the first.
Request == [at : {1, 2}, now : Time \cup {Null}]

ASSUME NoneAssumption == None \notin Time \cup {Null} \cup Request

\* A reaction.  Only how the hashes of one address's reactions compare
\* matters, and those of the same time are different.
Row == [id : 1 .. MaxRows, from : Local \cup Remote, time : Time,
        hash : Hash, emoji : Reaction]

TypeOK ==
    /\ read \in [Table -> Time \cup {Null, None}]
    /\ req \in [Req -> Request \cup {None}]
    /\ reactions \subseteq Row
    /\ clock \in Time
    /\ said \subseteq Time
    /\ crossed \in BOOLEAN
    /\ want \in [Local -> Reaction]
    /\ unsure \subseteq Local
    /\ setBack \in BOOLEAN
    /\ focus \in {"read", "react"}

\* The reader is an original recipient, or was added.
Init ==
    /\ \E row \in Table :
          read = [t \in Table |-> IF t = row THEN Null ELSE None]
    /\ req = [r \in Req |-> None]
    /\ reactions = {}
    /\ clock = 1
    /\ said = {}
    /\ crossed = FALSE
    /\ want = [a \in Local |-> Cleared]
    /\ unsure = {}
    /\ setBack = FALSE
    /\ focus \in {"read", "react"}
    /\ focus = "react" => read.to = Null

Tick ==
    /\ clock < MaxTime
    /\ clock' = clock + 1
    /\ UNCHANGED <<readVars, reactVars, setBack>>

\* Somebody, or NTP, sets the wall clock back.
SetBack ==
    /\ clock > 1
    /\ clock' = clock - 1
    /\ setBack' = TRUE
    /\ UNCHANGED <<readVars, reactVars>>

-----------------------------------------------------------------------------
(***************************************************************************)
(* MarkRead                                                                *)
(***************************************************************************)

Coalesce(x, y) == IF x \in Time THEN x ELSE IF y \in Time THEN y ELSE Null

\* The lookup of MarkRead.
TimeRead == Coalesce(read.to, read.addTo)

\* time_read of the reader's lists and of Get.
ShownTimeRead == Coalesce(read.to, read.addTo)

\* The table each of the two UPDATEs writes.  Mutant: the other way round.
SwappedTables == <<"addTo", "to">>

Tables == <<"to", "addTo">>

\* The lookup; a message read already is answered at once.
MarkRead(r) ==
    /\ req[r] = None
    /\ \/ /\ TimeRead # Null
          /\ said' = said \cup {TimeRead}
          /\ UNCHANGED <<req, crossed>>
       \/ /\ TimeRead = Null
          /\ req' = [req EXCEPT ![r] = [at |-> 1, now |-> Null]]
          /\ crossed' = (crossed \/ \E q \in Req : req[q] # None)
          /\ UNCHANGED said
    /\ UNCHANGED <<read, reactVars, clock, setBack>>

\* One UPDATE ... WHERE time_read IS NULL, the first with the time it is now;
\* after the second the request answers with that time, stored or not.
UpdateRead(r) ==
    /\ req[r] # None
    /\ LET now == IF req[r].at = 1 THEN clock ELSE req[r].now IN
       /\ read' = [read EXCEPT ![Tables[req[r].at]] = IF @ = Null THEN now ELSE @]
       /\ \/ /\ req[r].at = 1
             /\ req' = [req EXCEPT ![r] = [at |-> 2, now |-> now]]
             /\ UNCHANGED said
          \/ /\ req[r].at = 2
             /\ req' = [req EXCEPT ![r] = None]
             /\ said' = said \cup {now}
    /\ UNCHANGED <<crossed, reactVars, clock, setBack>>

\* A statement fails: the request answers with an error.
MarkReadFails(r) ==
    /\ req[r] # None
    /\ req' = [req EXCEPT ![r] = None]
    /\ UNCHANGED <<read, said, crossed, reactVars, clock, setBack>>

\* AddTo adds the reader, who may be an original recipient.
AddReader ==
    /\ read.addTo = None
    /\ read' = [read EXCEPT !.addTo = Null]
    /\ UNCHANGED <<req, said, crossed, reactVars, clock, setBack>>

-----------------------------------------------------------------------------
(***************************************************************************)
(* Reactions                                                               *)
(***************************************************************************)

\* Mutant of NewerReaction: the hash alone decides.
NewerByHash(a, b) == a.hash > b.hash

NewerReaction(a, b) ==
    IF a.time # b.time THEN a.time > b.time ELSE a.hash > b.hash

\* ORDER BY time_sent, id: so many rows come before the i-th.
Before(a, b) == \/ a.time < b.time
                \/ a.time = b.time /\ a.id < b.id

Ordered(rows) ==
    [i \in 1 .. Cardinality(rows) |->
        CHOOSE x \in rows : Cardinality({y \in rows : Before(y, x)}) = i - 1]

\* Mutant of LoadReactionRows: empty bodies are no reactions.
LoadSetReactions(rows) == Ordered({x \in rows : x.emoji # Cleared})

LoadReactionRows(rows) == Ordered(rows)

\* effectiveReactions: the newest row of each reactor, and the groups of those
\* that are not empty.
Keep(newest, x) ==
    IF x.from \in DOMAIN newest /\ ~NewerReaction(x, newest[x.from])
    THEN newest
    ELSE [a \in DOMAIN newest \cup {x.from} |-> IF a = x.from THEN x ELSE newest[a]]

Reduced(rows) ==
    LET seq == LoadReactionRows(rows)
        newest[i \in 0 .. Len(seq)] ==
            IF i = 0 THEN << >> ELSE Keep(newest[i - 1], seq[i])
    IN  newest[Len(seq)]

Group(groups, x) ==
    IF \E i \in DOMAIN groups : groups[i].emoji = x.emoji
    THEN [i \in DOMAIN groups |->
            IF groups[i].emoji = x.emoji
            THEN [groups[i] EXCEPT !.from = Append(@, x.from)] ELSE groups[i]]
    ELSE Append(groups, [emoji |-> x.emoji, from |-> <<x.from>>])

Grouped(seq) ==
    LET groups[i \in 0 .. Len(seq)] ==
            IF i = 0 THEN << >> ELSE Group(groups[i - 1], seq[i])
    IN  groups[Len(seq)]

EffectiveReactions(rows) ==
    Grouped(Ordered({x \in Range(Reduced(rows)) : x.emoji # Cleared}))

\* React's own reduction of the caller's rows: none, or the newest.
Current(a) ==
    LET newest == Reduced({x \in reactions : x.from = a}) IN
    {newest[b] : b \in DOMAIN newest}

\* Mutant of Store: in the next microsecond.
StoreLater(a, time, emoji) ==
    /\ Cardinality(reactions) < MaxRows
    /\ \E hash \in Hash :
          reactions' = reactions \cup
              {[id |-> Cardinality(reactions) + 1, from |-> a, time |-> time + 1,
                hash |-> hash, emoji |-> emoji]}

Store(a, time, emoji) ==
    /\ Cardinality(reactions) < MaxRows
    /\ \E hash \in Hash :
          /\ \A x \in reactions : x.from = a /\ x.time = time => x.hash # hash
          /\ reactions' = reactions \cup
                 {[id |-> Cardinality(reactions) + 1, from |-> a, time |-> time,
                   hash |-> hash, emoji |-> emoji]}

\* A repeat of the caller's reaction, or clearing nothing, sends nothing.
Repeats(a, emoji) ==
    IF Current(a) = {} THEN emoji = Cleared
    ELSE \E x \in Current(a) : x.emoji = emoji

ReactAgain(a, emoji) ==
    /\ Repeats(a, emoji)
    /\ want' = [want EXCEPT ![a] = emoji]
    /\ unsure' = unsure \ {a}
    /\ UNCHANGED <<readVars, reactions, clock, setBack>>

\* The transaction takes more than a microsecond.  When the acknowledgement of
\* its commit is lost, the request answers with an error.
React(a, emoji, acknowledged) ==
    /\ ~Repeats(a, emoji)
    /\ clock < MaxTime
    /\ clock' = clock + 1
    /\ Store(a, clock, emoji)
    /\ want' = IF acknowledged THEN [want EXCEPT ![a] = emoji] ELSE want
    /\ unsure' = IF acknowledged THEN unsure \ {a} ELSE unsure \cup {a}
    /\ UNCHANGED <<readVars, setBack>>

\* The host (external) stores a reaction it received, in whatever order.
Receive(a, time, emoji) ==
    /\ Store(a, time, emoji)
    /\ UNCHANGED <<readVars, want, unsure, clock, setBack>>

-----------------------------------------------------------------------------
Reading ==
    \/ AddReader
    \/ \E r \in Req : MarkRead(r) \/ UpdateRead(r) \/ MarkReadFails(r)

Reacting ==
    \/ \E a \in Local, e \in Reaction :
          ReactAgain(a, e) \/ \E ack \in BOOLEAN : React(a, e, ack)
    \/ \E a \in Remote, t \in Time, e \in Reaction : Receive(a, t, e)

Next ==
    /\ \/ Tick \/ SetBack
       \/ focus = "read" /\ Reading
       \/ focus = "react" /\ Reacting
    /\ UNCHANGED focus

Spec == Init /\ [][Next]_vars

-----------------------------------------------------------------------------
(***************************************************************************)
(* Properties                                                              *)
(***************************************************************************)

\* Once anybody could see that the message was read, the time it was read
\* never changes, although two requests write two tables and the reader may
\* be in both.  MarkRead answers with that time, the first time and again
\* later ("returns the original time_read"), unless two of the reader's
\* requests ran at the same time: of those, the one that wrote nothing answers
\* with its own time too.
ReadTimeStands ==
    [][/\ ShownTimeRead # Null => ShownTimeRead' = ShownTimeRead
       /\ ~crossed' => said' \subseteq {ShownTimeRead'}]_vars

\* The rows of a that no other row of a's supersedes.
NewestOf(a) ==
    LET own == {x \in reactions : x.from = a} IN
    {x \in own : \A y \in own : \/ y.time < x.time
                                \/ y.time = x.time /\ y.hash <= x.hash}

\* The reactions shown are, for every participant, the newest they sent and
\* nothing else, in whatever order the rows arrived (so that every host shows
\* the same), with no emoji in two groups; a newest one that is empty hides
\* the older ones (effectiveReactions).
ShowsTheNewest ==
    LET groups == EffectiveReactions(reactions) IN
    /\ \A i, j \in DOMAIN groups :
          i # j => /\ groups[i].emoji # groups[j].emoji
                   /\ Range(groups[i].from) \cap Range(groups[j].from) = {}
    /\ \A i \in DOMAIN groups : IsInjective(groups[i].from)
    /\ \A a \in Local \cup Remote :
          {g.emoji : g \in {h \in Range(groups) : a \in Range(h.from)}}
              = {x.emoji : x \in NewestOf(a)} \ {Cleared}

\* The reaction an address last asked for and was granted is the one shown,
\* also when React answered that there was nothing to send, unless a reaction
\* it was told had failed was stored, or the clock was set back (React).
GrantedIsShown ==
    ~setBack => \A a \in Local \ unsure :
        {x.emoji : x \in NewestOf(a)} \ {Cleared} = {want[a]} \ {Cleared}
=============================================================================
