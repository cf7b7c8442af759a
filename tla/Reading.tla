------------------------------ MODULE Reading -------------------------------
(***************************************************************************)
(* What the read routes answer: the inbox and sent lists, the number of    *)
(* threads, one message, its files and its lineage.  Each route is a query *)
(* of its own over the tables and the trash of one address (visibleAddrs); *)
(* an operator below is one route's answer in a state of Messages.         *)
(***************************************************************************)
EXTENDS Messages

CONSTANT MaxHops   \* threadMaxHops

ASSUME HopsAssumption == MaxHops \in Nat \ {0}

Modes == {"exclude", "include", "only"}

\* trashListFilter
Filter(state, mode) ==
    CASE mode = "exclude" -> state = "none"
      [] mode = "include" -> state # "purged"
      [] mode = "only"    -> state \in {"message", "thread"}

\* anyRecipient, anyAddToContains
IsRecipient(a, m) == \E t \in Table : msg[m].rows[t][a] # "absent"

\* draftHidden: a draft is its sender's alone; no row, no message.
Hidden(a, m) ==
    \/ msg[m].phase \in {"none", "removed"}
    \/ msg[m].phase = "draft" /\ msg[m].from # a

\* GET /fmsg
List(a, mode) ==
    {m \in Msg : /\ IsSent(m)
                 /\ IsRecipient(a, m)
                 /\ Filter(TrashState(a, m), mode)}

\* GET /fmsg/sent: drafts too, which have no trash state here.
SentList(a, mode) ==
    {m \in Msg : /\ msg[m].from = a
                 /\ Filter(IF IsSent(m) THEN TrashState(a, m) ELSE "none",
                           mode)}

\* Mutant of Count: a thread is counted where it begins.
CountOfRoots(a, mode) ==
    Cardinality({m \in Msg : /\ IsSent(m)
                             /\ Participates(a, m)
                             /\ Filter(TrashState(a, m), mode)
                             /\ msg[m].pid = NoMsg})

\* GET /fmsg/count: visible messages whose parent is not visible.
Count(a, mode) ==
    LET vis == {m \in Msg : /\ IsSent(m)
                            /\ Participates(a, m)
                            /\ Filter(TrashState(a, m), mode)} IN
    Cardinality({m \in vis : msg[m].pid \notin vis})

\* GET /fmsg/:id answers with the message.
Get(a, m) ==
    /\ ~Hidden(a, m)
    /\ msg[m].from = a \/ IsRecipient(a, m)
    /\ TrashState(a, m) # "purged"

\* Mutant of DownloadData: the trash is not looked at.
DownloadDataAnyway(a, m) ==
    /\ ~Hidden(a, m)
    /\ msg[m].from = a \/ IsRecipient(a, m)

\* GET /fmsg/:id/data may read the body.
DownloadData(a, m) ==
    /\ ~Hidden(a, m)
    /\ ~PurgedFor(a, m)
    /\ msg[m].from = a \/ IsRecipient(a, m)

\* GET /fmsg/:id/attach/:filename may read the attachments.
Download(a, m) ==
    /\ ~Hidden(a, m)
    /\ ~PurgedFor(a, m)
    /\ msg[m].from = a \/ IsRecipient(a, m)

-----------------------------------------------------------------------------
(***************************************************************************)
(* Threads: the lineage of a message, cut off after so many hops           *)
(***************************************************************************)

\* How many replies lie between m and x, one of those above it.
Depth(m, x) == Cardinality(Up(m) \ Up(x))

\* The recursive query: m and what is at most hops above it.
Chain(m, hops) == {x \in Up(m) : Depth(m, x) <= hops}

\* The root of what the query found, its first row.
First(chain) == CHOOSE x \in chain : \A y \in chain : x \in Up(y)

\* The readable column of both queries.
Readable(a, x) ==
    /\ msg[x].from = a \/ (IsSent(x) /\ IsRecipient(a, x))
    /\ TrashState(a, x) # "purged"

\* GET /fmsg/:id/thread answers: its gate is the message itself.
ThreadText(a, m) == ~PurgedFor(a, m) /\ Readable(a, m)

\* renderThreadText: the lines that say "message not visible to you".
Placeholders(a, m) == {x \in Chain(m, MaxHops) : ~Readable(a, x)}

\* Mutant of ThreadMessages: a lineage of the largest length is taken whole.
ThreadMessagesAnyLength(a, m) ==
    /\ ~PurgedFor(a, m)
    /\ Readable(a, m)

\* GET /fmsg/:id/thread/messages answers: not when the lineage is cut off.
\* (Texts too large together, or a body that cannot be read, end it as well;
\* then it shows nothing.)
ThreadMessages(a, m) ==
    LET chain == Chain(m, MaxHops - 1) IN
    /\ ~PurgedFor(a, m)
    /\ Readable(a, m)
    /\ ~(Cardinality(chain) = MaxHops /\ msg[First(chain)].pid # NoMsg)

\* loadThreadRelations, populateThreadBodies: whose content is in the answer.
Contents(a, m) == {x \in Chain(m, MaxHops - 1) : Readable(a, x)}

\* The answer's complete flag: nothing in it was blanked.
Complete(a, m) == Contents(a, m) = Chain(m, MaxHops - 1)

-----------------------------------------------------------------------------
(***************************************************************************)
(* Properties                                                              *)
(***************************************************************************)

\* What the lists show in a mode, drafts aside.
Listed(a, mode) == {m \in List(a, mode) \cup SentList(a, mode) : IsSent(m)}

\* Clients draw listed messages into one thread when one replies to the other:
\* the least parts of S that no reply leads out of or into.
ThreadsOf(S) ==
    LET whole == {T \in (SUBSET S) \ {{}} : \A y \in S :
                     msg[y].pid \in S => (y \in T <=> msg[y].pid \in T)} IN
    {T \in whole : \A U \in whole : U \subseteq T => U = T}

\* The count is the number of threads a client draws from the lists it has
\* paged in, in every mode, also when the top or the middle of a thread is in
\* the trash or not the caller's to see (Count, README on GET /fmsg/count).
CountIsThreads ==
    \A a \in Local, mode \in Modes :
        Count(a, mode) = Cardinality(ThreadsOf(Listed(a, mode)))

\* Only its own deletes hide a message from an address: while nothing in its
\* lineage was deleted for good by the address itself, the lists have it and
\* every route answers, whatever others purge, restore or remove.
KeptIsReadable ==
    \A a \in Local, m \in Msg :
        /\ IsSent(m)
        /\ Participates(a, m)
        /\ Up(m) \cap forGood[a] = {}
        => /\ m \in Listed(a, "include")
           /\ Get(a, m) /\ DownloadData(a, m) /\ Download(a, m)
           /\ ThreadText(a, m)

\* What an address deleted for good, and whatever replies to it while it is on
\* the host, is in no list and on no route, nor in the thread of another
\* message, for it (README, Trash: "every route answers 404").
DeletedIsUnreadable ==
    \A a \in Local, m \in Msg :
        IsSent(m) /\ Up(m) \cap forGood[a] # {} =>
            /\ \A mode \in Modes : m \notin Listed(a, mode)
            /\ ~(Get(a, m) \/ DownloadData(a, m) \/ Download(a, m))
            /\ \A x \in Msg :
                  /\ ThreadMessages(a, x) => m \notin Contents(a, x)
                  /\ ThreadText(a, x) =>
                        m \notin Chain(x, MaxHops) \ Placeholders(a, x)

\* In a thread the caller may read, only what the caller takes no part in is a
\* placeholder: a purge above would have hidden the message asked for too
\* (ThreadText: "a recipient added mid-thread cannot read what came before").
ThreadHidesOnlyOthers ==
    \A a \in Local, m \in Msg :
        ThreadText(a, m) =>
            \A x \in Placeholders(a, m) : ~Participates(a, x)

\* A structured thread that calls itself complete holds every message of the
\* lineage up to its root (ThreadMessages, 422 when it is longer).
CompleteIsWhole ==
    \A a \in Local, m \in Msg :
        ThreadMessages(a, m) /\ Complete(a, m) => Contents(a, m) = Up(m)
=============================================================================
