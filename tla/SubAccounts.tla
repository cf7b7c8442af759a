---------------------------- MODULE SubAccounts -----------------------------
(***************************************************************************)
(* Self-service grants of one owner: the rows of fmsg_api_sub_account, the *)
(* derived addresses fmsgid knows, and the process's cache of fmsgid       *)
(* lookups.  A create or delete is several calls to PostgreSQL and fmsgid  *)
(* with no lock around them, so requests interleave between any two calls. *)
(* Keys, CIDR ranges and tokens are in Access.                             *)
(***************************************************************************)
EXTENDS Naturals, FiniteSets

CONSTANTS
    Agent,    \* names of sub-accounts; each has one derived address
    Req,      \* requests that can run at the same time (bounds the inputs)
    NoAgent,  \* the agent of a request slot that is free
    Max,      \* max_sub_accounts of the owner
    Fresh,    \* agents whose address fmsgid does not know initially
    MayFail   \* whether calls can fail and the process can restart

ASSUME AgentAssumption == NoAgent \notin Agent /\ Fresh \subseteq Agent
ASSUME ReqAssumption   == IsFiniteSet(Req)
ASSUME MaxAssumption   == Max \in Nat \ {0} /\ MayFail \in BOOLEAN

VARIABLES
    grant,      \* agents with a derived_sub_account row
    accepting,  \* accepting_new at fmsgid of each agent's derived address
    cache,      \* fmsgIDCache
    fetching,   \* answer a lookup in flight (fmsgIDGroup) will bring
    req,        \* the requests running
    failed,     \* history: a call failed, or the process restarted
    overlapped  \* history: two requests ran at the same time

vars == <<grant, accepting, cache, fetching, req, failed, overlapped>>

Answer == {"unknown", "yes", "no"}

PC == {"idle", "register", "check", "await", "count", "insert", "undo",
       "disable", "deleteRow"}

Request == [pc : PC, agent : Agent \cup {NoAgent}, reinstated : BOOLEAN]

TypeOK ==
    /\ grant \subseteq Agent
    /\ accepting \in [Agent -> Answer]
    /\ cache \in [Agent -> {"none", "yes", "no"}]
    /\ fetching \in [Agent -> Answer \cup {"none"}]
    /\ req \in [Req -> Request]
    /\ failed \in BOOLEAN
    /\ overlapped \in BOOLEAN

Free == [pc |-> "idle", agent |-> NoAgent, reinstated |-> FALSE]

\* Known addresses are disabled: sub-accounts deleted before.
Init ==
    /\ grant = {}
    /\ accepting = [a \in Agent |-> IF a \in Fresh THEN "unknown" ELSE "no"]
    /\ cache = [a \in Agent |-> "none"]
    /\ fetching = [a \in Agent |-> "none"]
    /\ req = [r \in Req |-> Free]
    /\ failed = FALSE
    /\ overlapped = FALSE

Goto(r, pc) == req' = [req EXCEPT ![r].pc = pc]
Return(r)   == req' = [req EXCEPT ![r] = Free]

\* Mutant of Undone: a failed create leaves a reinstated address as it is.
UndoneNever(q) == Free

\* What becomes of a request that fails: a create that reinstated the address
\* stops it again (the deferred disableAfterFailedCreate).
Undone(q) == IF q.reinstated THEN [q EXCEPT !.pc = "undo"] ELSE Free

Fail(r) == req' = [req EXCEPT ![r] = Undone(@)]

-----------------------------------------------------------------------------
(***************************************************************************)
(* POST /fmsgid.  The change at fmsgid and the removal of the cached       *)
(* lookup are one step: a lookup answered from the cache in between could  *)
(* as well have been answered before.  A call that fails may have been     *)
(* carried out; the cached lookup goes only if an answer arrived.          *)
(***************************************************************************)

Post(a, value) ==
    /\ accepting' = [accepting EXCEPT ![a] = value]
    /\ cache' = [cache EXCEPT ![a] = "none"]
    /\ UNCHANGED failed

PostFails(a, value) ==
    /\ MayFail
    /\ accepting' \in {accepting, [accepting EXCEPT ![a] = value]}
    /\ cache' \in {cache, [cache EXCEPT ![a] = "none"]}
    /\ failed' = TRUE

-----------------------------------------------------------------------------
(***************************************************************************)
(* POST /fmsg/sub-accounts                                                 *)
(***************************************************************************)

\* A request for a begins in slot r, at pc.
Begin(r, a, pc) ==
    /\ req[r].pc = "idle"
    /\ req' = [req EXCEPT ![r] = [Free EXCEPT !.pc = pc, !.agent = a]]
    /\ overlapped' = (overlapped \/ \E o \in Req : req[o].pc # "idle")

StartCreate(r, a) ==
    /\ Begin(r, a, "register")
    /\ UNCHANGED <<grant, accepting, cache, fetching, failed>>

Register(r) ==
    LET a == req[r].agent IN
    /\ req[r].pc = "register"
    /\ Post(a, "yes")
    /\ req' = [req EXCEPT ![r].pc = "check",
                          ![r].reinstated = accepting[a] = "no"]
    /\ UNCHANGED <<grant, fetching, overlapped>>

RegisterFails(r) ==
    /\ req[r].pc = "register"
    /\ PostFails(req[r].agent, "yes")
    /\ Return(r)
    /\ UNCHANGED <<grant, fetching, overlapped>>

\* Mutant of CountGrants: one more than the limit is let through.
CountGrantsAtMost(r) ==
    /\ req[r].pc = "count"
    /\ IF Cardinality(grant) <= Max THEN Goto(r, "insert") ELSE Fail(r)
    /\ UNCHANGED <<grant, accepting, cache, fetching, failed, overlapped>>

\* createGrant: the owner's rows are counted, then one is inserted; the
\* transaction is READ COMMITTED and locks nothing in between.
CountGrants(r) ==
    /\ req[r].pc = "count"
    /\ IF Cardinality(grant) < Max THEN Goto(r, "insert") ELSE Fail(r)
    /\ UNCHANGED <<grant, accepting, cache, fetching, failed, overlapped>>

InsertGrant(r) ==
    LET a == req[r].agent IN
    /\ req[r].pc = "insert"
    /\ IF a \in grant THEN Fail(r) ELSE Return(r)
    /\ grant' = grant \cup {a}
    /\ UNCHANGED <<accepting, cache, fetching, failed, overlapped>>

\* The database fails, or its answer is lost after it committed.
StoreFails(r) ==
    LET q == req[r] IN
    /\ MayFail
    /\ \/ q.pc = "count" /\ grant' = grant
       \/ q.pc = "insert" /\ grant' \in {grant, grant \cup {q.agent}}
       \/ q.pc = "deleteRow" /\ grant' \in {grant, grant \ {q.agent}}
    /\ Fail(r)
    /\ failed' = TRUE
    /\ UNCHANGED <<accepting, cache, fetching, overlapped>>

Undo(r) ==
    /\ req[r].pc = "undo"
    /\ Post(req[r].agent, "no")
    /\ Return(r)
    /\ UNCHANGED <<grant, fetching, overlapped>>

UndoFails(r) ==
    /\ req[r].pc = "undo"
    /\ PostFails(req[r].agent, "no")
    /\ Return(r)
    /\ UNCHANGED <<grant, fetching, overlapped>>

-----------------------------------------------------------------------------
(***************************************************************************)
(* CheckFmsgID: the cache, or one lookup in flight shared by all callers   *)
(***************************************************************************)

\* A request checkAcceptingFmsgID has answered.
Checked(q, answer) ==
    IF answer = "yes" THEN [q EXCEPT !.pc = "count"] ELSE Undone(q)

CheckCached(r) ==
    LET a == req[r].agent IN
    /\ req[r].pc = "check"
    /\ cache[a] # "none"
    /\ req' = [req EXCEPT ![r] = Checked(@, cache[a])]
    /\ UNCHANGED <<grant, accepting, cache, fetching, failed, overlapped>>

\* Joins the lookup in flight, or starts one.
CheckFetch(r) ==
    LET a == req[r].agent IN
    /\ req[r].pc = "check"
    /\ cache[a] = "none"
    /\ fetching' = [fetching EXCEPT ![a] = IF @ = "none" THEN accepting[a] ELSE @]
    /\ Goto(r, "await")
    /\ UNCHANGED <<grant, accepting, cache, failed, overlapped>>

\* Authentication of some other request looks the address up.
AuthFetch(a) ==
    /\ cache[a] = "none"
    /\ fetching[a] = "none"
    /\ fetching' = [fetching EXCEPT ![a] = accepting[a]]
    /\ UNCHANGED <<grant, accepting, cache, req, failed, overlapped>>

\* Mutant of FetchDone: 404 is cached like any other answer.
FetchDoneCaches404(a) ==
    /\ fetching[a] # "none"
    /\ cache' = [cache EXCEPT ![a] = fetching[a]]
    /\ req' = [r \in Req |-> IF req[r].pc = "await" /\ req[r].agent = a
                             THEN Checked(req[r], fetching[a]) ELSE req[r]]
    /\ fetching' = [fetching EXCEPT ![a] = "none"]
    /\ UNCHANGED <<grant, accepting, failed, overlapped>>

\* fetchFmsgID returns: 404 is not cached, and all that wait go on.
FetchDone(a) ==
    /\ fetching[a] # "none"
    /\ cache' = IF fetching[a] = "unknown" THEN cache
                ELSE [cache EXCEPT ![a] = fetching[a]]
    /\ req' = [r \in Req |-> IF req[r].pc = "await" /\ req[r].agent = a
                             THEN Checked(req[r], fetching[a]) ELSE req[r]]
    /\ fetching' = [fetching EXCEPT ![a] = "none"]
    /\ UNCHANGED <<grant, accepting, failed, overlapped>>

FetchFails(a) ==
    /\ MayFail
    /\ fetching[a] # "none"
    /\ req' = [r \in Req |-> IF req[r].pc = "await" /\ req[r].agent = a
                             THEN Undone(req[r]) ELSE req[r]]
    /\ fetching' = [fetching EXCEPT ![a] = "none"]
    /\ failed' = TRUE
    /\ UNCHANGED <<grant, accepting, cache, overlapped>>

\* fmsgIDCacheTTL
CacheExpires(a) ==
    /\ cache[a] # "none"
    /\ cache' = [cache EXCEPT ![a] = "none"]
    /\ UNCHANGED <<grant, accepting, fetching, req, failed, overlapped>>

-----------------------------------------------------------------------------
(***************************************************************************)
(* DELETE /fmsg/sub-accounts/:agent                                        *)
(***************************************************************************)

StartDelete(r, a) ==
    /\ a \in grant
    /\ Begin(r, a, "disable")
    /\ UNCHANGED <<grant, accepting, cache, fetching, failed>>

\* Mutant of Disable: an fmsgid that ignored the request is not noticed.
DisableIgnored(r) ==
    /\ req[r].pc = "disable"
    /\ \/ Post(req[r].agent, "no")
       \/ MayFail /\ UNCHANGED <<accepting, cache, failed>>
    /\ Goto(r, "deleteRow")
    /\ UNCHANGED <<grant, fetching, overlapped>>

Disable(r) ==
    /\ req[r].pc = "disable"
    /\ Post(req[r].agent, "no")
    /\ Goto(r, "deleteRow")
    /\ UNCHANGED <<grant, fetching, overlapped>>

\* The owner gets 503 and keeps the grant.
DisableFails(r) ==
    /\ req[r].pc = "disable"
    /\ PostFails(req[r].agent, "no")
    /\ Return(r)
    /\ UNCHANGED <<grant, fetching, overlapped>>

DeleteRow(r) ==
    /\ req[r].pc = "deleteRow"
    /\ grant' = grant \ {req[r].agent}
    /\ Return(r)
    /\ UNCHANGED <<accepting, cache, fetching, failed, overlapped>>

\* The process restarts: requests, cache and lookups are gone.
Restart ==
    /\ MayFail
    /\ req' = [r \in Req |-> Free]
    /\ cache' = [a \in Agent |-> "none"]
    /\ fetching' = [a \in Agent |-> "none"]
    /\ failed' = TRUE
    /\ UNCHANGED <<grant, accepting, overlapped>>

-----------------------------------------------------------------------------
Next ==
    \/ \E r \in Req, a \in Agent : \/ StartCreate(r, a)
                                   \/ StartDelete(r, a)
    \/ \E r \in Req : \/ Register(r) \/ RegisterFails(r)
                      \/ CheckCached(r) \/ CheckFetch(r)
                      \/ CountGrants(r) \/ InsertGrant(r) \/ StoreFails(r)
                      \/ Undo(r) \/ UndoFails(r)
                      \/ Disable(r) \/ DisableFails(r) \/ DeleteRow(r)
    \/ \E a \in Agent : \/ AuthFetch(a) \/ FetchDone(a) \/ FetchFails(a)
                        \/ CacheExpires(a)
    \/ Restart

Spec == Init /\ [][Next]_vars

Idle == \A r \in Req : req[r].pc = "idle"

-----------------------------------------------------------------------------
(***************************************************************************)
(* Properties                                                              *)
(***************************************************************************)

\* The limit is exact for requests one after another.  Requests that counted
\* together can exceed it, but by no more than one less than the number of
\* them (createGrant).
OvershootBounded ==
    Cardinality(grant) <= Max + (IF overlapped THEN Cardinality(Req) - 1 ELSE 0)

\* With requests one after another, a grant is deleted only when fmsgid has
\* stopped its address, whatever fails and wherever the process restarts: an
\* owner is never left with an address that accepts mail and no grant to
\* retry the delete from (Delete's order of calls).
DeletedIsStopped ==
    [][~overlapped => \A a \in grant \ grant' : accepting[a] = "no"]_vars

\* With requests one after another, none running and no call failed, an
\* address accepts messages exactly while it has a grant (README, POST and
\* DELETE sub-accounts): one created again accepts again, one deleted does
\* not, nor one whose creation was refused after its address was reinstated
\* (the deferred disable of Create).
AcceptsWhileGranted ==
    Idle /\ ~failed /\ ~overlapped =>
        /\ \A a \in grant : accepting[a] = "yes"
        /\ \A a \in Agent \ (grant \cup Fresh) : accepting[a] # "yes"

\* What the comment in Delete says of the order of its calls, for requests
\* that run at the same time too: no address is left accepting messages
\* without a grant to retry the delete from.
NeverOrphaned ==
    Idle /\ ~failed =>
        \A a \in Agent \ (grant \cup Fresh) : accepting[a] # "yes"
=============================================================================
