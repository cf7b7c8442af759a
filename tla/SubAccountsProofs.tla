------------------------- MODULE SubAccountsProofs --------------------------
(***************************************************************************)
(* What SubAccounts guarantees for any agents, any number of concurrent    *)
(* requests, any limit and any failures.                                   *)
(*                                                                         *)
(* The limit is kept by counting the requests about to insert as grants    *)
(* already (Counted).  What holds of requests one after another rests on   *)
(* there being at most one request at a time (Alone) and on what each      *)
(* request knows of its address when it goes on (Stopped, Knows).          *)
(***************************************************************************)
EXTENDS SubAccounts, FiniteSetTheorems, TLAPS

\* A request names the agent it is about.
Named == \A r \in Req : req[r].pc # "idle" => req[r].agent \in Agent

Typed == TypeOK /\ Named

Alone ==
    ~overlapped => \A r, o \in Req :
                      req[r].pc # "idle" /\ req[o].pc # "idle" => r = o

Inserting == {r \in Req : req[r].pc = "insert"}

Counted ==
    /\ IsFiniteSet(grant)
    /\ Cardinality(grant) + Cardinality(Inserting)
         <= Max + (IF overlapped THEN Cardinality(Req) - 1 ELSE 0)

\* A delete goes on only when the address has stopped.
Stopped ==
    ~overlapped => \A r \in Req : req[r].pc = "deleteRow"
                                    => accepting[req[r].agent] = "no"

\* The address accepts messages if it has a grant and, unless fmsgid did not
\* know it at first, only then.
Settled(a) ==
    /\ a \in grant => accepting[a] = "yes"
    /\ a \notin grant \cup Fresh => accepting[a] # "yes"

\* Request r has changed its address, and not yet what goes with it.
Midway(r) == req[r].pc \in {"check", "await", "count", "insert", "undo",
                            "deleteRow"}

\* A create past its registration reinstated the address exactly when that
\* must be undone should it fail.
Creating(r) ==
    LET a == req[r].agent IN
    /\ accepting[a] = "yes"
    /\ req[r].reinstated => a \notin grant
    /\ a \notin grant \cup Fresh => req[r].reinstated

Knows ==
    ~overlapped /\ ~failed =>
        /\ \A a \in Agent : accepting[a] = "unknown" => a \in Fresh
        /\ \A a \in Agent : \/ Settled(a)
                            \/ \E r \in Req : Midway(r) /\ req[r].agent = a
        /\ \A r \in Req : /\ req[r].pc \in {"check", "await", "count", "insert"}
                               => Creating(r)
                          /\ req[r].pc = "undo" => req[r].agent \notin grant

IInv == Typed /\ Alone /\ Counted /\ Stopped /\ Knows
-----------------------------------------------------------------------------
(***************************************************************************)
(* Types                                                                   *)
(***************************************************************************)

LEMMA UndoneType ==
    ASSUME NEW q \in Request
    PROVE  /\ Undone(q) \in Request
           /\ Undone(q).pc \in {"idle", "undo"}
           /\ Undone(q).pc # "idle" => /\ Undone(q).agent = q.agent
                                      /\ Undone(q).reinstated = q.reinstated
           /\ Undone(q).pc = "undo" => q.reinstated
           /\ Undone(q).pc = "idle" => ~q.reinstated
  BY DEF Undone, Request, Free, PC

LEMMA CheckedType ==
    ASSUME NEW q \in Request, NEW answer
    PROVE  /\ Checked(q, answer) \in Request
           /\ Checked(q, answer).pc \in {"idle", "undo", "count"}
           /\ Checked(q, answer).pc # "idle"
                => /\ Checked(q, answer).agent = q.agent
                   /\ Checked(q, answer).reinstated = q.reinstated
           /\ Checked(q, answer).pc = "undo" => q.reinstated
           /\ Checked(q, answer).pc = "idle" => ~q.reinstated
  BY UndoneType DEF Checked, Request, PC

\* Request r goes on, and no other.
Changes(r) == /\ req' \in [Req -> Request]
              /\ \A o \in Req \ {r} : req'[o] = req[o]

LEMMA FreeType ==
    /\ Free \in Request
    /\ Free.pc = "idle"
    /\ Free.agent = NoAgent
  BY DEF Free, Request, PC

LEMMA GotoEffect ==
    ASSUME TypeOK, NEW r \in Req, NEW pc \in PC, Goto(r, pc)
    PROVE  /\ Changes(r)
           /\ req'[r].pc = pc
           /\ req'[r].agent = req[r].agent
           /\ req'[r].reinstated = req[r].reinstated
  BY DEF TypeOK, Goto, Changes, Request

LEMMA ReturnEffect ==
    ASSUME TypeOK, NEW r \in Req, Return(r)
    PROVE  Changes(r) /\ req'[r] = Free
  BY FreeType DEF TypeOK, Return, Changes

\* A create that fails is over, or goes on to stop the address again.
LEMMA FailEffect ==
    ASSUME TypeOK, NEW r \in Req, Fail(r)
    PROVE  /\ Changes(r)
           /\ req'[r].pc = IF req[r].reinstated THEN "undo" ELSE "idle"
           /\ req[r].reinstated => req'[r].agent = req[r].agent
  <1>1. req[r] \in Request /\ Undone(req[r]) \in Request
    BY UndoneType DEF TypeOK
  <1>2. req' = [req EXCEPT ![r] = Undone(req[r])]
    BY DEF Fail
  <1>3. Changes(r) /\ req'[r] = Undone(req[r])
    BY <1>1, <1>2 DEF Changes, TypeOK
  <1> QED BY <1>1, <1>3 DEF Undone, Request, Free

LEMMA BeginEffect ==
    ASSUME TypeOK, NEW r \in Req, NEW a \in Agent, NEW pc \in PC,
           Begin(r, a, pc)
    PROVE  /\ Changes(r)
           /\ req'[r].pc = pc
           /\ req'[r].agent = a
           /\ overlapped' \in BOOLEAN
           /\ overlapped' <=> overlapped \/ \E o \in Req : req[o].pc # "idle"
  <1> DEFINE q == [Free EXCEPT !.pc = pc, !.agent = a]
  <1>1. q \in Request /\ q.pc = pc /\ q.agent = a
    BY DEF Free, Request
  <1>2. req' = [req EXCEPT ![r] = q]
    BY DEF Begin
  <1>3. /\ overlapped' \in BOOLEAN
        /\ overlapped' <=> overlapped \/ \E o \in Req : req[o].pc # "idle"
    BY Zenon DEF Begin
  <1> HIDE DEF q
  <1> QED BY <1>1, <1>2, <1>3 DEF Changes, TypeOK

LEMMA RegisterEffect ==
    ASSUME TypeOK, NEW r \in Req, Register(r)
    PROVE  /\ Changes(r)
           /\ req'[r].pc = "check"
           /\ req'[r].agent = req[r].agent
           /\ req'[r].reinstated <=> accepting[req[r].agent] = "no"
  BY DEF TypeOK, Register, Changes, Request, PC

LEMMA CachedEffect ==
    ASSUME TypeOK, NEW r \in Req, CheckCached(r)
    PROVE  /\ Changes(r)
           /\ req'[r].pc \in {"idle", "undo", "count"}
           /\ req'[r].pc # "idle" => /\ req'[r].agent = req[r].agent
                                     /\ req'[r].reinstated = req[r].reinstated
           /\ req'[r].pc = "undo" => req[r].reinstated
           /\ req'[r].pc = "idle" => ~req[r].reinstated
  <1> DEFINE q == Checked(req[r], cache[req[r].agent])
  <1>1. req[r] \in Request
    BY DEF TypeOK
  <1>2. /\ q \in Request
        /\ q.pc \in {"idle", "undo", "count"}
        /\ q.pc # "idle" => /\ q.agent = req[r].agent
                            /\ q.reinstated = req[r].reinstated
        /\ q.pc = "undo" => req[r].reinstated
        /\ q.pc = "idle" => ~req[r].reinstated
    BY <1>1, CheckedType
  <1>3. req' = [req EXCEPT ![r] = q]
    BY DEF CheckCached
  <1> HIDE DEF q
  <1> QED BY <1>2, <1>3 DEF Changes, TypeOK

\* The answer of a lookup, or its failure, moves the requests that await it.
LEMMA AnswerEffect ==
    ASSUME TypeOK, NEW a \in Agent, FetchDone(a) \/ FetchFails(a)
    PROVE  /\ req' \in [Req -> Request]
           /\ \A r \in Req :
                \/ req'[r] = req[r]
                \/ /\ req[r].pc = "await"
                   /\ req'[r].pc \in {"idle", "undo", "count"}
                   /\ req'[r].pc # "idle"
                        => /\ req'[r].agent = req[r].agent
                           /\ req'[r].reinstated = req[r].reinstated
                   /\ req'[r].pc = "undo" => req[r].reinstated
                   /\ req'[r].pc = "idle" => ~req[r].reinstated
  <1>1. \A r \in Req : req[r] \in Request
    BY DEF TypeOK
  <1>2. CASE FetchDone(a)
    <2>1. req' = [r \in Req |-> IF req[r].pc = "await" /\ req[r].agent = a
                                THEN Checked(req[r], fetching[a]) ELSE req[r]]
      BY <1>2 DEF FetchDone
    <2> QED BY <1>1, <2>1, CheckedType
  <1>3. CASE FetchFails(a)
    <2>1. req' = [r \in Req |-> IF req[r].pc = "await" /\ req[r].agent = a
                                THEN Undone(req[r]) ELSE req[r]]
      BY <1>3 DEF FetchFails
    <2>2. ASSUME NEW r \in Req
          PROVE  /\ req'[r] \in Request
                 /\ \/ req'[r] = req[r]
                    \/ /\ req[r].pc = "await"
                       /\ req'[r].pc \in {"idle", "undo"}
                       /\ req'[r].pc # "idle"
                            => /\ req'[r].agent = req[r].agent
                               /\ req'[r].reinstated = req[r].reinstated
                       /\ req'[r].pc = "undo" => req[r].reinstated
                       /\ req'[r].pc = "idle" => ~req[r].reinstated
      <3>1. CASE req[r].pc = "await" /\ req[r].agent = a
        <4>1. req'[r] = Undone(req[r])
          BY <2>1, <3>1
        <4> QED BY <1>1, <3>1, <4>1, UndoneType
      <3>2. CASE ~(req[r].pc = "await" /\ req[r].agent = a)
        BY <1>1, <2>1, <3>2
      <3> QED BY <3>1, <3>2
    <2>3. req' = [r \in Req |-> req'[r]]
      BY <2>1
    <2> QED BY <2>2, <2>3
  <1> QED BY <1>2, <1>3

LEMMA PostType ==
    ASSUME TypeOK, NEW a, NEW value \in {"yes", "no"},
           Post(a, value) \/ PostFails(a, value)
    PROVE  /\ accepting' \in [Agent -> Answer]
           /\ cache' \in [Agent -> {"none", "yes", "no"}]
           /\ failed' \in BOOLEAN
           /\ \A b \in Agent \ {a} : accepting'[b] = accepting[b]
  BY DEF TypeOK, Post, PostFails, Answer

LEMMA TypedInit == Init => Typed
  <1> SUFFICES ASSUME Init PROVE Typed
    OBVIOUS
  <1>1. failed \in BOOLEAN /\ overlapped \in BOOLEAN
    BY Zenon DEF Init
  <1> QED BY <1>1, FreeType DEF Init, Typed, TypeOK, Named, Answer

LEMMA TypedStep == Typed /\ [Next]_vars => Typed'
  <1> SUFFICES ASSUME Typed, [Next]_vars PROVE Typed'
    OBVIOUS
  <1> USE DEF Typed, TypeOK, Named, PC
  <1>1. ASSUME NEW r \in Req, NEW a \in Agent,
               StartCreate(r, a) \/ StartDelete(r, a)
        PROVE  Typed'
    BY <1>1, BeginEffect DEF StartCreate, StartDelete, Changes
  <1>2. ASSUME NEW r \in Req, Register(r)
        PROVE  Typed'
    BY <1>2, RegisterEffect, PostType DEF Register, Changes
  <1>3. ASSUME NEW r \in Req, RegisterFails(r) \/ Undo(r) \/ UndoFails(r)
                                \/ DisableFails(r)
        PROVE  Typed'
    BY <1>3, ReturnEffect, PostType, FreeType
       DEF RegisterFails, Undo, UndoFails, DisableFails, Changes
  <1>4. ASSUME NEW r \in Req, CheckCached(r)
        PROVE  Typed'
    BY <1>4, CachedEffect DEF CheckCached, Changes
  <1>5. ASSUME NEW r \in Req, CheckFetch(r)
        PROVE  Typed'
    BY <1>5, GotoEffect DEF CheckFetch, Changes
  <1>6. ASSUME NEW r \in Req, CountGrants(r)
        PROVE  Typed'
    BY <1>6, GotoEffect, FailEffect DEF CountGrants, Changes
  <1>7. ASSUME NEW r \in Req, InsertGrant(r)
        PROVE  Typed'
    BY <1>7, ReturnEffect, FailEffect, FreeType DEF InsertGrant, Changes
  <1>8. ASSUME NEW r \in Req, StoreFails(r)
        PROVE  Typed'
    BY <1>8, FailEffect DEF StoreFails, Changes
  <1>9. ASSUME NEW r \in Req, Disable(r)
        PROVE  Typed'
    BY <1>9, GotoEffect, PostType DEF Disable, Changes
  <1>10. ASSUME NEW r \in Req, DeleteRow(r)
         PROVE  Typed'
    BY <1>10, ReturnEffect, FreeType DEF DeleteRow, Changes
  <1>11. ASSUME NEW a \in Agent, AuthFetch(a) \/ CacheExpires(a)
         PROVE  Typed'
    BY <1>11 DEF AuthFetch, CacheExpires
  <1>12. ASSUME NEW a \in Agent, FetchDone(a) \/ FetchFails(a)
         PROVE  Typed'
    <2>1. req' \in [Req -> Request] /\ Named'
      BY <1>12, AnswerEffect
    <2>2. /\ cache' \in [Agent -> {"none", "yes", "no"}]
          /\ fetching' \in [Agent -> Answer \cup {"none"}]
          /\ failed' \in BOOLEAN
          /\ UNCHANGED <<grant, accepting, overlapped>>
      BY <1>12 DEF FetchDone, FetchFails, Answer
    <2> QED BY <2>1, <2>2
  <1>13. CASE Restart
    BY <1>13, FreeType DEF Restart
  <1>14. CASE UNCHANGED vars
    BY <1>14 DEF vars
  <1> QED BY <1>1, <1>2, <1>3, <1>4, <1>5, <1>6, <1>7, <1>8, <1>9, <1>10, <1>11,
             <1>12, <1>13, <1>14 DEF Next
\* fmsgid, the grants and the cache are as SubAccounts types them.
THEOREM GrantsTyped == Spec => []TypeOK
  <1>1. Typed => TypeOK
    BY DEF Typed
  <1> QED BY <1>1, TypedInit, TypedStep, PTL DEF Spec

-----------------------------------------------------------------------------
(***************************************************************************)
(* One request at a time                                                   *)
(***************************************************************************)

Starts(r, a) == StartCreate(r, a) \/ StartDelete(r, a)

\* The steps a request that is not starting can take.
Steps(r) ==
    \/ Register(r) \/ CheckCached(r)
    \/ RegisterFails(r) \/ Undo(r) \/ UndoFails(r) \/ DisableFails(r)
    \/ DeleteRow(r)
    \/ CheckFetch(r) \/ CountGrants(r) \/ Disable(r)
    \/ InsertGrant(r) \/ StoreFails(r)

LEMMA StepCases ==
    ASSUME [Next]_vars
    PROVE  \/ \E r \in Req, a \in Agent : Starts(r, a)
           \/ \E r \in Req : Steps(r)
           \/ \E a \in Agent : FetchDone(a) \/ FetchFails(a)
           \/ \E a \in Agent : AuthFetch(a) \/ CacheExpires(a)
           \/ Restart
           \/ UNCHANGED vars
  BY DEF Next, Starts, Steps

\* A request goes on about its own agent, and only a start begins one.
LEMMA GoesOn ==
    ASSUME Typed, [Next]_vars
    PROVE  \/ \E r \in Req, a \in Agent : Starts(r, a)
           \/ /\ overlapped' = overlapped
              /\ \A r \in Req : req'[r].pc # "idle"
                                  => /\ req[r].pc # "idle"
                                     /\ req'[r].agent = req[r].agent
  <1> DEFINE On == /\ overlapped' = overlapped
                   /\ \A r \in Req : req'[r].pc # "idle"
                                       => /\ req[r].pc # "idle"
                                          /\ req'[r].agent = req[r].agent
  <1> USE DEF Typed, PC
  <1>1. ASSUME NEW r \in Req, Register(r) \/ CheckCached(r)
        PROVE  On
    BY <1>1, RegisterEffect, CachedEffect DEF Register, CheckCached, Changes
  <1>2. ASSUME NEW r \in Req,
               RegisterFails(r) \/ Undo(r) \/ UndoFails(r) \/ DisableFails(r)
                 \/ DeleteRow(r)
        PROVE  On
    BY <1>2, ReturnEffect, FreeType
       DEF RegisterFails, Undo, UndoFails, DisableFails, DeleteRow, Changes
  <1>3. ASSUME NEW r \in Req, CheckFetch(r) \/ CountGrants(r) \/ Disable(r)
        PROVE  On
    BY <1>3, GotoEffect, FailEffect
       DEF CheckFetch, CountGrants, Disable, Changes
  <1>4. ASSUME NEW r \in Req, InsertGrant(r) \/ StoreFails(r)
        PROVE  On
    BY <1>4, ReturnEffect, FailEffect, FreeType
       DEF InsertGrant, StoreFails, Changes
  <1>5. ASSUME NEW a \in Agent, FetchDone(a) \/ FetchFails(a)
        PROVE  On
    BY <1>5, AnswerEffect DEF FetchDone, FetchFails
  <1>6. ASSUME NEW a \in Agent, AuthFetch(a) \/ CacheExpires(a)
        PROVE  On
    BY <1>6 DEF AuthFetch, CacheExpires
  <1>7. ASSUME Restart PROVE On
    BY <1>7, FreeType DEF Restart
  <1>8. ASSUME UNCHANGED vars PROVE On
    BY <1>8 DEF vars
  <1> HIDE DEF On
  <1>9. ASSUME NEW r \in Req, Steps(r)
        PROVE  On
    BY <1>9, <1>1, <1>2, <1>3, <1>4 DEF Steps
  <1>10. On \/ \E r \in Req, a \in Agent : Starts(r, a)
    BY <1>9, <1>5, <1>6, <1>7, <1>8, StepCases
  <1> QED BY <1>10 DEF On

LEMMA StartEffect ==
    ASSUME Typed, NEW r \in Req, NEW a \in Agent, Starts(r, a)
    PROVE  /\ Changes(r)
           /\ req[r].pc = "idle"
           /\ req'[r].pc \in {"register", "disable"}
           /\ req'[r].agent = a
           /\ overlapped' <=> overlapped \/ \E o \in Req : req[o].pc # "idle"
           /\ UNCHANGED <<grant, accepting, cache, fetching, failed>>
  <1>1. \E pc \in {"register", "disable"} : Begin(r, a, pc)
    BY DEF Starts, StartCreate, StartDelete
  <1>2. UNCHANGED <<grant, accepting, cache, fetching, failed>>
    BY DEF Starts, StartCreate, StartDelete
  <1>3. req[r].pc = "idle"
    BY <1>1 DEF Begin
  <1> QED BY <1>1, <1>2, <1>3, BeginEffect DEF Typed, PC

LEMMA AloneStep == Typed /\ Alone /\ [Next]_vars => Alone'
  <1> SUFFICES ASSUME Typed, Alone, [Next]_vars, ~overlapped',
                      NEW r \in Req, NEW o \in Req,
                      req'[r].pc # "idle", req'[o].pc # "idle"
               PROVE  r = o
    BY DEF Alone
  <1>1. ASSUME NEW x \in Req, NEW a \in Agent, Starts(x, a)
        PROVE  r = o
    BY <1>1, StartEffect DEF Changes
  <1> QED BY <1>1, GoesOn DEF Alone

-----------------------------------------------------------------------------
(***************************************************************************)
(* The limit                                                               *)
(***************************************************************************)

\* What a step does to the grants and to the requests about to insert one.
LEMMA Inserts ==
    ASSUME Typed, [Next]_vars
    PROVE  \/ \E r \in Req : /\ req[r].pc = "count"
                             /\ Cardinality(grant) < Max
                             /\ Inserting' = Inserting \cup {r}
                             /\ UNCHANGED <<grant, overlapped>>
           \/ \E r \in Inserting :
                /\ Inserting' = Inserting \ {r}
                /\ grant' \in {grant, grant \cup {req[r].agent}}
                /\ overlapped' = overlapped
           \/ /\ Inserting' \subseteq Inserting
              /\ grant' = grant \/ \E a : grant' = grant \ {a}
              /\ overlapped => overlapped'
  <1> DEFINE Fewer == /\ Inserting' \subseteq Inserting
                      /\ grant' = grant \/ \E a : grant' = grant \ {a}
                      /\ overlapped => overlapped'
             Counts == \E r \in Req : /\ req[r].pc = "count"
                                      /\ Cardinality(grant) < Max
                                      /\ Inserting' = Inserting \cup {r}
                                      /\ UNCHANGED <<grant, overlapped>>
             Insert == \E r \in Inserting :
                         /\ Inserting' = Inserting \ {r}
                         /\ grant' \in {grant, grant \cup {req[r].agent}}
                         /\ overlapped' = overlapped
  <1> USE DEF Typed, PC
  <1>1. ASSUME NEW r \in Req, NEW a \in Agent, Starts(r, a)
        PROVE  Fewer
    BY <1>1, StartEffect DEF Changes, Inserting
  <1>2. ASSUME NEW r \in Req, Register(r) \/ CheckCached(r)
        PROVE  Fewer
    BY <1>2, RegisterEffect, CachedEffect
       DEF Register, CheckCached, Changes, Inserting
  <1>3. ASSUME NEW r \in Req,
               RegisterFails(r) \/ Undo(r) \/ UndoFails(r) \/ DisableFails(r)
                 \/ DeleteRow(r)
        PROVE  Fewer
    BY <1>3, ReturnEffect, FreeType
       DEF RegisterFails, Undo, UndoFails, DisableFails, DeleteRow, Changes,
           Inserting
  <1>4. ASSUME NEW r \in Req, CheckFetch(r) \/ Disable(r)
        PROVE  Fewer
    BY <1>4, GotoEffect DEF CheckFetch, Disable, Changes, Inserting
  <1>5. ASSUME NEW r \in Req, CountGrants(r)
        PROVE  Fewer \/ Counts
    <2>1. CASE Cardinality(grant) < Max
      <3>1. Changes(r) /\ req'[r].pc = "insert"
        BY <1>5, <2>1, GotoEffect DEF CountGrants
      <3>2. Counts
        BY <1>5, <2>1, <3>1 DEF CountGrants, Changes, Inserting
      <3> QED BY <3>2
    <2>2. CASE ~(Cardinality(grant) < Max)
      <3>1. Changes(r) /\ req'[r].pc # "insert"
        BY <1>5, <2>2, FailEffect DEF CountGrants
      <3>2. Fewer
        BY <1>5, <3>1 DEF CountGrants, Changes, Inserting
      <3> QED BY <3>2
    <2> QED BY <2>1, <2>2
  <1>6. ASSUME NEW r \in Req, InsertGrant(r) \/ StoreFails(r)
        PROVE  Fewer \/ Insert
    <2>1. Changes(r) /\ req'[r].pc # "insert"
      BY <1>6, ReturnEffect, FailEffect, FreeType DEF InsertGrant, StoreFails
    <2>2. CASE req[r].pc = "insert"
      <3>1. Inserting' = Inserting \ {r} /\ r \in Inserting
        BY <2>1, <2>2 DEF Inserting, Changes
      <3>2. /\ grant' \in {grant, grant \cup {req[r].agent}}
            /\ overlapped' = overlapped
        BY <1>6, <2>2 DEF InsertGrant, StoreFails
      <3> QED BY <3>1, <3>2
    <2>3. CASE req[r].pc # "insert"
      <3>1. Inserting' \subseteq Inserting
        BY <2>1 DEF Inserting, Changes
      <3>2. /\ grant' = grant \/ grant' = grant \ {req[r].agent}
            /\ overlapped' = overlapped
        BY <1>6, <2>3 DEF InsertGrant, StoreFails
      <3> QED BY <3>1, <3>2
    <2> QED BY <2>2, <2>3
  <1>7. ASSUME NEW a \in Agent, FetchDone(a) \/ FetchFails(a)
        PROVE  Fewer
    <2>1. Inserting' \subseteq Inserting
      BY <1>7, AnswerEffect DEF Inserting
    <2>2. UNCHANGED <<grant, overlapped>>
      BY <1>7 DEF FetchDone, FetchFails
    <2> QED BY <2>1, <2>2
  <1>8. ASSUME NEW a \in Agent, AuthFetch(a) \/ CacheExpires(a)
        PROVE  Fewer
    BY <1>8 DEF AuthFetch, CacheExpires, Inserting
  <1>9. ASSUME Restart PROVE Fewer
    BY <1>9, FreeType DEF Restart, Inserting
  <1>10. ASSUME UNCHANGED vars PROVE Fewer
    BY <1>10 DEF vars, Inserting
  <1> HIDE DEF Fewer, Counts, Insert
  <1>11. ASSUME NEW r \in Req, Steps(r)
         PROVE  Fewer \/ Counts \/ Insert
    BY <1>11, <1>2, <1>3, <1>4, <1>5, <1>6 DEF Steps
  <1>12. Fewer \/ Counts \/ Insert
    BY <1>1, <1>7, <1>8, <1>9, <1>10, <1>11, StepCases
  <1> QED BY <1>12 DEF Fewer, Counts, Insert
LEMMA CountedStep ==
    Typed /\ Alone /\ Counted /\ [Next]_vars => Counted'
  <1> SUFFICES ASSUME Typed, Alone, Counted, [Next]_vars
               PROVE  Counted'
    OBVIOUS
  <1> DEFINE Limit == Max + (IF overlapped THEN Cardinality(Req) - 1 ELSE 0)
  <1>1. /\ IsFiniteSet(Inserting) /\ Cardinality(Inserting) \in Nat
        /\ Cardinality(Inserting) <= Cardinality(Req)
        /\ Cardinality(Req) \in Nat
    BY ReqAssumption, FS_Subset, FS_CardinalityType DEF Inserting
  <1>2. IsFiniteSet(Inserting') /\ Cardinality(Inserting') \in Nat
    BY ReqAssumption, FS_Subset, FS_CardinalityType DEF Inserting
  <1>3. IsFiniteSet(grant) /\ Cardinality(grant) \in Nat
    BY FS_CardinalityType DEF Counted
  <1>4. Cardinality(grant) + Cardinality(Inserting) <= Limit
    BY DEF Counted
  <1>5. Max \in Nat
    BY MaxAssumption
  <1>6. ASSUME NEW r \in Req, req[r].pc = "count", Cardinality(grant) < Max,
               Inserting' = Inserting \cup {r}, UNCHANGED <<grant, overlapped>>
        PROVE  Counted'
    <2>1. CASE overlapped
      <3>1. Cardinality(Inserting') <= Cardinality(Req)
        BY ReqAssumption, FS_Subset DEF Inserting
      <3> QED BY <1>1, <1>2, <1>3, <1>5, <1>6, <2>1, <3>1 DEF Counted
    <2>2. CASE ~overlapped
      <3>1. Inserting = {}
        BY <1>6, <2>2 DEF Alone, Inserting
      <3>2. Cardinality(Inserting') = 1
        BY <1>6, <3>1, FS_Singleton
      <3> QED BY <1>3, <1>5, <1>6, <2>2, <3>2 DEF Counted
    <2> QED BY <2>1, <2>2
  <1>7. ASSUME NEW r \in Inserting, Inserting' = Inserting \ {r},
               grant' \in {grant, grant \cup {req[r].agent}},
               overlapped' = overlapped
        PROVE  Counted'
    <2>1. Cardinality(Inserting') = Cardinality(Inserting) - 1
      BY <1>1, <1>7, FS_RemoveElement
    <2>2. /\ IsFiniteSet(grant') /\ Cardinality(grant') \in Nat
          /\ Cardinality(grant') <= Cardinality(grant) + 1
      <3>1. CASE grant' = grant
        BY <1>3, <3>1
      <3>2. CASE grant' = grant \cup {req[r].agent}
        <4>1. /\ IsFiniteSet(grant')
              /\ Cardinality(grant') = IF req[r].agent \in grant
                                       THEN Cardinality(grant)
                                       ELSE Cardinality(grant) + 1
          BY <1>3, <3>2, FS_AddElement
        <4> QED BY <1>3, <4>1
      <3> QED BY <1>7, <3>1, <3>2
    <2> QED BY <1>1, <1>2, <1>3, <1>4, <1>5, <1>7, <2>1, <2>2 DEF Counted
  <1>8. ASSUME Inserting' \subseteq Inserting,
               grant' = grant \/ \E a : grant' = grant \ {a},
               overlapped => overlapped'
        PROVE  Counted'
    <2>1. Cardinality(Inserting') <= Cardinality(Inserting)
      BY <1>1, <1>8, FS_Subset
    <2>2. grant' \subseteq grant
      BY <1>8
    <2>3. /\ IsFiniteSet(grant') /\ Cardinality(grant') \in Nat
          /\ Cardinality(grant') <= Cardinality(grant)
      BY <1>3, <2>2, FS_Subset, FS_CardinalityType
    <2>4. overlapped' /\ ~overlapped => Cardinality(Req) >= 1
      <3>1. ASSUME overlapped', ~overlapped
            PROVE  Req # {}
        BY <3>1, GoesOn
      <3> QED BY <3>1, <1>1, ReqAssumption, FS_EmptySet
    <2> QED BY <1>1, <1>2, <1>3, <1>4, <1>5, <1>8, <2>1, <2>3, <2>4 DEF Counted
  <1> QED BY <1>6, <1>7, <1>8, Inserts

LEMMA OneByOneInit == Init => Alone /\ Counted
  <1> SUFFICES ASSUME Init PROVE Alone /\ Counted
    OBVIOUS
  <1>1. \A r \in Req : req[r].pc = "idle"
    BY FreeType DEF Init
  <1>2. Inserting = {} /\ grant = {} /\ overlapped = FALSE
    BY <1>1 DEF Init, Inserting
  <1> QED BY <1>1, <1>2, FS_EmptySet, MaxAssumption DEF Alone, Counted

\* However many requests create sub-accounts at the same time, and whatever
\* fails, an owner exceeds max_sub_accounts by less than the number of them,
\* and not at all by requests one after another (createGrant).
THEOREM LimitHolds == Spec => []OvershootBounded
  <1> DEFINE Inv == Typed /\ Alone /\ Counted
  <1>1. Init => Inv
    BY TypedInit, OneByOneInit
  <1>2. Inv /\ [Next]_vars => Inv'
    BY TypedStep, AloneStep, CountedStep
  <1>3. Inv => OvershootBounded
    <2> SUFFICES ASSUME Inv PROVE OvershootBounded
      OBVIOUS
    <2>1. IsFiniteSet(Inserting)
      BY ReqAssumption, FS_Subset DEF Inserting
    <2>2. /\ Cardinality(Inserting) \in Nat
          /\ Cardinality(grant) \in Nat
          /\ Cardinality(Req) \in Nat
      BY <2>1, ReqAssumption, FS_CardinalityType DEF Counted
    <2> QED BY <2>2, MaxAssumption DEF Counted, OvershootBounded
  <1> QED BY <1>1, <1>2, <1>3, PTL DEF Spec

-----------------------------------------------------------------------------
(***************************************************************************)
(* Deleting                                                                *)
(***************************************************************************)

LEMMA StoppedStep ==
    Typed /\ Alone /\ Stopped /\ [Next]_vars => Stopped'
  <1> SUFFICES ASSUME Typed, Alone, Stopped, [Next]_vars, ~overlapped',
                      NEW r \in Req, req'[r].pc = "deleteRow"
               PROVE  accepting'[req'[r].agent] = "no"
    BY DEF Stopped
  <1> USE DEF Typed, PC
  <1>0. ASSUME NEW x \in Req, NEW a \in Agent, Starts(x, a)
        PROVE  accepting'[req'[r].agent] = "no"
    BY <1>0, StartEffect DEF Stopped, Changes
  <1>1. CASE \E x \in Req : Steps(x)
    <2> PICK x \in Req : Steps(x)
      BY <1>1
    <2>1. overlapped' = overlapped /\ req[x].pc # "idle"
      BY DEF Steps, Register, CheckCached, RegisterFails, Undo, UndoFails,
         DisableFails, DeleteRow, CheckFetch, CountGrants, Disable, InsertGrant,
         StoreFails
    <2>2. CASE x # r
      <3>1. req'[r] = req[r]
        BY <2>2, RegisterEffect, CachedEffect, ReturnEffect, GotoEffect,
           FailEffect
           DEF Steps, Register, CheckCached, RegisterFails, Undo, UndoFails,
           DisableFails, DeleteRow, CheckFetch, CountGrants, Disable,
           InsertGrant, StoreFails, Changes
      <3> QED BY <2>1, <2>2, <3>1 DEF Alone
    <2>3. CASE x = r
      <3>1. Disable(r)
        BY <2>3, RegisterEffect, CachedEffect, ReturnEffect, GotoEffect,
           FailEffect, FreeType
           DEF Steps, Register, CheckCached, RegisterFails, Undo, UndoFails,
           DisableFails, DeleteRow, CheckFetch, CountGrants, InsertGrant,
           StoreFails
      <3>2. req'[r].agent = req[r].agent /\ req[r].agent \in Agent
        BY <3>1, GotoEffect DEF Disable, Named
      <3> QED BY <3>1, <3>2 DEF Disable, Post, TypeOK
    <2> QED BY <2>2, <2>3
  <1>2. ASSUME NEW a \in Agent, FetchDone(a) \/ FetchFails(a)
        PROVE  accepting'[req'[r].agent] = "no"
    <2>1. req'[r] = req[r]
      BY <1>2, AnswerEffect
    <2>2. UNCHANGED <<accepting, overlapped>>
      BY <1>2 DEF FetchDone, FetchFails
    <2> QED BY <2>1, <2>2 DEF Stopped
  <1>3. ASSUME NEW a \in Agent, AuthFetch(a) \/ CacheExpires(a)
        PROVE  accepting'[req'[r].agent] = "no"
    BY <1>3 DEF AuthFetch, CacheExpires, Stopped
  <1>4. CASE Restart
    BY <1>4, FreeType DEF Restart
  <1>5. CASE UNCHANGED vars
    BY <1>5 DEF vars, Stopped
  <1> QED BY <1>0, <1>1, <1>2, <1>3, <1>4, <1>5, StepCases
\* Whatever fails and wherever the process restarts, with requests one after
\* another a grant goes only when fmsgid has stopped its address (Delete).
THEOREM DeletesStopFirst == Spec => DeletedIsStopped
  <1> DEFINE Inv == Typed /\ Alone /\ Stopped
  <1>1. Init => Inv
    <2>1. Init => Stopped
      BY FreeType DEF Init, Stopped
    <2> QED BY <2>1, TypedInit, OneByOneInit
  <1>2. Inv /\ [Next]_vars => Inv'
    BY TypedStep, AloneStep, StoppedStep
  <1>3. Inv /\ [Next]_vars
          => [~overlapped => \A a \in grant \ grant' : accepting[a] = "no"]_vars
    <2> SUFFICES ASSUME Inv, [Next]_vars, ~overlapped,
                        NEW a \in grant, a \notin grant'
                 PROVE  accepting[a] = "no"
      OBVIOUS
    <2>1. \E r \in Req : req[r].pc = "deleteRow" /\ req[r].agent = a
      <3>1. ASSUME NEW r \in Req, Steps(r)
            PROVE  req[r].pc = "deleteRow" /\ req[r].agent = a
        BY <3>1 DEF Steps, Register, CheckCached, RegisterFails, Undo,
           UndoFails, DisableFails, DeleteRow, CheckFetch, CountGrants, Disable,
           InsertGrant, StoreFails
      <3>2. ASSUME NEW r \in Req, NEW b \in Agent, Starts(r, b)
            PROVE  FALSE
        BY <3>2, StartEffect
      <3> QED BY <3>1, <3>2, StepCases DEF FetchDone, FetchFails, AuthFetch,
              CacheExpires, Restart, vars
    <2> QED BY <2>1 DEF Stopped
  <1> QED BY <1>1, <1>2, <1>3, PTL DEF Spec, DeletedIsStopped

-----------------------------------------------------------------------------
(***************************************************************************)
(* Accepting messages                                                      *)
(***************************************************************************)

LEMMA KnowsInit == Init => Knows
  <1> SUFFICES ASSUME Init PROVE Knows
    OBVIOUS
  <1>1. \A r \in Req : req[r].pc = "idle"
    BY FreeType DEF Init
  <1>2. \A a \in Agent : /\ accepting[a] = "unknown" => a \in Fresh
                         /\ accepting[a] # "yes"
                         /\ a \notin grant
    BY DEF Init
  <1> QED BY <1>1, <1>2 DEF Knows, Settled
CreatePC == {"check", "await", "count", "insert"}

\* Other agents than that of the only request running are settled.
LEMMA OnlyOne ==
    ASSUME Alone, Knows, ~overlapped, ~failed, NEW x \in Req,
           req[x].pc # "idle"
    PROVE  /\ \A r \in Req \ {x} : req[r].pc = "idle"
           /\ \A b \in Agent \ {req[x].agent} : Settled(b)
           /\ ~Midway(x) => \A b \in Agent : Settled(b)
  BY DEF Alone, Knows, Midway

\* The step of the only request running, x, keeps Knows if it leaves the other
\* agents alone and its own settled, or midway as it should be.
LEMMA OneSteps ==
    ASSUME Typed, Alone, Knows, ~overlapped, ~failed,
           NEW x \in Req, req[x].pc # "idle", NEW a \in Agent,
           a = req[x].agent, Changes(x),
           \A b \in Agent \ {a} : /\ accepting'[b] = accepting[b]
                                  /\ b \in grant' <=> b \in grant,
           accepting'[a] = "unknown" => a \in Fresh,
           ~Midway(x)' => Settled(a)',
           Midway(x)' => req'[x].agent = a,
           req'[x].pc \in CreatePC => Creating(x)',
           req'[x].pc = "undo" => a \notin grant'
    PROVE  Knows'
  <1>1. \A r \in Req \ {x} : req[r].pc = "idle" /\ req'[r].pc = "idle"
    BY OnlyOne DEF Changes
  <1>2. \A b \in Agent : accepting'[b] = "unknown" => b \in Fresh
    BY DEF Knows
  <1>3. \A b \in Agent \ {a} : Settled(b)'
    BY OnlyOne DEF Settled
  <1>4. \A b \in Agent : \/ Settled(b)'
                         \/ \E r \in Req : Midway(r)' /\ req'[r].agent = b
    BY <1>3
  <1>5. \A r \in Req : /\ req'[r].pc \in CreatePC => Creating(r)'
                       /\ req'[r].pc = "undo" => req'[r].agent \notin grant'
    BY <1>1 DEF CreatePC, Midway
  <1> QED BY <1>2, <1>4, <1>5 DEF Knows, CreatePC

\* A create that is past its registration goes on, ends or is undone.
LEMMA CreateGoesOn ==
    ASSUME Typed, Alone, Knows, ~overlapped, ~failed,
           NEW x \in Req, req[x].pc \in CreatePC,
           UNCHANGED <<grant, accepting>>, Changes(x),
           req'[x].pc \in {"idle", "undo"} \cup CreatePC,
           req'[x].pc # "idle" => req'[x].agent = req[x].agent,
           req'[x].pc \in CreatePC => req'[x].reinstated = req[x].reinstated,
           req'[x].pc = "undo" => req[x].reinstated,
           req'[x].pc = "idle" => ~req[x].reinstated
    PROVE  Knows'
  <1> PICK a : a = req[x].agent
    OBVIOUS
  <1>1. a \in Agent /\ req[x].pc # "idle"
    BY DEF Typed, Named, CreatePC
  <1>2. Creating(x)
    BY DEF Knows, CreatePC
  <1>3. accepting'[a] # "unknown"
    BY <1>2 DEF Creating
  <1>4. ~Midway(x)' => Settled(a)'
    BY <1>2 DEF Midway, Creating, Settled, CreatePC
  <1>5. req'[x].pc \in CreatePC => Creating(x)'
    BY <1>2 DEF Creating, CreatePC
  <1>6. req'[x].pc = "undo" => a \notin grant'
    BY <1>2 DEF Creating
  <1>7. Midway(x)' => req'[x].agent = a
    BY DEF Midway
  <1> QED BY <1>1, <1>3, <1>4, <1>5, <1>6, <1>7, OneSteps

LEMMA StepKnows ==
    ASSUME Typed, Alone, Stopped, Knows, ~overlapped, ~failed, ~failed',
           NEW x \in Req, Steps(x)
    PROVE  Knows'
  <1> USE DEF PC
  <1>0. req[x].pc # "idle" => req[x].agent \in Agent /\ TypeOK
    BY DEF Typed, Named
  <1> PICK a : a = req[x].agent
    OBVIOUS
  <1>1. CASE Register(x)
    <2>1. req[x].pc = "register" /\ Post(a, "yes") /\ grant' = grant
      BY <1>1 DEF Register
    <2>2. Settled(a) /\ (accepting[a] = "unknown" => a \in Fresh)
      BY <1>0, <2>1, OnlyOne DEF Midway, Knows
    <2>3. accepting'[a] = "yes"
          /\ \A b \in Agent \ {a} : accepting'[b] = accepting[b]
      BY <1>0, <2>1 DEF Post, TypeOK
    <2>4. /\ Changes(x) /\ req'[x].pc = "check" /\ req'[x].agent = a
          /\ req'[x].reinstated <=> accepting[a] = "no"
      BY <1>0, <1>1, <2>1, RegisterEffect
    <2>5. accepting[a] \in {"unknown", "yes", "no"}
      BY <1>0, <2>1 DEF TypeOK, Answer
    <2>6. Creating(x)'
      BY <2>1, <2>2, <2>3, <2>4, <2>5 DEF Creating, Settled
    <2>7. Midway(x)'
      BY <2>4 DEF Midway
    <2> QED BY <1>0, <2>1, <2>3, <2>4, <2>6, <2>7, OneSteps DEF CreatePC
  <1>2. CASE CheckCached(x)
    <2>1. req[x].pc = "check" /\ UNCHANGED <<grant, accepting>>
      BY <1>2 DEF CheckCached
    <2> QED BY <1>0, <1>2, <2>1, CachedEffect, CreateGoesOn DEF CreatePC
  <1>3. CASE CheckFetch(x)
    <2>1. req[x].pc = "check" /\ UNCHANGED <<grant, accepting>>
      BY <1>3 DEF CheckFetch
    <2>2. Goto(x, "await")
      BY <1>3 DEF CheckFetch
    <2> QED BY <1>0, <2>1, <2>2, GotoEffect, CreateGoesOn DEF CreatePC
  <1>4. CASE CountGrants(x)
    <2>1. req[x].pc = "count" /\ UNCHANGED <<grant, accepting>>
      BY <1>4 DEF CountGrants
    <2>2. CASE Goto(x, "insert")
      BY <1>0, <2>1, <2>2, GotoEffect, CreateGoesOn DEF CreatePC
    <2>3. CASE Fail(x)
      BY <1>0, <2>1, <2>3, FailEffect, CreateGoesOn DEF CreatePC
    <2> QED BY <1>4, <2>2, <2>3 DEF CountGrants
  <1>5. CASE InsertGrant(x)
    <2>1. req[x].pc = "insert" /\ accepting' = accepting
          /\ grant' = grant \cup {a}
      BY <1>5 DEF InsertGrant
    <2>2. Creating(x)
      BY <2>1 DEF Knows
    <2>3. Changes(x) /\ req'[x].pc = "idle"
      <3>1. CASE a \in grant
        BY <1>0, <1>5, <2>1, <2>2, <3>1, FailEffect DEF InsertGrant, Creating
      <3>2. CASE a \notin grant
        BY <1>0, <1>5, <2>1, <3>2, ReturnEffect, FreeType DEF InsertGrant
      <3> QED BY <3>1, <3>2
    <2>4. Settled(a)' /\ accepting'[a] # "unknown"
      BY <2>1, <2>2 DEF Settled, Creating
    <2>5. ~Midway(x)'
      BY <2>3 DEF Midway
    <2> QED BY <1>0, <2>1, <2>3, <2>4, <2>5, OneSteps DEF CreatePC
  <1>6. CASE Undo(x)
    <2>1. req[x].pc = "undo" /\ Post(a, "no") /\ grant' = grant /\ Return(x)
      BY <1>6 DEF Undo
    <2>2. Changes(x) /\ req'[x].pc = "idle"
      BY <1>0, <2>1, ReturnEffect, FreeType
    <2>3. accepting'[a] = "no"
          /\ \A b \in Agent \ {a} : accepting'[b] = accepting[b]
      BY <1>0, <2>1 DEF Post, TypeOK
    <2>4. Settled(a)'
      BY <2>1, <2>3 DEF Settled, Knows
    <2>5. ~Midway(x)'
      BY <2>2 DEF Midway
    <2> QED BY <1>0, <2>1, <2>2, <2>3, <2>4, <2>5, OneSteps DEF CreatePC
  <1>7. CASE Disable(x)
    <2>1. /\ req[x].pc = "disable" /\ Post(a, "no") /\ grant' = grant
          /\ Goto(x, "deleteRow")
      BY <1>7 DEF Disable
    <2>2. Changes(x) /\ req'[x].pc = "deleteRow" /\ req'[x].agent = a
      BY <1>0, <2>1, GotoEffect
    <2>3. accepting'[a] = "no"
          /\ \A b \in Agent \ {a} : accepting'[b] = accepting[b]
      BY <1>0, <2>1 DEF Post, TypeOK
    <2>4. Midway(x)'
      BY <2>2 DEF Midway
    <2> QED BY <1>0, <2>1, <2>2, <2>3, <2>4, OneSteps DEF CreatePC
  <1>8. CASE DeleteRow(x)
    <2>1. /\ req[x].pc = "deleteRow" /\ grant' = grant \ {a}
          /\ accepting' = accepting /\ Return(x)
      BY <1>8 DEF DeleteRow
    <2>2. Changes(x) /\ req'[x].pc = "idle"
      BY <1>0, <2>1, ReturnEffect, FreeType
    <2>3. accepting'[a] = "no"
      BY <2>1 DEF Stopped
    <2>4. Settled(a)'
      BY <2>1, <2>3 DEF Settled
    <2>5. ~Midway(x)'
      BY <2>2 DEF Midway
    <2> QED BY <1>0, <2>1, <2>2, <2>3, <2>4, <2>5, OneSteps DEF CreatePC
  <1>9. CASE RegisterFails(x) \/ UndoFails(x) \/ DisableFails(x) \/ StoreFails(x)
    BY <1>9 DEF RegisterFails, UndoFails, DisableFails, StoreFails, PostFails
  <1> QED BY <1>1, <1>2, <1>3, <1>4, <1>5, <1>6, <1>7, <1>8, <1>9 DEF Steps

LEMMA KnowsStep ==
    Typed /\ Alone /\ Stopped /\ Knows /\ [Next]_vars => Knows'
  <1> SUFFICES ASSUME Typed, Alone, Stopped, Knows, [Next]_vars,
                      ~overlapped', ~failed'
               PROVE  Knows'
    BY DEF Knows
  <1>1. ~overlapped
    BY GoesOn, StartEffect
  <1>2. ~failed
    <2>1. ASSUME NEW x \in Req, Steps(x)
          PROVE  failed => failed'
      BY <2>1 DEF Steps, Register, CheckCached, RegisterFails, Undo,
           UndoFails, DisableFails, DeleteRow, CheckFetch, CountGrants, Disable,
           InsertGrant, StoreFails, Post, PostFails
    <2>2. ASSUME NEW r \in Req, NEW b \in Agent, Starts(r, b)
          PROVE  failed => failed'
      BY <2>2, StartEffect
    <2> QED BY <2>1, <2>2, StepCases DEF FetchDone, FetchFails, AuthFetch,
            CacheExpires, Restart, vars
  <1>3. ASSUME NEW r \in Req, NEW b \in Agent, Starts(r, b)
        PROVE  Knows'
    <2>1. /\ UNCHANGED <<grant, accepting>>
          /\ \A o \in Req : req[o].pc = "idle"
          /\ \A o \in Req : req'[o].pc \in {"idle", "register", "disable"}
      BY <1>3, StartEffect DEF Changes
    <2>2. \A c \in Agent : Settled(c)
      BY <1>1, <1>2, <2>1 DEF Knows, Midway
    <2>3. \A c \in Agent : Settled(c)'
      BY <2>1, <2>2 DEF Settled
    <2> QED BY <1>1, <1>2, <2>1, <2>3 DEF Knows
  <1>4. ASSUME NEW b \in Agent, FetchDone(b)
        PROVE  Knows'
    <2>1. UNCHANGED <<grant, accepting>>
      BY <1>4 DEF FetchDone
    <2>2. ASSUME NEW r \in Req, req'[r] # req[r]
          PROVE  Knows'
      <3>1. \A o \in Req \ {r} : req[o].pc = "idle" /\ req'[o] = req[o]
        BY <1>1, <1>4, <2>2, AnswerEffect DEF Alone, Typed
      <3>2. Changes(r)
        BY <1>4, <3>1, AnswerEffect DEF Changes, Typed
      <3> QED BY <1>1, <1>2, <1>4, <2>1, <2>2, <3>2, AnswerEffect, CreateGoesOn
              DEF CreatePC, Typed
    <2>3. CASE \A r \in Req : req'[r] = req[r]
      BY <1>1, <1>2, <2>1, <2>3 DEF Knows, Settled, Midway, Creating
    <2> QED BY <2>2, <2>3
  <1>5. ASSUME UNCHANGED <<grant, accepting, req>>
        PROVE  Knows'
    BY <1>1, <1>2, <1>5 DEF Knows, Settled, Midway, Creating
  <1>6. ASSUME NEW x \in Req, Steps(x)
        PROVE  Knows'
    BY <1>1, <1>2, <1>6, StepKnows
  <1> QED BY <1>3, <1>4, <1>5, <1>6, StepCases
          DEF FetchFails, AuthFetch, CacheExpires, Restart, vars

\* With requests one after another and no failure, an address accepts messages
\* exactly while it has a grant, also when a reinstatement had to be undone,
\* whatever lookups are cached or in flight (Create, Delete, checkFmsgID).
THEOREM AcceptsExactlyWhileGranted == Spec => []AcceptsWhileGranted
  <1>1. Init => IInv
    <2>1. Init => Stopped
      BY FreeType DEF Init, Stopped
    <2> QED BY <2>1, TypedInit, OneByOneInit, KnowsInit DEF IInv
  <1>2. IInv /\ [Next]_vars => IInv'
    BY TypedStep, AloneStep, CountedStep, StoppedStep, KnowsStep DEF IInv
  <1>3. IInv => AcceptsWhileGranted
    BY DEF IInv, Knows, AcceptsWhileGranted, Idle, Midway, Settled, Typed, TypeOK
  <1> QED BY <1>1, <1>2, <1>3, PTL DEF Spec
=============================================================================
