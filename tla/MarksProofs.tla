----------------------------- MODULE MarksProofs ----------------------------
(***************************************************************************)
(* The time a message was read, for any number of requests of its reader   *)
(* and any clock; and the reactions shown, for any number of reactors and  *)
(* reactions.                                                              *)
(*                                                                         *)
(* MarkRead writes the two recipient tables one after the other, the       *)
(* original recipients first, and what is shown prefers that table too: so *)
(* a row of an added recipient is only ever filled when there is no empty  *)
(* original row left that could cover it (ToFirst).  What a single request *)
(* answers with is what it, or an earlier one, wrote (Alone).              *)
(*                                                                         *)
(* For the reactions, the two loops of effectiveReactions are shown to     *)
(* compute what ShowsTheNewest says of any list of rows (HasNewest and     *)
(* IsGrouped are their loop invariants, KeepStep and GroupStep one round); *)
(* of the rows it needs only that they can be told apart (Told).           *)
(***************************************************************************)
EXTENDS Marks, FiniteSetTheorems, WellFoundedInduction, TLAPS

Running(r) == req[r] # None

\* A request has its time once its first UPDATE is done.
Stored == /\ IsFiniteSet(reactions)
          /\ \A r \in Req : Running(r) /\ req[r].at = 2 => req[r].now \in Time

ToFirst ==
    /\ read.to = None => read.addTo # None
    /\ read.addTo \in Time => read.to # Null
    /\ \A r \in Req : Running(r) /\ req[r].at = 2 => read.to # Null

Alone ==
    ~crossed =>
        /\ said \subseteq {ShownTimeRead}
        /\ \A q, r \in Req : Running(q) /\ Running(r) => q = r
        /\ \A r \in Req : Running(r) =>
              \/ req[r].at = 1 /\ ShownTimeRead = Null
              \/ /\ req[r].at = 2
                 /\ \/ read.to = req[r].now
                    \/ read.to = None /\ read.addTo = Null

IInv == TypeOK /\ Stored /\ ToFirst /\ Alone
-----------------------------------------------------------------------------
(***************************************************************************)
(* Types                                                                   *)
(***************************************************************************)

LEMMA MarksInit == Init => IInv
  <1> SUFFICES ASSUME Init PROVE IInv
    OBVIOUS
  <1>1. 1 \in Time /\ Null \notin Time
    BY MarksAssumption DEF Time, Null
  <1>2. \A r \in Req : ~Running(r)
    BY DEF Init, Running
  <1>3. PICK row \in Table :
                read = [t \in Table |-> IF t = row THEN Null ELSE None]
    BY DEF Init
  <1>4. /\ read \in [Table -> Time \cup {Null, None}]
        /\ \/ read.to = Null /\ read.addTo = None
           \/ read.to = None /\ read.addTo = Null
    BY <1>3 DEF Table
  <1>5. TypeOK
    BY <1>1, <1>4 DEF Init, TypeOK, Reaction
  <1>6. Stored
    BY <1>2, FS_EmptySet DEF Init, Stored
  <1>7. ToFirst
    BY <1>1, <1>2, <1>4, NoneAssumption DEF ToFirst
  <1>8. Alone
    BY <1>2 DEF Alone, Init
  <1> QED BY <1>5, <1>6, <1>7, <1>8 DEF IInv
\* Storing a reaction.
LEMMA StoreEffect ==
    ASSUME TypeOK, Stored, NEW a \in Local \cup Remote, NEW time \in Time,
           NEW emoji \in Reaction, Store(a, time, emoji)
    PROVE  reactions' \subseteq Row /\ IsFiniteSet(reactions')
  <1>1. PICK hash \in Hash :
           reactions' = reactions \cup
               {[id |-> Cardinality(reactions) + 1, from |-> a, time |-> time,
                 hash |-> hash, emoji |-> emoji]}
    BY DEF Store
  <1>2. Cardinality(reactions) + 1 \in 1 .. MaxRows
    BY FS_CardinalityType, MarksAssumption DEF Store, Stored
  <1>3. [id |-> Cardinality(reactions) + 1, from |-> a, time |-> time,
         hash |-> hash, emoji |-> emoji] \in Row
    BY <1>2 DEF Row
  <1>4. IsFiniteSet(reactions')
    BY <1>1, FS_AddElement DEF Stored
  <1> QED BY <1>1, <1>3, <1>4 DEF TypeOK

\* A step other than MarkRead's, as far as its types go.
Reacts ==
    /\ UNCHANGED readVars
    /\ reactions' \subseteq Row /\ IsFiniteSet(reactions')
    /\ clock' \in Time
    /\ want' \in [Local -> Reaction]
    /\ unsure' \subseteq Local
    /\ setBack' \in BOOLEAN

LEMMA ReactsStep ==
    ASSUME TypeOK, Stored, Tick \/ SetBack \/ Reacting \/ UNCHANGED vars
    PROVE  Reacts
  <1> USE DEF readVars, reactVars
  <1>0. IsFiniteSet(reactions)
    BY DEF Stored
  <1>1. CASE Tick \/ SetBack
    <2>1. clock' \in Time
      BY <1>1, MarksAssumption DEF Tick, SetBack, TypeOK, Time
    <2>2. setBack' \in BOOLEAN /\ UNCHANGED <<readVars, reactVars>>
      BY <1>1 DEF Tick, SetBack, TypeOK
    <2> QED BY <1>0, <2>1, <2>2 DEF Reacts, TypeOK
  <1>2. ASSUME NEW a \in Local, NEW e \in Reaction, ReactAgain(a, e)
        PROVE  Reacts
    BY <1>0, <1>2 DEF ReactAgain, Reacts, TypeOK
  <1>3. ASSUME NEW a \in Local, NEW e \in Reaction, NEW ack \in BOOLEAN,
               React(a, e, ack)
        PROVE  Reacts
    <2>1. reactions' \subseteq Row /\ IsFiniteSet(reactions')
      BY <1>3, StoreEffect DEF React, TypeOK
    <2>2. clock' \in Time
      BY <1>3, MarksAssumption DEF React, TypeOK, Time
    <2> QED BY <1>3, <2>1, <2>2 DEF React, Reacts, TypeOK
  <1>4. ASSUME NEW a \in Remote, NEW t \in Time, NEW e \in Reaction,
               Receive(a, t, e)
        PROVE  Reacts
    <2>1. reactions' \subseteq Row /\ IsFiniteSet(reactions')
      BY <1>4, StoreEffect DEF Receive
    <2> QED BY <1>4, <2>1 DEF Receive, Reacts, TypeOK
  <1>5. CASE UNCHANGED vars
    BY <1>0, <1>5 DEF vars, Reacts, TypeOK
  <1> QED BY <1>1, <1>2, <1>3, <1>4, <1>5 DEF Reacting

LEMMA StepCases ==
    ASSUME TypeOK, Stored, [Next]_vars
    PROVE  /\ UNCHANGED focus
           /\ \/ Reacts
              \/ AddReader
              \/ \E r \in Req : MarkRead(r) \/ UpdateRead(r) \/ MarkReadFails(r)
  BY ReactsStep DEF Next, Reading, vars

LEMMA TypeStep ==
    ASSUME TypeOK, Stored, [Next]_vars
    PROVE  TypeOK' /\ Stored'
  <1> USE DEF reactVars
  <1>1. CASE Reacts
    BY <1>1, StepCases DEF Reacts, readVars, TypeOK, Stored, Running
  <1>2. CASE AddReader
    <2>1. read' \in [Table -> Time \cup {Null, None}]
      BY <1>2 DEF AddReader, TypeOK
    <2> QED BY <1>2, <2>1, StepCases DEF AddReader, TypeOK, Stored, Running
  <1>3. ASSUME NEW r \in Req, MarkRead(r)
        PROVE  TypeOK' /\ Stored'
    <2>1. TimeRead \in Time \cup {Null}
      BY DEF TimeRead, Coalesce
    <2>2. [at |-> 1, now |-> Null] \in Request
      BY DEF Request
    <2>3. /\ req' \in [Req -> Request \cup {None}]
          /\ said' \subseteq Time
      BY <1>3, <2>2, <2>1 DEF MarkRead, TypeOK
    <2>4. crossed' \in BOOLEAN
      BY <1>3, Zenon DEF MarkRead, TypeOK
    <2>5. \A q \in Req : req'[q] = req[q] \/ req'[q] = [at |-> 1, now |-> Null]
      BY <1>3 DEF MarkRead, TypeOK
    <2>6. Stored'
      BY <1>3, <2>5 DEF MarkRead, Stored, Running
    <2> QED BY <1>3, <2>3, <2>6, <2>4, StepCases DEF MarkRead, TypeOK
  <1>4. ASSUME NEW r \in Req, UpdateRead(r)
        PROVE  TypeOK' /\ Stored'
    <2>1. req[r] \in Request
      BY <1>4 DEF UpdateRead, TypeOK
    <2> PICK now : now = IF req[r].at = 1 THEN clock ELSE req[r].now
      OBVIOUS
    <2>2. now \in Time
      BY <1>4, <2>1 DEF UpdateRead, Stored, Running, TypeOK, Request
    <2>3. [at |-> 2, now |-> now] \in Request
      BY <2>2 DEF Request
    <2>4. /\ read' = [read EXCEPT ![Tables[req[r].at]] =
                                       IF @ = Null THEN now ELSE @]
          /\ req' \in {[req EXCEPT ![r] = [at |-> 2, now |-> now]],
                       [req EXCEPT ![r] = None]}
          /\ said' \in {said, said \cup {now}}
      BY <1>4 DEF UpdateRead
    <2>5. /\ read' \in [Table -> Time \cup {Null, None}]
          /\ req' \in [Req -> Request \cup {None}]
          /\ said' \subseteq Time
      BY <2>2, <2>3, <2>4 DEF TypeOK
    <2>6. \A q \in Req : \/ req'[q] = req[q] \/ req'[q] = None
                         \/ req'[q].now = now
      BY <1>4 DEF UpdateRead, TypeOK
    <2>7. Stored'
      BY <1>4, <2>2, <2>6 DEF UpdateRead, Stored, Running
    <2> QED BY <1>4, <2>5, <2>7, StepCases DEF UpdateRead, TypeOK
  <1>5. ASSUME NEW r \in Req, MarkReadFails(r)
        PROVE  TypeOK' /\ Stored'
    BY <1>5, StepCases DEF MarkReadFails, TypeOK, Stored, Running
  <1> QED BY <1>1, <1>2, <1>3, <1>4, <1>5, StepCases

\* The types of Marks: the time a recipient read, the requests at it, and
\* the reactions stored.
THEOREM MarksTyped == Spec => []TypeOK
  <1>1. Init => TypeOK /\ Stored
    BY MarksInit DEF IInv
  <1> QED BY <1>1, TypeStep, PTL DEF Spec
-----------------------------------------------------------------------------
(***************************************************************************)
(* The time read                                                           *)
(***************************************************************************)

LEMMA NullIs == Null \notin Time /\ None \notin Time /\ None # Null
  BY NoneAssumption DEF Null, Time

LEMMA ReadFields ==
    ASSUME TypeOK
    PROVE  /\ read.to \in Time \cup {Null, None}
           /\ read.addTo \in Time \cup {Null, None}
           /\ clock \in Time
           /\ \A r \in Req : Running(r) => req[r].at \in {1, 2}
  BY DEF TypeOK, Table, Running, Request

Stands == ShownTimeRead # Null => ShownTimeRead' = ShownTimeRead

LEMMA AddReaderEffect ==
    ASSUME TypeOK, AddReader
    PROVE  /\ read.addTo = None
           /\ read'.to = read.to /\ read'.addTo = Null
           /\ UNCHANGED <<req, said, crossed>>
  BY DEF AddReader, TypeOK, Table

LEMMA FirstUpdate ==
    ASSUME TypeOK, NEW r \in Req, UpdateRead(r), req[r].at = 1
    PROVE  /\ Running(r)
           /\ read'.to = IF read.to = Null THEN clock ELSE read.to
           /\ read'.addTo = read.addTo
           /\ req'[r] = [at |-> 2, now |-> clock]
           /\ \A q \in Req \ {r} : req'[q] = req[q]
           /\ UNCHANGED <<said, crossed>>
  BY DEF UpdateRead, TypeOK, Table, Tables, Running

LEMMA SecondUpdate ==
    ASSUME TypeOK, NEW r \in Req, UpdateRead(r), req[r].at = 2
    PROVE  /\ Running(r)
           /\ read'.to = read.to
           /\ read'.addTo = IF read.addTo = Null THEN req[r].now
                            ELSE read.addTo
           /\ req'[r] = None
           /\ \A q \in Req \ {r} : req'[q] = req[q]
           /\ said' = said \cup {req[r].now}
           /\ UNCHANGED crossed
  BY DEF UpdateRead, TypeOK, Table, Tables, Running

LEMMA MarkReadEffect ==
    ASSUME TypeOK, NEW r \in Req, MarkRead(r)
    PROVE  /\ UNCHANGED read /\ ~Running(r)
           /\ \/ /\ ShownTimeRead # Null /\ said' = said \cup {ShownTimeRead}
                 /\ UNCHANGED <<req, crossed>>
              \/ /\ ShownTimeRead = Null
                 /\ req'[r] = [at |-> 1, now |-> Null]
                 /\ \A q \in Req \ {r} : req'[q] = req[q]
                 /\ ~crossed' => ~crossed /\ \A q \in Req : ~Running(q)
                 /\ UNCHANGED said
  BY DEF MarkRead, TypeOK, TimeRead, ShownTimeRead, Running

\* A table is written only while nothing to be preferred to it can follow.
LEMMA ToFirstStep ==
    ASSUME TypeOK, Stored, ToFirst, [Next]_vars
    PROVE  ToFirst' /\ Stands
  <1> USE NullIs, ReadFields
  <1>1. CASE UNCHANGED <<read, req>>
    BY <1>1 DEF ToFirst, Stands, Running, ShownTimeRead
  <1>2. CASE AddReader
    <2>1. /\ read.addTo = None /\ read'.to = read.to /\ read'.addTo = Null
          /\ UNCHANGED req
      BY <1>2, AddReaderEffect
    <2>2. ToFirst'
      BY <2>1 DEF ToFirst, Running
    <2>3. Stands
      BY <2>1 DEF Stands, ShownTimeRead, Coalesce
    <2> QED BY <2>2, <2>3
  <1>3. ASSUME NEW r \in Req, MarkRead(r)
        PROVE  ToFirst' /\ Stands
    <2>1. /\ UNCHANGED read
          /\ \A q \in Req : req'[q] = req[q] \/ req'[q].at = 1
      BY <1>3, MarkReadEffect
    <2> QED BY <2>1 DEF ToFirst, Stands, Running, ShownTimeRead
  <1>4. ASSUME NEW r \in Req, UpdateRead(r), req[r].at = 1
        PROVE  ToFirst' /\ Stands
    <2>1. /\ read'.to = IF read.to = Null THEN clock ELSE read.to
          /\ read'.addTo = read.addTo
      BY <1>4, FirstUpdate
    <2>2. read'.to # Null /\ (read'.to = None => read.to = None)
      BY <2>1
    <2>3. ToFirst'
      BY <2>1, <2>2 DEF ToFirst
    <2>4. Stands
      BY <2>1 DEF Stands, ToFirst, ShownTimeRead, Coalesce
    <2> QED BY <2>3, <2>4
  <1>5. ASSUME NEW r \in Req, UpdateRead(r), req[r].at = 2
        PROVE  ToFirst' /\ Stands
    <2>1. /\ Running(r) /\ read'.to = read.to
          /\ read'.addTo = IF read.addTo = Null THEN req[r].now ELSE read.addTo
          /\ \A q \in Req : req'[q] = req[q] \/ req'[q] = None
      BY <1>5, SecondUpdate
    <2>2. read.to # Null /\ req[r].now \in Time
      BY <1>5, <2>1 DEF ToFirst, Stored
    <2>3. ToFirst'
      BY <2>1, <2>2 DEF ToFirst, Running
    <2>4. Stands
      BY <2>1 DEF Stands, ShownTimeRead, Coalesce
    <2> QED BY <2>3, <2>4
  <1>6. ASSUME NEW r \in Req, MarkReadFails(r)
        PROVE  ToFirst' /\ Stands
    <2>1. UNCHANGED read /\ \A q \in Req : req'[q] = req[q] \/ req'[q] = None
      BY <1>6 DEF MarkReadFails, TypeOK
    <2> QED BY <2>1 DEF ToFirst, Stands, Running, ShownTimeRead
  <1>7. ASSUME NEW r \in Req, UpdateRead(r)
        PROVE  ToFirst' /\ Stands
    <2>1. req[r].at \in {1, 2}
      BY <1>7 DEF UpdateRead, Running
    <2> QED BY <1>4, <1>5, <1>7, <2>1
  <1> QED BY <1>1, <1>2, <1>3, <1>6, <1>7, StepCases DEF Reacts, readVars
\* What a single request, or one after another, answers with.
LEMMA AloneStep ==
    ASSUME TypeOK, Stored, ToFirst, Alone, [Next]_vars
    PROVE  Alone'
  <1> USE NullIs, ReadFields
  <1>1. CASE UNCHANGED <<read, req, said, crossed>>
    BY <1>1 DEF Alone, Running, ShownTimeRead
  <1>2. CASE AddReader
    <2>1. /\ read.addTo = None /\ read'.to = read.to /\ read'.addTo = Null
          /\ UNCHANGED <<req, said, crossed>>
      BY <1>2, AddReaderEffect
    <2>2. ShownTimeRead' = ShownTimeRead
      BY <2>1 DEF ShownTimeRead, Coalesce
    <2> QED BY <2>1, <2>2 DEF Alone, Running
  <1>3. ASSUME NEW r \in Req, MarkRead(r), ~crossed'
        PROVE  Alone'
    <2>1. UNCHANGED read
      BY <1>3, MarkReadEffect
    <2>2. ShownTimeRead' = ShownTimeRead
      BY <2>1 DEF ShownTimeRead
    <2>3. CASE said' = said \cup {ShownTimeRead} /\ UNCHANGED <<req, crossed>>
      BY <2>1, <2>2, <2>3 DEF Alone, Running
    <2>4. ASSUME ShownTimeRead = Null, req'[r] = [at |-> 1, now |-> Null],
                 \A q \in Req \ {r} : req'[q] = req[q],
                 ~crossed, \A q \in Req : ~Running(q), UNCHANGED said
          PROVE  Alone'
      <3>1. \A q \in Req : Running(q)' => q = r
        BY <2>4 DEF Running
      <3>2. req'[r].at = 1
        BY <2>4
      <3> QED BY <2>1, <2>2, <2>4, <3>1, <3>2 DEF Alone
    <2> QED BY <1>3, <2>3, <2>4, MarkReadEffect
  <1>4. ASSUME NEW r \in Req, UpdateRead(r), req[r].at = 1, ~crossed'
        PROVE  Alone'
    <2>1. /\ Running(r) /\ ~crossed
          /\ read'.to = IF read.to = Null THEN clock ELSE read.to
          /\ read'.addTo = read.addTo
          /\ req'[r].at = 2 /\ req'[r].now = clock
          /\ \A q \in Req \ {r} : req'[q] = req[q]
          /\ UNCHANGED said
      BY <1>4, FirstUpdate
    <2>2. /\ ShownTimeRead = Null /\ said \subseteq {Null}
          /\ \A q \in Req : Running(q) => q = r
      BY <1>4, <2>1 DEF Alone
    <2>3. read.to \notin Time /\ read.addTo \notin Time
      BY <2>2 DEF ShownTimeRead, Coalesce
    <2>4. read'.to = clock \/ (read'.to = None /\ read'.addTo = Null)
      BY <2>1, <2>3 DEF ToFirst
    <2>5. said = {}
      BY <2>2 DEF TypeOK
    <2>6. \A q \in Req : Running(q)' => q = r
      BY <2>1, <2>2 DEF Running
    <2> QED BY <2>1, <2>4, <2>5, <2>6 DEF Alone
  <1>5. ASSUME NEW r \in Req, UpdateRead(r), req[r].at = 2, ~crossed'
        PROVE  Alone'
    <2>1. /\ Running(r) /\ ~crossed /\ read'.to = read.to
          /\ read'.addTo = IF read.addTo = Null THEN req[r].now ELSE read.addTo
          /\ req'[r] = None
          /\ \A q \in Req \ {r} : req'[q] = req[q]
          /\ said' = said \cup {req[r].now}
      BY <1>5, SecondUpdate
    <2>2. /\ \/ read.to = req[r].now
             \/ read.to = None /\ read.addTo = Null
          /\ said \subseteq {ShownTimeRead}
          /\ \A q \in Req : Running(q) => q = r
          /\ req[r].now \in Time
      BY <1>5, <2>1 DEF Alone, Stored
    <2>3. ShownTimeRead' = req[r].now
      BY <2>1, <2>2 DEF ShownTimeRead, Coalesce
    <2>4. ShownTimeRead = Null \/ ShownTimeRead = req[r].now
      BY <2>2 DEF ShownTimeRead, Coalesce
    <2>5. said \subseteq {req[r].now}
      BY <2>2, <2>4 DEF TypeOK
    <2>6. \A q \in Req : ~Running(q)'
      BY <2>1, <2>2 DEF Running
    <2> QED BY <2>1, <2>3, <2>5, <2>6 DEF Alone
  <1>6. ASSUME NEW r \in Req, MarkReadFails(r)
        PROVE  Alone'
    <2>1. /\ UNCHANGED <<read, said, crossed>>
          /\ \A q \in Req : req'[q] = req[q] \/ req'[q] = None
      BY <1>6 DEF MarkReadFails, TypeOK
    <2>2. \A q \in Req : Running(q)' => Running(q) /\ req'[q] = req[q]
      BY <2>1 DEF Running
    <2>3. ShownTimeRead' = ShownTimeRead
      BY <2>1 DEF ShownTimeRead
    <2> QED BY <2>1, <2>2, <2>3 DEF Alone
  <1>7. ASSUME NEW r \in Req, UpdateRead(r), ~crossed'
        PROVE  Alone'
    <2>1. req[r].at \in {1, 2}
      BY <1>7 DEF UpdateRead, Running
    <2> QED BY <1>4, <1>5, <1>7, <2>1
  <1>8. crossed' => Alone'
    BY DEF Alone
  <1> QED BY <1>1, <1>2, <1>3, <1>6, <1>7, <1>8, StepCases DEF Reacts, readVars

\* ReadTimeStands, for any number of requests at the same time: the first
\* time anybody could see stays, and requests that did not cross answer with
\* it.
THEOREM FirstReadStands == Spec => ReadTimeStands
  <1>1. ASSUME TypeOK, Stored, ToFirst, Alone, [Next]_vars
        PROVE  [/\ ShownTimeRead # Null => ShownTimeRead' = ShownTimeRead
                /\ ~crossed' => said' \subseteq {ShownTimeRead'}]_vars
    BY <1>1, ToFirstStep, AloneStep DEF Stands, Alone
  <1>2. Init => TypeOK /\ Stored /\ ToFirst /\ Alone
    BY MarksInit DEF IInv
  <1> QED BY <1>1, <1>2, TypeStep, ToFirstStep, AloneStep, PTL
          DEF Spec, ReadTimeStands
-----------------------------------------------------------------------------
(***************************************************************************)
(* Lists and loops                                                         *)
(***************************************************************************)

\* A set of naturals that is not empty has a least member.
LEMMA LeastNatural ==
    ASSUME NEW A \in SUBSET Nat, A # {}
    PROVE  \E n \in A : \A k \in A : n <= k
  <1>1. \A i, j \in Nat : <<i, j>> \in OpToRel(<, Nat) <=> i < j
    BY DEF OpToRel
  <1>2. PICK less : /\ IsWellFoundedOn(less, Nat)
                    /\ \A i, j \in Nat : <<i, j>> \in less <=> i < j
    BY <1>1, NatLessThanWellFounded, Zenon
  <1> DEFINE L == less
  <1>3. IsWellFoundedOn(L, Nat)
    BY <1>2
  <1> HIDE DEF L
  <1>4. PICK n \in A : \A k \in A : ~(<<k, n>> \in L)
    BY <1>3, WFMin
  <1>5. \A k \in A : n \in Nat /\ k \in Nat /\ ~(k < n)
    BY <1>2, <1>4 DEF L
  <1> QED BY <1>5

\* A loop of n rounds has its states: F[a, i] follows a in round i.
HasRun(A, a0, n, F) ==
    \E f \in [0 .. n -> A] : /\ f[0] = a0
                             /\ \A i \in 1 .. n : f[i] = F[<<f[i - 1], i>>]

LEMMA Loop ==
    ASSUME NEW A, NEW a0 \in A, NEW n \in Nat, NEW F \in [A \X (1 .. n) -> A]
    PROVE  HasRun(A, a0, n, F)
  <1> DEFINE Runs(k) == \E f \in [0 .. k -> A] :
                            /\ f[0] = a0
                            /\ \A i \in 1 .. k : f[i] = F[<<f[i - 1], i>>]
             Bad == {k \in 0 .. n : ~Runs(k)}
  <1> SUFFICES ASSUME Bad # {} PROVE FALSE
    BY DEF HasRun
  <1>0. Bad \in SUBSET Nat /\ \A k : k \in Bad <=> k \in 0 .. n /\ ~Runs(k)
    <2>1. \A k : k \in Bad <=> k \in 0 .. n /\ ~Runs(k)
      BY Zenon
    <2> HIDE DEF Bad, Runs
    <2>2. \A k \in Bad : k \in Nat
      BY <2>1
    <2> QED BY <2>1, <2>2, Zenon
  <1> HIDE DEF Bad
  <1>1. PICK k \in Bad : \A j \in Bad : k <= j
    BY <1>0, LeastNatural
  <1>2. k \in 0 .. n /\ ~Runs(k)
    BY <1>0, <1>1
  <1>3. Runs(0)
    <2> DEFINE f == [i \in 0 .. 0 |-> a0]
    <2>1. f \in [0 .. 0 -> A] /\ f[0] = a0
      OBVIOUS
    <2>2. \A i \in 1 .. 0 : f[i] = F[<<f[i - 1], i>>]
      OBVIOUS
    <2> HIDE DEF f
    <2> QED BY <2>1, <2>2
  <1>4. k # 0
    BY <1>2, <1>3, Zenon
  <1>5. k - 1 \in 0 .. n /\ k \in 1 .. n
    BY <1>2, <1>4
  <1>6. Runs(k - 1)
    <2>1. k - 1 \notin Bad
      BY <1>1, <1>2
    <2> QED BY <1>0, <1>5, <2>1, Zenon
  <1>7. PICK f \in [0 .. k - 1 -> A] :
               /\ f[0] = a0
               /\ \A i \in 1 .. k - 1 : f[i] = F[<<f[i - 1], i>>]
    BY <1>6
  <1> DEFINE g == [i \in 0 .. k |-> IF i = k THEN F[<<f[k - 1], k>>] ELSE f[i]]
  <1>8. f[k - 1] \in A
    BY <1>5, <1>7
  <1>9. F[<<f[k - 1], k>>] \in A
    BY <1>5, <1>8
  <1>10. g \in [0 .. k -> A]
    BY <1>5, <1>7, <1>9
  <1>11. g[0] = a0
    BY <1>5, <1>7
  <1>12. ASSUME NEW i \in 1 .. k PROVE g[i] = F[<<g[i - 1], i>>]
    <2>1. i - 1 \in 0 .. k /\ i - 1 # k
      BY <1>5
    <2>2. g[i - 1] = f[i - 1]
      BY <2>1
    <2>3. CASE i = k
      <3>1. g[k] = F[<<f[k - 1], k>>]
        BY <1>5
      <3> QED BY <2>2, <2>3, <3>1
    <2>4. CASE i # k
      <3>1. i \in 1 .. k - 1 /\ i \in 0 .. k
        BY <1>5, <2>4
      <3>2. g[i] = f[i]
        BY <2>4, <3>1
      <3> QED BY <1>7, <2>2, <3>1, <3>2
    <2> QED BY <2>3, <2>4
  <1>13. Runs(k)
    BY <1>10, <1>11, <1>12
  <1> QED BY <1>2, <1>13
\* A set of rows to be listed.
Rows(S) == /\ S \subseteq Row /\ IsFiniteSet(S)
           /\ \A x, y \in S : x.id = y.id => x = y

LEMMA RowFields ==
    ASSUME NEW x \in Row
    PROVE  /\ x.id \in Nat /\ x.from \in Local \cup Remote /\ x.time \in Nat
           /\ x.time \in Time /\ x.hash \in Hash /\ x.hash \in Nat
           /\ x.emoji \in Reaction
  <1>1. /\ x.id \in 1 .. MaxRows /\ x.from \in Local \cup Remote
        /\ x.time \in Time /\ x.hash \in Hash /\ x.emoji \in Reaction
    BY DEF Row
  <1>2. x.id \in Nat /\ x.time \in Nat
    BY <1>1 DEF Time
  <1>3. x.hash \in Nat
    BY <1>1, MarksAssumption
  <1> QED BY <1>1, <1>2, <1>3

LEMMA SubRows == ASSUME NEW S, Rows(S), NEW T \in SUBSET S PROVE Rows(T)
  BY FS_Subset DEF Rows

LEMMA BeforeIs ==
    ASSUME NEW S, Rows(S)
    PROVE  /\ \A x \in S : ~Before(x, x)
           /\ \A x, y \in S : x # y => Before(x, y) \/ Before(y, x)
           /\ \A x, y, z \in S : Before(x, y) /\ Before(y, z) => Before(x, z)
  <1>1. \A x \in S : x.time \in Nat /\ x.id \in Nat
    BY RowFields DEF Rows
  <1>2. \A x, y \in S : x # y => x.id # y.id
    BY DEF Rows
  <1> QED BY <1>1, <1>2 DEF Before

Behind(S, x) == {y \in S : Before(y, x)}

LEMMA RankType ==
    ASSUME NEW S, Rows(S), NEW x \in S
    PROVE  Cardinality(Behind(S, x)) \in 0 .. Cardinality(S) - 1
  <1>1. IsFiniteSet(S) /\ Cardinality(S) \in Nat
    BY FS_CardinalityType DEF Rows
  <1>2. Behind(S, x) \in SUBSET (S \ {x})
    BY BeforeIs DEF Behind
  <1>3. IsFiniteSet(S \ {x}) /\ Cardinality(S \ {x}) = Cardinality(S) - 1
    BY <1>1, FS_RemoveElement
  <1>4. /\ Cardinality(Behind(S, x)) <= Cardinality(S \ {x})
        /\ IsFiniteSet(Behind(S, x))
    BY <1>2, <1>3, FS_Subset
  <1>5. Cardinality(Behind(S, x)) \in Nat
    BY <1>4, FS_CardinalityType
  <1> QED BY <1>1, <1>3, <1>4, <1>5

LEMMA RankRises ==
    ASSUME NEW S, Rows(S), NEW x \in S, NEW y \in S, Before(x, y)
    PROVE  Cardinality(Behind(S, x)) # Cardinality(Behind(S, y))
  <1>1. /\ Behind(S, x) \in SUBSET Behind(S, y)
        /\ x \in Behind(S, y) /\ x \notin Behind(S, x)
    BY BeforeIs DEF Behind
  <1>2. IsFiniteSet(Behind(S, y))
    BY FS_Subset DEF Rows, Behind
  <1> QED BY <1>1, <1>2, FS_Subset

LEMMA RankHit ==
    ASSUME NEW S, Rows(S), NEW k \in 0 .. Cardinality(S) - 1
    PROVE  \E x \in S : Cardinality(Behind(S, x)) = k
  <1> DEFINE T == 0 .. Cardinality(S) - 1
             f == [x \in S |-> Cardinality(Behind(S, x))]
  <1>1. Cardinality(S) \in Nat /\ IsFiniteSet(S)
    BY FS_CardinalityType DEF Rows
  <1>2. IsFiniteSet(T) /\ Cardinality(T) = Cardinality(S)
    BY <1>1, FS_Interval
  <1>3. f \in [S -> T]
    BY RankType
  <1>4. \A x, y \in S : f[x] = f[y] => x = y
    BY BeforeIs, RankRises
  <1>5. f \in Injection(S, T)
    BY <1>3, <1>4 DEF Injection, IsInjective
  <1> HIDE DEF f, T
  <1>6. f \in Surjection(S, T)
    BY <1>2, <1>5, FS_Injection
  <1>7. k \in T
    BY DEF T
  <1>8. PICK x \in S : f[x] = k
    BY <1>6, <1>7 DEF Surjection
  <1> QED BY <1>8 DEF f

\* Every row is listed, once.
LEMMA OrderedLists ==
    ASSUME NEW S, Rows(S)
    PROVE  /\ Cardinality(S) \in Nat /\ Len(Ordered(S)) = Cardinality(S)
           /\ Ordered(S) \in [1 .. Cardinality(S) -> S]
           /\ \A i, j \in 1 .. Cardinality(S) :
                  Ordered(S)[i] = Ordered(S)[j] => i = j
           /\ \A x \in S : \E i \in 1 .. Cardinality(S) : Ordered(S)[i] = x
  <1>1. PICK n \in Nat : n = Cardinality(S)
    BY FS_CardinalityType DEF Rows
  <1>2. Ordered(S) = [i \in 1 .. n |->
                        CHOOSE x \in S : Cardinality(Behind(S, x)) = i - 1]
    BY <1>1 DEF Ordered, Behind
  <1>3. ASSUME NEW i \in 1 .. n
        PROVE  /\ Ordered(S)[i] \in S
               /\ Cardinality(Behind(S, Ordered(S)[i])) = i - 1
    <2>1. i - 1 \in 0 .. Cardinality(S) - 1
      BY <1>1
    <2>2. \E x \in S : Cardinality(Behind(S, x)) = i - 1
      BY <2>1, RankHit
    <2>3. Ordered(S)[i] = CHOOSE x \in S : Cardinality(Behind(S, x)) = i - 1
      BY <1>2
    <2> QED BY <2>2, <2>3, Zenon
  <1>4. Ordered(S) \in [1 .. n -> S]
    BY <1>2, <1>3
  <1>5. Len(Ordered(S)) = n
    BY <1>2
  <1>6. ASSUME NEW i \in 1 .. n, NEW j \in 1 .. n,
               Ordered(S)[i] = Ordered(S)[j]
        PROVE  i = j
    <2>1. i - 1 = j - 1
      BY <1>3, <1>6, Zenon
    <2> QED BY <2>1
  <1>7. ASSUME NEW x \in S PROVE \E i \in 1 .. n : Ordered(S)[i] = x
    <2>1. Cardinality(Behind(S, x)) \in 0 .. n - 1
      BY <1>1, RankType
    <2>2. PICK i \in 1 .. n : Cardinality(Behind(S, x)) = i - 1
      <3>1. /\ Cardinality(Behind(S, x)) + 1 \in 1 .. n
            /\ Cardinality(Behind(S, x)) = (Cardinality(Behind(S, x)) + 1) - 1
        BY <2>1
      <3> QED BY <3>1
    <2>3. PICK y \in S : y = Ordered(S)[i]
      BY <1>3
    <2>4. Cardinality(Behind(S, y)) = Cardinality(Behind(S, x))
      BY <1>3, <2>2, <2>3, Zenon
    <2>5. x = y
      BY <2>4, BeforeIs, RankRises
    <2> QED BY <2>3, <2>5
  <1> QED BY <1>1, <1>4, <1>5, <1>6, <1>7
-----------------------------------------------------------------------------
(***************************************************************************)
(* The first loop of effectiveReactions: the newest row of each reactor    *)
(***************************************************************************)

Addr   == Local \cup Remote
Latest == UNION {[D -> Row] : D \in SUBSET Addr}

LEMMA LatestIs ==
    ASSUME NEW f
    PROVE  f \in Latest <=> \E D \in SUBSET Addr : f \in [D -> Row]
  BY DEF Latest

LEMMA NoneLatest == << >> \in Latest /\ DOMAIN << >> = {}
  <1>1. << >> = [x \in {} |-> x]
    OBVIOUS
  <1>2. << >> \in [{} -> Row]
    BY <1>1
  <1> QED BY <1>2, LatestIs

LEMMA KeepType ==
    ASSUME NEW f \in Latest, NEW x \in Row
    PROVE  Keep(f, x) \in Latest
  <1>1. PICK D \in SUBSET Addr : f \in [D -> Row]
    BY LatestIs
  <1>2. x.from \in Addr
    BY RowFields DEF Addr
  <1>3. D \cup {x.from} \in SUBSET Addr /\ DOMAIN f = D
    BY <1>1, <1>2
  <1>4. [a \in D \cup {x.from} |-> IF a = x.from THEN x ELSE f[a]]
            \in [D \cup {x.from} -> Row]
    BY <1>1
  <1>5. Keep(f, x) \in [D -> Row] \cup [D \cup {x.from} -> Row]
    BY <1>1, <1>3, <1>4 DEF Keep
  <1> QED BY <1>1, <1>3, <1>5, LatestIs

\* The states of the loop.
LEMMA ReducedRuns ==
    ASSUME NEW S, Rows(S), NEW n \in Nat, n = Cardinality(S),
           NEW seq, seq = Ordered(S)
    PROVE  \E f \in [0 .. n -> Latest] :
               /\ f[0] = << >>
               /\ \A i \in 1 .. n : f[i] = Keep(f[i - 1], seq[i])
               /\ Reduced(S) = f[n]
  <1> DEFINE F == [p \in Latest \X (1 .. n) |-> Keep(p[1], seq[p[2]])]
  <1>1. seq \in [1 .. n -> S] /\ Len(seq) = n /\ S \subseteq Row
    BY OrderedLists DEF Rows
  <1>2. ASSUME NEW p \in Latest \X (1 .. n)
        PROVE  Keep(p[1], seq[p[2]]) \in Latest
    BY <1>1, KeepType
  <1>3. F \in [Latest \X (1 .. n) -> Latest]
    BY <1>2
  <1>4. PICK f \in [0 .. n -> Latest] :
               /\ f[0] = << >>
               /\ \A i \in 1 .. n : f[i] = F[<<f[i - 1], i>>]
    <2> HIDE DEF F
    <2>1. HasRun(Latest, << >>, n, F)
      BY <1>3, NoneLatest, Loop
    <2> QED BY <2>1 DEF HasRun
  <1>5. ASSUME NEW i \in 1 .. n PROVE f[i] = Keep(f[i - 1], seq[i])
    <2>1. f[i - 1] \in Latest
      BY <1>4
    <2> QED BY <1>4, <2>1
  <1>6. f = [i \in 0 .. n |-> IF i = 0 THEN << >>
                              ELSE Keep(f[i - 1], seq[i])]
    BY <1>4, <1>5
  <1> DEFINE g == CHOOSE h : h = [i \in 0 .. n |-> IF i = 0 THEN << >>
                                        ELSE Keep(h[i - 1], seq[i])]
  <1>7. g = [i \in 0 .. n |-> IF i = 0 THEN << >> ELSE Keep(g[i - 1], seq[i])]
    BY <1>6
  <1>8. Reduced(S) = g[n]
    BY <1>1 DEF Reduced, LoadReactionRows
  <1> HIDE DEF g
  <1>9. \A i \in 0 .. n : g[i] = f[i]
    <2> DEFINE Bad == {i \in 0 .. n : g[i] # f[i]}
    <2> SUFFICES ASSUME Bad # {} PROVE FALSE
      OBVIOUS
    <2>0. Bad \in SUBSET Nat
      OBVIOUS
    <2>1. PICK i \in Bad : \A j \in Bad : i <= j
      <3> HIDE DEF Bad
      <3> QED BY <2>0, LeastNatural
    <2>2. i # 0
      BY <1>4, <1>7, <2>1
    <2>3. i - 1 \in 0 .. n /\ i \in 1 .. n /\ i - 1 \notin Bad
      BY <2>1, <2>2
    <2>4. g[i - 1] = f[i - 1]
      BY <2>3
    <2>5. g[i] = Keep(g[i - 1], seq[i])
      BY <1>7, <2>2, <2>3
    <2> QED BY <1>5, <2>1, <2>3, <2>4, <2>5
  <1>10. Reduced(S) = f[n]
    BY <1>8, <1>9
  <1> QED BY <1>4, <1>5, <1>10
LEMMA KeepIs ==
    ASSUME NEW f \in Latest, NEW x \in Row
    PROVE  /\ DOMAIN Keep(f, x) = DOMAIN f \cup {x.from}
           /\ \A a \in DOMAIN f : a # x.from => Keep(f, x)[a] = f[a]
           /\ Keep(f, x)[x.from] = x \/ x.from \in DOMAIN f
           /\ x.from \in DOMAIN f =>
                 Keep(f, x)[x.from] = IF NewerReaction(x, f[x.from]) THEN x
                                      ELSE f[x.from]
  <1>1. CASE x.from \in DOMAIN f /\ ~NewerReaction(x, f[x.from])
    <2>1. Keep(f, x) = f
      BY <1>1 DEF Keep
    <2> QED BY <1>1, <2>1
  <1>2. CASE ~(x.from \in DOMAIN f /\ ~NewerReaction(x, f[x.from]))
    <2>1. Keep(f, x) = [a \in DOMAIN f \cup {x.from} |->
                           IF a = x.from THEN x ELSE f[a]]
      BY <1>2 DEF Keep
    <2> QED BY <1>2, <2>1
  <1> QED BY <1>1, <1>2

\* Newer is a total order on the rows of one address.
LEMMA NewerOrder ==
    ASSUME NEW x \in Row, NEW y \in Row, NEW z \in Row
    PROVE  /\ ~NewerReaction(x, x)
           /\ NewerReaction(x, y) /\ ~NewerReaction(z, y)
                 => ~NewerReaction(z, x)
  <1>1. /\ x.time \in Nat /\ y.time \in Nat /\ z.time \in Nat
        /\ x.hash \in Nat /\ y.hash \in Nat /\ z.hash \in Nat
    BY RowFields
  <1> QED BY <1>1 DEF NewerReaction

\* What the loop has found after i rows.
HasNewest(f, seq, i) ==
    /\ \A j \in 1 .. i : seq[j].from \in DOMAIN f
    /\ \A a \in DOMAIN f : \E j \in 1 .. i : f[a] = seq[j] /\ seq[j].from = a
    /\ \A j \in 1 .. i : ~NewerReaction(seq[j], f[seq[j].from])

LEMMA KeepStep ==
    ASSUME NEW n \in Nat, NEW seq \in [1 .. n -> Row], NEW i \in 1 .. n,
           NEW f \in Latest, HasNewest(f, seq, i - 1)
    PROVE  HasNewest(Keep(f, seq[i]), seq, i)
  <1>1. PICK x \in Row : x = seq[i]
    OBVIOUS
  <1>2. PICK g : g = Keep(f, x)
    OBVIOUS
  <1>3. /\ DOMAIN g = DOMAIN f \cup {x.from}
        /\ \A a \in DOMAIN f : a # x.from => g[a] = f[a]
    BY <1>2, KeepIs
  <1>4. /\ g[x.from] = x \/ x.from \in DOMAIN f
        /\ x.from \in DOMAIN f =>
              g[x.from] = IF NewerReaction(x, f[x.from]) THEN x ELSE f[x.from]
    BY <1>2, KeepIs
  <1>5. \A j \in 1 .. i : j = i \/ j \in 1 .. i - 1
    OBVIOUS
  <1>6. i \in 1 .. i /\ \A j \in 1 .. i - 1 : j \in 1 .. i /\ j \in 1 .. n
    OBVIOUS
  <1>7. \A a \in DOMAIN f : f[a] \in Row
    BY LatestIs
  <1>8. ASSUME NEW j \in 1 .. i PROVE seq[j].from \in DOMAIN g
    BY <1>1, <1>3, <1>5 DEF HasNewest
  <1>9. ASSUME NEW a \in DOMAIN g
        PROVE  \E j \in 1 .. i : g[a] = seq[j] /\ seq[j].from = a
    <2>1. CASE a # x.from
      <3>1. a \in DOMAIN f /\ g[a] = f[a]
        BY <1>3, <2>1
      <3>2. PICK j \in 1 .. i - 1 : f[a] = seq[j] /\ seq[j].from = a
        BY <3>1 DEF HasNewest
      <3> QED BY <1>6, <3>1, <3>2
    <2>2. CASE a = x.from /\ g[a] = x
      BY <1>1, <1>6, <2>2
    <2>3. CASE a = x.from /\ g[a] # x
      <3>1. a \in DOMAIN f /\ g[a] = f[a]
        BY <1>4, <2>3
      <3>2. PICK j \in 1 .. i - 1 : f[a] = seq[j] /\ seq[j].from = a
        BY <3>1 DEF HasNewest
      <3> QED BY <1>6, <3>1, <3>2
    <2> QED BY <2>1, <2>2, <2>3
  <1>10. ASSUME NEW j \in 1 .. i
         PROVE  ~NewerReaction(seq[j], g[seq[j].from])
    <2>1. CASE j = i
      <3>1. CASE g[x.from] = x
        BY <1>1, <2>1, <3>1, NewerOrder
      <3>2. CASE g[x.from] # x
        BY <1>1, <1>4, <2>1, <3>2
      <3> QED BY <3>1, <3>2
    <2>2. CASE j # i
      <3>1. PICK y \in Row : y = seq[j]
        BY <1>5, <1>6, <2>2
      <3>2. y.from \in DOMAIN f /\ ~NewerReaction(y, f[y.from])
        BY <1>5, <2>2, <3>1 DEF HasNewest
      <3>3. CASE y.from # x.from
        BY <1>3, <3>1, <3>2, <3>3
      <3>4. CASE y.from = x.from
        <4>1. f[x.from] \in Row
          BY <1>7, <3>2, <3>4
        <4>2. NewerReaction(x, f[x.from]) => ~NewerReaction(y, x)
          BY <3>2, <3>4, <4>1, NewerOrder
        <4> QED BY <1>4, <3>1, <3>2, <3>4, <4>2
      <3> QED BY <3>3, <3>4
    <2> QED BY <2>1, <2>2
  <1> QED BY <1>1, <1>2, <1>8, <1>9, <1>10 DEF HasNewest

\* Reduced has the newest row of every address with a row.
LEMMA ReducedIs ==
    ASSUME NEW S, Rows(S)
    PROVE  /\ Reduced(S) \in Latest
           /\ \A x \in S : /\ x.from \in DOMAIN Reduced(S)
                           /\ ~NewerReaction(x, Reduced(S)[x.from])
           /\ \A a \in DOMAIN Reduced(S) :
                  Reduced(S)[a] \in S /\ Reduced(S)[a].from = a
  <1>1. PICK n \in Nat : n = Cardinality(S)
    BY FS_CardinalityType DEF Rows
  <1>2. PICK seq : seq = Ordered(S)
    OBVIOUS
  <1>3. /\ seq \in [1 .. n -> S] /\ S \subseteq Row
        /\ \A x \in S : \E i \in 1 .. n : seq[i] = x
    BY <1>1, <1>2, OrderedLists DEF Rows
  <1>4. PICK f \in [0 .. n -> Latest] :
               /\ f[0] = << >>
               /\ \A i \in 1 .. n : f[i] = Keep(f[i - 1], seq[i])
               /\ Reduced(S) = f[n]
    BY <1>1, <1>2, ReducedRuns
  <1>5. HasNewest(f[0], seq, 0)
    BY <1>4, NoneLatest DEF HasNewest
  <1>6. ASSUME NEW i \in 1 .. n, HasNewest(f[i - 1], seq, i - 1)
        PROVE  HasNewest(f[i], seq, i)
    <2>1. f[i - 1] \in Latest /\ seq \in [1 .. n -> Row]
      BY <1>3
    <2>2. HasNewest(Keep(f[i - 1], seq[i]), seq, i)
      BY <1>6, <2>1, KeepStep
    <2> QED BY <1>4, <2>2
  <1>7. HasNewest(f[n], seq, n)
    <2> DEFINE Bad == {i \in 0 .. n : ~HasNewest(f[i], seq, i)}
    <2> SUFFICES ASSUME Bad # {} PROVE FALSE
      OBVIOUS
    <2>0. /\ Bad \in SUBSET Nat
          /\ \A i : i \in Bad <=> i \in 0 .. n /\ ~HasNewest(f[i], seq, i)
      <3>1. \A i : i \in Bad <=> i \in 0 .. n /\ ~HasNewest(f[i], seq, i)
        BY Zenon
      <3> HIDE DEF Bad
      <3>2. \A i \in Bad : i \in Nat
        BY <3>1
      <3> QED BY <3>1, <3>2, Zenon
    <2> HIDE DEF Bad
    <2>1. PICK i \in Bad : \A j \in Bad : i <= j
      BY <2>0, LeastNatural
    <2>2. i # 0 /\ i \in 0 .. n
      BY <1>5, <2>0, <2>1
    <2>3. i - 1 \in 0 .. n /\ i \in 1 .. n /\ i - 1 \notin Bad
      BY <2>1, <2>2
    <2>4. HasNewest(f[i - 1], seq, i - 1)
      BY <2>0, <2>3
    <2> QED BY <1>6, <2>0, <2>1, <2>3, <2>4
  <1>8. PICK r : r = f[n] /\ r \in Latest /\ r = Reduced(S)
    BY <1>4
  <1>9. HasNewest(r, seq, n)
    BY <1>7, <1>8
  <1>10. ASSUME NEW x \in S
         PROVE  x.from \in DOMAIN r /\ ~NewerReaction(x, r[x.from])
    BY <1>3, <1>9 DEF HasNewest
  <1>11. ASSUME NEW a \in DOMAIN r PROVE r[a] \in S /\ r[a].from = a
    <2>1. PICK j \in 1 .. n : r[a] = seq[j] /\ seq[j].from = a
      BY <1>9 DEF HasNewest
    <2> QED BY <1>3, <2>1
  <1> QED BY <1>8, <1>10, <1>11
-----------------------------------------------------------------------------
(***************************************************************************)
(* The second loop: groups of the same emoji                               *)
(***************************************************************************)

Groups == Seq([emoji : Reaction, from : Seq(Addr)])

LEMMA GroupFields ==
    ASSUME NEW g \in Groups
    PROVE  /\ Len(g) \in Nat /\ DOMAIN g = 1 .. Len(g)
           /\ \A p \in DOMAIN g : /\ g[p] \in [emoji : Reaction, from : Seq(Addr)]
                                  /\ g[p].emoji \in Reaction
                                  /\ g[p].from \in Seq(Addr)
  <1>1. PICK R : R = [emoji : Reaction, from : Seq(Addr)]
    OBVIOUS
  <1>2. g \in Seq(R)
    BY <1>1, Zenon DEF Groups
  <1>3. /\ Len(g) \in Nat /\ DOMAIN g = 1 .. Len(g)
        /\ \A p \in DOMAIN g : g[p] \in R
    BY <1>2
  <1>4. \A r \in R : r.emoji \in Reaction /\ r.from \in Seq(Addr)
    BY <1>1
  <1> QED BY <1>1, <1>3, <1>4, Zenon

LEMMA GroupSame ==
    ASSUME NEW g \in Groups, NEW x \in Row,
           \E i \in DOMAIN g : g[i].emoji = x.emoji
    PROVE  /\ Group(g, x) \in Groups /\ DOMAIN Group(g, x) = DOMAIN g
           /\ \A p \in DOMAIN g :
                 /\ Group(g, x)[p].emoji = g[p].emoji
                 /\ g[p].emoji # x.emoji => Group(g, x)[p].from = g[p].from
                 /\ g[p].emoji = x.emoji =>
                       Group(g, x)[p].from = Append(g[p].from, x.from)
  <1>1. PICK n \in Nat : n = Len(g) /\ DOMAIN g = 1 .. n
    BY GroupFields
  <1>2. x.from \in Addr
    BY RowFields DEF Addr
  <1> DEFINE R == [emoji : Reaction, from : Seq(Addr)]
             h == [i \in 1 .. n |->
                     IF g[i].emoji = x.emoji
                     THEN [g[i] EXCEPT !.from = Append(@, x.from)] ELSE g[i]]
  <1>3. Group(g, x) = h
    BY <1>1 DEF Group
  <1>4. ASSUME NEW p \in 1 .. n
        PROVE  /\ h[p] \in R /\ h[p].emoji = g[p].emoji
               /\ g[p].emoji # x.emoji => h[p].from = g[p].from
               /\ g[p].emoji = x.emoji => h[p].from = Append(g[p].from, x.from)
    <2>1. g[p] \in R /\ g[p].from \in Seq(Addr)
      BY <1>1, GroupFields
    <2>2. Append(g[p].from, x.from) \in Seq(Addr)
      BY <1>2, <2>1
    <2>3. [g[p] EXCEPT !.from = Append(@, x.from)] \in R
      BY <2>1, <2>2
    <2>4. /\ [g[p] EXCEPT !.from = Append(@, x.from)].emoji = g[p].emoji
          /\ [g[p] EXCEPT !.from = Append(@, x.from)].from
                = Append(g[p].from, x.from)
      BY <2>1
    <2>5. h[p] = IF g[p].emoji = x.emoji
                 THEN [g[p] EXCEPT !.from = Append(@, x.from)] ELSE g[p]
      OBVIOUS
    <2> HIDE DEF h, R
    <2> QED BY <2>1, <2>3, <2>4, <2>5, Zenon
  <1>5. h \in Seq(R) /\ DOMAIN h = 1 .. n
    <2>1. h \in [1 .. n -> R]
      <3> HIDE DEF R
      <3> QED BY <1>4
    <2> HIDE DEF h, R
    <2> QED BY <2>1
  <1> HIDE DEF h
  <1> QED BY <1>1, <1>3, <1>4, <1>5 DEF Groups

LEMMA GroupNew ==
    ASSUME NEW g \in Groups, NEW x \in Row,
           ~ \E i \in DOMAIN g : g[i].emoji = x.emoji
    PROVE  /\ Group(g, x) \in Groups
           /\ DOMAIN Group(g, x) = DOMAIN g \cup {Len(g) + 1}
           /\ Len(g) + 1 \notin DOMAIN g
           /\ \A p \in DOMAIN g : Group(g, x)[p] = g[p]
           /\ Group(g, x)[Len(g) + 1].emoji = x.emoji
           /\ Group(g, x)[Len(g) + 1].from = <<x.from>>
  <1> DEFINE R == [emoji : Reaction, from : Seq(Addr)]
  <1>1. PICK r : r = [emoji |-> x.emoji, from |-> <<x.from>>]
    OBVIOUS
  <1>2. r \in R /\ r.emoji = x.emoji /\ r.from = <<x.from>>
    BY <1>1, RowFields DEF Addr
  <1>3. Group(g, x) = Append(g, r)
    BY <1>1 DEF Group
  <1> HIDE DEF R
  <1>4. g \in Seq(R)
    BY DEF Groups, R
  <1>5. /\ Append(g, r) \in Seq(R) /\ Len(g) \in Nat
        /\ DOMAIN Append(g, r) = 1 .. Len(g) + 1 /\ DOMAIN g = 1 .. Len(g)
        /\ \A p \in 1 .. Len(g) : Append(g, r)[p] = g[p]
        /\ Append(g, r)[Len(g) + 1] = r
    BY <1>2, <1>4
  <1>6. Group(g, x) \in Groups
    BY <1>3, <1>5 DEF Groups, R
  <1>7. /\ 1 .. Len(g) + 1 = (1 .. Len(g)) \cup {Len(g) + 1}
        /\ Len(g) + 1 \notin 1 .. Len(g)
    BY <1>5
  <1>8. /\ DOMAIN Append(g, r) = DOMAIN g \cup {Len(g) + 1}
        /\ Len(g) + 1 \notin DOMAIN g
    BY <1>5, <1>7
  <1> QED BY <1>2, <1>3, <1>5, <1>6, <1>8
LEMMA AppendIs ==
    ASSUME NEW s \in Seq(Addr), NEW a \in Addr
    PROVE  /\ Len(s) \in Nat /\ DOMAIN s = 1 .. Len(s)
           /\ DOMAIN Append(s, a) = 1 .. Len(s) + 1
           /\ \A k \in 1 .. Len(s) : Append(s, a)[k] = s[k]
           /\ Append(s, a)[Len(s) + 1] = a
  OBVIOUS

Has(s, a) == \E k \in DOMAIN s : s[k] = a

LEMMA AppendHas ==
    ASSUME NEW s \in Seq(Addr), NEW a \in Addr
    PROVE  /\ Has(Append(s, a), a)
           /\ \A b : Has(s, b) => Has(Append(s, a), b)
           /\ \A b : Has(Append(s, a), b) => Has(s, b) \/ b = a
           /\ IsInjective(s) /\ ~Has(s, a) => IsInjective(Append(s, a))
  <1>1. PICK n \in Nat : n = Len(s)
    BY AppendIs
  <1>2. /\ DOMAIN s = 1 .. n /\ DOMAIN Append(s, a) = 1 .. n + 1
        /\ \A k \in 1 .. n : Append(s, a)[k] = s[k]
        /\ Append(s, a)[n + 1] = a
    BY <1>1, AppendIs
  <1>3. n + 1 \in 1 .. n + 1 /\ \A k \in 1 .. n : k \in 1 .. n + 1
    OBVIOUS
  <1>4. \A k \in 1 .. n + 1 : k = n + 1 \/ k \in 1 .. n
    OBVIOUS
  <1> QED BY <1>2, <1>3, <1>4 DEF Has, IsInjective

LEMMA OneHas ==
    ASSUME NEW a
    PROVE  (\A b : Has(<<a>>, b) <=> b = a) /\ IsInjective(<<a>>)
  BY DEF Has, IsInjective

\* What the loop has built after i rows.
IsGrouped(g, seq, i) ==
    /\ \A p, q \in DOMAIN g : g[p].emoji = g[q].emoji => p = q
    /\ \A p \in DOMAIN g : IsInjective(g[p].from)
    /\ \A p \in DOMAIN g : \A a : Has(g[p].from, a) =>
           \E j \in 1 .. i : seq[j].from = a /\ seq[j].emoji = g[p].emoji
    /\ \A j \in 1 .. i : \E p \in DOMAIN g :
           g[p].emoji = seq[j].emoji /\ Has(g[p].from, seq[j].from)

LEMMA GroupedFacts ==
    ASSUME NEW g, NEW seq, NEW i, IsGrouped(g, seq, i)
    PROVE  /\ \A p, q \in DOMAIN g : g[p].emoji = g[q].emoji => p = q
           /\ \A p \in DOMAIN g : IsInjective(g[p].from)
           /\ \A p \in DOMAIN g : \A a : Has(g[p].from, a) =>
                 \E j \in 1 .. i : seq[j].from = a /\ seq[j].emoji = g[p].emoji
           /\ \A j \in 1 .. i : \E p \in DOMAIN g :
                 g[p].emoji = seq[j].emoji /\ Has(g[p].from, seq[j].from)
  BY Zenon DEF IsGrouped

LEMMA GroupStep ==
    ASSUME NEW n \in Nat, NEW seq \in [1 .. n -> Row], NEW i \in 1 .. n,
           \A j \in 1 .. i - 1 : seq[j].from # seq[i].from,
           NEW g \in Groups, IsGrouped(g, seq, i - 1)
    PROVE  IsGrouped(Group(g, seq[i]), seq, i)
  <1>1. PICK x \in Row : x = seq[i]
    OBVIOUS
  <1>2. PICK h : h = Group(g, x)
    OBVIOUS
  <1>3. i \in 1 .. i /\ \A j \in 1 .. i - 1 : j \in 1 .. i
    OBVIOUS
  <1>4. \A j \in 1 .. i : j = i \/ j \in 1 .. i - 1
    OBVIOUS
  <1>5. /\ \A p, q \in DOMAIN g : g[p].emoji = g[q].emoji => p = q
        /\ \A p \in DOMAIN g : IsInjective(g[p].from)
    BY GroupedFacts
  <1>6. \A p \in DOMAIN g : \A a : Has(g[p].from, a) =>
            \E j \in 1 .. i - 1 : seq[j].from = a /\ seq[j].emoji = g[p].emoji
    BY GroupedFacts
  <1>7. \A j \in 1 .. i - 1 : \E p \in DOMAIN g :
            g[p].emoji = seq[j].emoji /\ Has(g[p].from, seq[j].from)
    BY GroupedFacts
  <1>8. x.from \in Addr
    BY RowFields DEF Addr
  <1>9. \A p \in DOMAIN g : g[p].from \in Seq(Addr) /\ ~Has(g[p].from, x.from)
    BY <1>1, <1>6, GroupFields
  <1>10. CASE \E p \in DOMAIN g : g[p].emoji = x.emoji
    <2>1. /\ DOMAIN h = DOMAIN g
          /\ \A p \in DOMAIN g :
                /\ h[p].emoji = g[p].emoji
                /\ g[p].emoji # x.emoji => h[p].from = g[p].from
                /\ g[p].emoji = x.emoji => h[p].from = Append(g[p].from, x.from)
      BY <1>2, <1>10, GroupSame
    <2>2. \A p, q \in DOMAIN h : h[p].emoji = h[q].emoji => p = q
      BY <1>5, <2>1
    <2>3. ASSUME NEW p \in DOMAIN h
          PROVE  /\ IsInjective(h[p].from)
                 /\ \A a : Has(g[p].from, a) => Has(h[p].from, a)
                 /\ g[p].emoji = x.emoji => Has(h[p].from, x.from)
                 /\ \A a : Has(h[p].from, a) =>
                        \/ Has(g[p].from, a)
                        \/ a = x.from /\ g[p].emoji = x.emoji
      <3>1. CASE g[p].emoji # x.emoji
        <4>1. h[p].from = g[p].from /\ IsInjective(g[p].from)
          BY <1>5, <2>1, <3>1
        <4> QED BY <3>1, <4>1, Zenon
      <3>2. CASE g[p].emoji = x.emoji
        <4>1. PICK s \in Seq(Addr) : s = g[p].from
          BY <1>9, <2>1
        <4>2. h[p].from = Append(s, x.from) /\ IsInjective(s) /\ ~Has(s, x.from)
          BY <1>5, <1>9, <2>1, <3>2, <4>1
        <4>3. /\ Has(Append(s, x.from), x.from)
              /\ \A b : Has(s, b) => Has(Append(s, x.from), b)
              /\ \A b : Has(Append(s, x.from), b) => Has(s, b) \/ b = x.from
              /\ IsInjective(Append(s, x.from))
          BY <1>8, <4>2, AppendHas
        <4> QED BY <3>2, <4>1, <4>2, <4>3
      <3> QED BY <3>1, <3>2
    <2>4. ASSUME NEW p \in DOMAIN h, NEW a, Has(h[p].from, a)
          PROVE  \E j \in 1 .. i : seq[j].from = a /\ seq[j].emoji = h[p].emoji
      <3>1. CASE Has(g[p].from, a)
        <4>1. p \in DOMAIN g
          BY <2>1
        <4>2. PICK j \in 1 .. i - 1 :
                     seq[j].from = a /\ seq[j].emoji = g[p].emoji
          BY <1>6, <3>1, <4>1
        <4> QED BY <1>3, <2>1, <4>2
      <3>2. CASE a = x.from /\ g[p].emoji = x.emoji
        BY <1>1, <1>3, <2>1, <3>2
      <3> QED BY <2>3, <2>4, <3>1, <3>2
    <2>5. ASSUME NEW j \in 1 .. i
          PROVE  \E p \in DOMAIN h : /\ h[p].emoji = seq[j].emoji
                                     /\ Has(h[p].from, seq[j].from)
      <3>1. CASE j = i
        <4>1. PICK p \in DOMAIN g : g[p].emoji = x.emoji
          BY <1>10
        <4> QED BY <1>1, <2>1, <2>3, <3>1, <4>1
      <3>2. CASE j \in 1 .. i - 1
        <4>1. PICK p \in DOMAIN g : /\ g[p].emoji = seq[j].emoji
                                    /\ Has(g[p].from, seq[j].from)
          BY <1>7, <3>2
        <4> QED BY <2>1, <2>3, <4>1
      <3> QED BY <1>4, <3>1, <3>2
    <2> QED BY <1>1, <1>2, <2>2, <2>3, <2>4, <2>5 DEF IsGrouped
  <1>11. CASE ~ \E p \in DOMAIN g : g[p].emoji = x.emoji
    <2>1. PICK new : new = Len(g) + 1
      OBVIOUS
    <2>2. /\ DOMAIN h = DOMAIN g \cup {new} /\ new \notin DOMAIN g
          /\ \A p \in DOMAIN g : h[p] = g[p]
          /\ h[new].emoji = x.emoji /\ h[new].from = <<x.from>>
      <3>1. /\ DOMAIN Group(g, x) = DOMAIN g \cup {Len(g) + 1}
            /\ Len(g) + 1 \notin DOMAIN g
            /\ \A p \in DOMAIN g : Group(g, x)[p] = g[p]
            /\ Group(g, x)[Len(g) + 1].emoji = x.emoji
            /\ Group(g, x)[Len(g) + 1].from = <<x.from>>
        BY <1>11, GroupNew, Zenon
      <3> QED BY <1>2, <2>1, <3>1, Zenon
    <2>3. \A p, q \in DOMAIN h : h[p].emoji = h[q].emoji => p = q
      BY <1>5, <1>11, <2>2
    <2>4. IsInjective(h[new].from) /\ \A a : Has(h[new].from, a) <=> a = x.from
      BY <2>2, OneHas
    <2>5. \A p \in DOMAIN h : IsInjective(h[p].from)
      BY <1>5, <2>2, <2>4
    <2>6. ASSUME NEW p \in DOMAIN h, NEW a, Has(h[p].from, a)
          PROVE  \E j \in 1 .. i : seq[j].from = a /\ seq[j].emoji = h[p].emoji
      <3>1. CASE p = new
        BY <1>1, <1>3, <2>2, <2>4, <2>6, <3>1
      <3>2. CASE p \in DOMAIN g
        BY <1>3, <1>6, <2>2, <2>6, <3>2
      <3> QED BY <2>2, <3>1, <3>2
    <2>7. ASSUME NEW j \in 1 .. i
          PROVE  \E p \in DOMAIN h : /\ h[p].emoji = seq[j].emoji
                                     /\ Has(h[p].from, seq[j].from)
      <3>1. CASE j = i
        BY <1>1, <2>2, <2>4, <3>1
      <3>2. CASE j \in 1 .. i - 1
        BY <1>7, <2>2, <3>2
      <3> QED BY <1>4, <3>1, <3>2
    <2> QED BY <1>1, <1>2, <2>3, <2>5, <2>6, <2>7 DEF IsGrouped
  <1> QED BY <1>10, <1>11
LEMMA NoGroups == << >> \in Groups /\ DOMAIN << >> = {}
  <1>1. PICK R : R = [emoji : Reaction, from : Seq(Addr)]
    OBVIOUS
  <1>2. << >> \in Seq(R) /\ DOMAIN << >> = {}
    OBVIOUS
  <1> QED BY <1>1, <1>2, Zenon DEF Groups

LEMMA GroupType ==
    ASSUME NEW g \in Groups, NEW x \in Row PROVE Group(g, x) \in Groups
  BY GroupSame, GroupNew

LEMMA GroupedRuns ==
    ASSUME NEW n \in Nat, NEW seq \in [1 .. n -> Row], Len(seq) = n
    PROVE  \E f \in [0 .. n -> Groups] :
               /\ f[0] = << >>
               /\ \A i \in 1 .. n : f[i] = Group(f[i - 1], seq[i])
               /\ Grouped(seq) = f[n]
  <1> DEFINE F == [p \in Groups \X (1 .. n) |-> Group(p[1], seq[p[2]])]
  <1>1. ASSUME NEW p \in Groups \X (1 .. n)
        PROVE  Group(p[1], seq[p[2]]) \in Groups
    BY GroupType
  <1>2. F \in [Groups \X (1 .. n) -> Groups]
    BY <1>1
  <1>3. PICK f \in [0 .. n -> Groups] :
               /\ f[0] = << >>
               /\ \A i \in 1 .. n : f[i] = F[<<f[i - 1], i>>]
    <2> HIDE DEF F
    <2>1. HasRun(Groups, << >>, n, F)
      BY <1>2, NoGroups, Loop
    <2> QED BY <2>1 DEF HasRun
  <1>4. ASSUME NEW i \in 1 .. n PROVE f[i] = Group(f[i - 1], seq[i])
    <2>1. f[i - 1] \in Groups
      BY <1>3
    <2> QED BY <1>3, <2>1
  <1>5. f = [i \in 0 .. n |-> IF i = 0 THEN << >>
                              ELSE Group(f[i - 1], seq[i])]
    BY <1>3, <1>4
  <1> DEFINE g == CHOOSE h : h = [i \in 0 .. n |-> IF i = 0 THEN << >>
                                        ELSE Group(h[i - 1], seq[i])]
  <1>6. g = [i \in 0 .. n |-> IF i = 0 THEN << >> ELSE Group(g[i - 1], seq[i])]
    BY <1>5
  <1>7. Grouped(seq) = g[n]
    BY DEF Grouped
  <1> HIDE DEF g
  <1>8. \A i \in 0 .. n : g[i] = f[i]
    <2> DEFINE Bad == {i \in 0 .. n : g[i] # f[i]}
    <2> SUFFICES ASSUME Bad # {} PROVE FALSE
      OBVIOUS
    <2>0. Bad \in SUBSET Nat
      OBVIOUS
    <2>1. PICK i \in Bad : \A j \in Bad : i <= j
      <3> HIDE DEF Bad
      <3> QED BY <2>0, LeastNatural
    <2>2. i # 0
      BY <1>3, <1>6, <2>1
    <2>3. i - 1 \in 0 .. n /\ i \in 1 .. n /\ i - 1 \notin Bad
      BY <2>1, <2>2
    <2>4. g[i - 1] = f[i - 1]
      BY <2>3
    <2>5. g[i] = Group(g[i - 1], seq[i])
      BY <1>6, <2>2, <2>3
    <2> QED BY <1>4, <2>1, <2>3, <2>4, <2>5
  <1>9. Grouped(seq) = f[n]
    BY <1>7, <1>8
  <1> QED BY <1>3, <1>4, <1>9

\* The groups of a list of rows of different addresses.
LEMMA GroupedIs ==
    ASSUME NEW n \in Nat, NEW seq \in [1 .. n -> Row], Len(seq) = n,
           \A i, j \in 1 .. n : seq[i].from = seq[j].from => i = j
    PROVE  Grouped(seq) \in Groups /\ IsGrouped(Grouped(seq), seq, n)
  <1>1. PICK f \in [0 .. n -> Groups] :
               /\ f[0] = << >>
               /\ \A i \in 1 .. n : f[i] = Group(f[i - 1], seq[i])
               /\ Grouped(seq) = f[n]
    BY GroupedRuns
  <1>2. IsGrouped(f[0], seq, 0)
    BY <1>1, NoGroups DEF IsGrouped
  <1>3. ASSUME NEW i \in 1 .. n, IsGrouped(f[i - 1], seq, i - 1)
        PROVE  IsGrouped(f[i], seq, i)
    <2>1. f[i - 1] \in Groups
      OBVIOUS
    <2>2. \A j \in 1 .. i - 1 : j \in 1 .. n /\ j # i
      OBVIOUS
    <2>3. \A j \in 1 .. i - 1 : seq[j].from # seq[i].from
      BY <2>2
    <2>4. IsGrouped(Group(f[i - 1], seq[i]), seq, i)
      BY <1>3, <2>1, <2>3, GroupStep
    <2> QED BY <1>1, <2>4
  <1> DEFINE Bad == {i \in 0 .. n : ~IsGrouped(f[i], seq, i)}
  <1>4. Bad = {}
    <2> SUFFICES ASSUME Bad # {} PROVE FALSE
      OBVIOUS
    <2>0. /\ Bad \in SUBSET Nat
          /\ \A i : i \in Bad <=> i \in 0 .. n /\ ~IsGrouped(f[i], seq, i)
      <3>1. \A i : i \in Bad <=> i \in 0 .. n /\ ~IsGrouped(f[i], seq, i)
        BY Zenon
      <3> HIDE DEF Bad
      <3>2. \A i \in Bad : i \in Nat
        BY <3>1
      <3> QED BY <3>1, <3>2, Zenon
    <2> HIDE DEF Bad
    <2>1. PICK i \in Bad : \A j \in Bad : i <= j
      BY <2>0, LeastNatural
    <2>2. i # 0 /\ i \in 0 .. n
      BY <1>2, <2>0, <2>1
    <2>3. i - 1 \in 0 .. n /\ i \in 1 .. n /\ i - 1 \notin Bad
      BY <2>1, <2>2
    <2>4. IsGrouped(f[i - 1], seq, i - 1)
      BY <2>0, <2>3
    <2> QED BY <1>3, <2>0, <2>1, <2>3, <2>4
  <1>5. IsGrouped(f[n], seq, n)
    BY <1>4
  <1> QED BY <1>1, <1>5

-----------------------------------------------------------------------------
(***************************************************************************)
(* What is shown                                                           *)
(***************************************************************************)

\* Rows are numbered as they are stored, and two of one address's in the same
\* microsecond have different hashes.
Told ==
    /\ \A x \in reactions : x.id <= Cardinality(reactions)
    /\ \A x, y \in reactions : x.id = y.id => x = y
    /\ \A x, y \in reactions :
          x.from = y.from /\ x.time = y.time /\ x.hash = y.hash => x = y

LEMMA ReactionRows ==
    ASSUME TypeOK, Stored, Told, NEW S \in SUBSET reactions
    PROVE  Rows(S)
  BY FS_Subset DEF TypeOK, Stored, Told, Rows

\* The newest row of an address is one.
LEMMA NewestIs ==
    ASSUME TypeOK, Stored, Told, NEW a, NEW S \in SUBSET reactions,
           \A x \in reactions : x.from = a => x \in S
    PROVE  /\ a \in DOMAIN Reduced(S) => NewestOf(a) = {Reduced(S)[a]}
           /\ a \notin DOMAIN Reduced(S) => NewestOf(a) = {}
  <1>1. PICK r : r = Reduced(S)
    OBVIOUS
  <1>2. /\ \A x \in S : x.from \in DOMAIN r /\ ~NewerReaction(x, r[x.from])
        /\ \A b \in DOMAIN r : r[b] \in S /\ r[b].from = b
    BY <1>1, ReactionRows, ReducedIs
  <1>3. \A x \in reactions : /\ x.time \in Nat /\ x.hash \in Nat
    BY RowFields DEF TypeOK
  <1>4. ASSUME NEW x
        PROVE  x \in NewestOf(a) <=>
                   /\ x \in reactions /\ x.from = a
                   /\ \A y \in reactions : y.from = a =>
                         \/ y.time < x.time
                         \/ y.time = x.time /\ y.hash <= x.hash
    BY DEF NewestOf
  <1>5. CASE a \notin DOMAIN r
    BY <1>1, <1>2, <1>4, <1>5
  <1>6. CASE a \in DOMAIN r
    <2>1. PICK x \in reactions : x = r[a] /\ x.from = a
      BY <1>2, <1>6
    <2>2. \A y \in reactions : y.from = a => ~NewerReaction(y, x)
      BY <1>2, <2>1
    <2>3. x \in NewestOf(a)
      BY <1>3, <1>4, <2>1, <2>2 DEF NewerReaction
    <2>4. ASSUME NEW y \in NewestOf(a) PROVE y = x
      <3>1. y \in reactions /\ y.from = a
        BY <1>4
      <3>2. y.time = x.time /\ y.hash = x.hash
        <4>1. \/ y.time < x.time
              \/ y.time = x.time /\ y.hash <= x.hash
          BY <1>4, <2>3, <3>1
        <4>2. \/ x.time < y.time
              \/ x.time = y.time /\ x.hash <= y.hash
          BY <1>4, <2>1
        <4> QED BY <1>3, <3>1, <4>1, <4>2
      <3> QED BY <2>1, <3>1, <3>2 DEF Told
    <2> QED BY <1>1, <1>6, <2>1, <2>3, <2>4
  <1> QED BY <1>1, <1>5, <1>6
\* The rows that are shown: at most one of each address.
LEMMA ShownRows ==
    ASSUME TypeOK, Stored, Told
    PROVE  \E E \in SUBSET reactions :
               /\ EffectiveReactions(reactions) = Grouped(Ordered(E))
               /\ \A x, y \in E : x.from = y.from => x = y
               /\ \A a, e : (\E x \in E : x.from = a /\ x.emoji = e) <=>
                                e \in {x.emoji : x \in NewestOf(a)} \ {Cleared}
  <1>1. PICK r : r = Reduced(reactions)
    OBVIOUS
  <1>2. /\ \A x \in reactions : x.from \in DOMAIN r
        /\ \A b \in DOMAIN r : r[b] \in reactions /\ r[b].from = b
    BY <1>1, ReactionRows, ReducedIs
  <1>3. PICK E : E = {x \in Range(r) : x.emoji # Cleared}
    OBVIOUS
  <1>4. EffectiveReactions(reactions) = Grouped(Ordered(E))
    BY <1>1, <1>3 DEF EffectiveReactions
  <1>5. \A x : x \in E <=> x.emoji # Cleared /\ \E b \in DOMAIN r : x = r[b]
    BY <1>3 DEF Range
  <1>6. E \in SUBSET reactions
    BY <1>2, <1>5
  <1>7. \A x, y \in E : x.from = y.from => x = y
    BY <1>2, <1>5
  <1>8. ASSUME NEW a, NEW e
        PROVE  (\E x \in E : x.from = a /\ x.emoji = e) <=>
                   e \in {x.emoji : x \in NewestOf(a)} \ {Cleared}
    <2>1. CASE a \in DOMAIN r
      <3>1. NewestOf(a) = {r[a]}
        BY <1>1, <2>1, NewestIs
      <3>2. e \in {x.emoji : x \in NewestOf(a)} <=> e = r[a].emoji
        BY <3>1
      <3>3. (\E x \in E : x.from = a /\ x.emoji = e)
                <=> e = r[a].emoji /\ e # Cleared
        BY <1>2, <1>5, <2>1
      <3> QED BY <3>2, <3>3
    <2>2. CASE a \notin DOMAIN r
      <3>1. NewestOf(a) = {}
        BY <1>1, <2>2, NewestIs
      <3>2. ~ \E x \in E : x.from = a
        BY <1>2, <1>5, <2>2
      <3> QED BY <3>1, <3>2
    <2> QED BY <2>1, <2>2
  <1> QED BY <1>4, <1>6, <1>7, <1>8

LEMMA RangeIsHas == ASSUME NEW s, NEW a PROVE a \in Range(s) <=> Has(s, a)
  BY DEF Range, Has

LEMMA ShownIsNewest ==
    ASSUME TypeOK, Stored, Told
    PROVE  ShowsTheNewest
  <1>1. PICK E \in SUBSET reactions :
               /\ EffectiveReactions(reactions) = Grouped(Ordered(E))
               /\ \A x, y \in E : x.from = y.from => x = y
               /\ \A a, e : (\E x \in E : x.from = a /\ x.emoji = e) <=>
                                e \in {x.emoji : x \in NewestOf(a)} \ {Cleared}
    BY ShownRows
  <1>2. Rows(E) /\ E \subseteq Row
    BY ReactionRows DEF Rows
  <1>3. PICK n, seq : n = Cardinality(E) /\ seq = Ordered(E)
    OBVIOUS
  <1>4. /\ n \in Nat /\ Len(seq) = n /\ seq \in [1 .. n -> E]
        /\ \A i, j \in 1 .. n : seq[i] = seq[j] => i = j
        /\ \A x \in E : \E i \in 1 .. n : seq[i] = x
    BY <1>2, <1>3, OrderedLists
  <1>5. \A i, j \in 1 .. n : seq[i].from = seq[j].from => i = j
    BY <1>1, <1>4
  <1>6. seq \in [1 .. n -> Row]
    BY <1>2, <1>4
  <1>7. PICK g : g = EffectiveReactions(reactions)
    OBVIOUS
  <1>8. IsGrouped(g, seq, n)
    BY <1>1, <1>3, <1>4, <1>5, <1>6, <1>7, GroupedIs
  <1>9. /\ \A p, q \in DOMAIN g : g[p].emoji = g[q].emoji => p = q
        /\ \A p \in DOMAIN g : IsInjective(g[p].from)
    BY <1>8, GroupedFacts
  <1>10. \A p \in DOMAIN g : \A a : Has(g[p].from, a) =>
             \E j \in 1 .. n : seq[j].from = a /\ seq[j].emoji = g[p].emoji
    BY <1>8, GroupedFacts
  <1>11. \A j \in 1 .. n : \E p \in DOMAIN g :
             g[p].emoji = seq[j].emoji /\ Has(g[p].from, seq[j].from)
    BY <1>8, GroupedFacts
  <1>12. ASSUME NEW p \in DOMAIN g, NEW q \in DOMAIN g, p # q
         PROVE  /\ g[p].emoji # g[q].emoji
                /\ Range(g[p].from) \cap Range(g[q].from) = {}
    <2>1. g[p].emoji # g[q].emoji
      BY <1>9, <1>12
    <2>2. ASSUME NEW a, Has(g[p].from, a), Has(g[q].from, a) PROVE FALSE
      <3>1. PICK i \in 1 .. n : seq[i].from = a /\ seq[i].emoji = g[p].emoji
        BY <1>10, <2>2
      <3>2. PICK j \in 1 .. n : seq[j].from = a /\ seq[j].emoji = g[q].emoji
        BY <1>10, <2>2
      <3>3. i = j
        BY <1>5, <3>1, <3>2
      <3> QED BY <2>1, <3>1, <3>2, <3>3
    <2> QED BY <2>1, <2>2, RangeIsHas
  <1>13. ASSUME NEW a
         PROVE  {h.emoji : h \in {h \in Range(g) : a \in Range(h.from)}}
                    = {x.emoji : x \in NewestOf(a)} \ {Cleared}
    <2>1. ASSUME NEW e
          PROVE  (\E p \in DOMAIN g : e = g[p].emoji /\ Has(g[p].from, a))
                     <=> \E x \in E : x.from = a /\ x.emoji = e
      <3>1. ASSUME NEW p \in DOMAIN g, e = g[p].emoji, Has(g[p].from, a)
            PROVE  \E x \in E : x.from = a /\ x.emoji = e
        <4>1. PICK j \in 1 .. n : seq[j].from = a /\ seq[j].emoji = g[p].emoji
          BY <1>10, <3>1
        <4> QED BY <1>4, <3>1, <4>1
      <3>2. ASSUME NEW x \in E, x.from = a, x.emoji = e
            PROVE  \E p \in DOMAIN g : e = g[p].emoji /\ Has(g[p].from, a)
        <4>1. PICK j \in 1 .. n : seq[j] = x
          BY <1>4
        <4> QED BY <1>11, <3>2, <4>1
      <3> QED BY <3>1, <3>2
    <2>2. ASSUME NEW e
          PROVE  e \in {h.emoji : h \in {h \in Range(g) : a \in Range(h.from)}}
                     <=> \E p \in DOMAIN g : e = g[p].emoji /\ Has(g[p].from, a)
      <3>1. \A h : h \in Range(g) <=> \E p \in DOMAIN g : h = g[p]
        BY DEF Range
      <3> QED BY <3>1, RangeIsHas
    <2> QED BY <1>1, <2>1, <2>2
  <1> QED BY <1>7, <1>9, <1>12, <1>13 DEF ShowsTheNewest
-----------------------------------------------------------------------------
(***************************************************************************)
(* What was granted                                                        *)
(***************************************************************************)

\* Unless the clock was set back, what local addresses sent is in the past.
Past == ~setBack => \A x \in reactions : x.from \in Local => x.time < clock

ShownInv == TypeOK /\ Stored /\ Told /\ Past /\ GrantedIsShown

\* A step that stores no reaction and grants none.
Quiet ==
    /\ reactions' = reactions /\ want' = want /\ unsure' = unsure
    /\ setBack' \/ (setBack' = setBack /\ (clock' = clock \/ clock' = clock + 1))

LEMMA QuietCases ==
    ASSUME TypeOK, [Next]_vars
    PROVE  \/ Quiet
           \/ \E a \in Local, e \in Reaction : ReactAgain(a, e)
           \/ \E a \in Local, e \in Reaction, ack \in BOOLEAN : React(a, e, ack)
           \/ \E a \in Remote, t \in Time, e \in Reaction : Receive(a, t, e)
  <1> USE DEF reactVars, readVars
  <1>1. ASSUME Tick \/ SetBack \/ UNCHANGED vars PROVE Quiet
    BY <1>1 DEF Tick, SetBack, vars, Quiet
  <1>2. ASSUME Reading PROVE Quiet
    BY <1>2 DEF Reading, AddReader, MarkRead, UpdateRead, MarkReadFails, Quiet
  <1> QED BY <1>1, <1>2 DEF Next, Reacting

\* The row that is stored.
LEMMA StoredRow ==
    ASSUME TypeOK, Stored, NEW a \in Addr, NEW time \in Time,
           NEW emoji \in Reaction, Store(a, time, emoji)
    PROVE  \E x \in Row :
               /\ reactions' = reactions \cup {x}
               /\ x.id = Cardinality(reactions) + 1 /\ x.from = a
               /\ x.time = time /\ x.emoji = emoji
               /\ \A y \in reactions : y.from = a /\ y.time = time
                                            => y.hash # x.hash
  <1>1. PICK hash \in Hash :
           /\ \A y \in reactions : y.from = a /\ y.time = time => y.hash # hash
           /\ reactions' = reactions \cup
                 {[id |-> Cardinality(reactions) + 1, from |-> a, time |-> time,
                   hash |-> hash, emoji |-> emoji]}
    BY DEF Store
  <1>2. PICK x : x = [id |-> Cardinality(reactions) + 1, from |-> a,
                      time |-> time, hash |-> hash, emoji |-> emoji]
    OBVIOUS
  <1>3. Cardinality(reactions) + 1 \in 1 .. MaxRows
    BY FS_CardinalityType, MarksAssumption DEF Store, Stored
  <1>4. x \in Row
    BY <1>2, <1>3 DEF Row, Addr
  <1> QED BY <1>1, <1>2, <1>4

LEMMA ToldStep ==
    ASSUME TypeOK, Stored, Told, NEW a \in Addr, NEW time \in Time,
           NEW emoji \in Reaction, Store(a, time, emoji)
    PROVE  Told'
  <1>1. PICK x \in Row :
               /\ reactions' = reactions \cup {x}
               /\ x.id = Cardinality(reactions) + 1 /\ x.from = a
               /\ x.time = time /\ x.emoji = emoji
               /\ \A y \in reactions : y.from = a /\ y.time = time
                                            => y.hash # x.hash
    BY StoredRow
  <1>2. PICK n \in Nat : n = Cardinality(reactions)
    BY FS_CardinalityType DEF Stored
  <1>3. \A y \in reactions : y.id \in Nat /\ y.id <= n
    BY <1>2, RowFields DEF TypeOK, Told
  <1>4. \A y \in reactions : y.id # x.id
    BY <1>1, <1>2, <1>3
  <1>5. Cardinality(reactions') = n + 1
    <2>1. x \notin reactions
      BY <1>4
    <2>2. Cardinality(reactions \cup {x}) = n + 1
      BY <1>2, <2>1, FS_AddElement DEF Stored
    <2> QED BY <1>1, <2>2, Zenon
  <1>6. \A y \in reactions' : y.id <= Cardinality(reactions')
    BY <1>1, <1>2, <1>3, <1>5
  <1>7. \A y, z \in reactions' : y.id = z.id => y = z
    BY <1>1, <1>4 DEF Told
  <1>8. \A y, z \in reactions' :
            y.from = z.from /\ y.time = z.time /\ y.hash = z.hash => y = z
    BY <1>1 DEF Told
  <1> QED BY <1>6, <1>7, <1>8 DEF Told

LEMMA NewestSame ==
    ASSUME NEW b, \A x : x \in reactions' /\ x.from = b
                            <=> x \in reactions /\ x.from = b
    PROVE  NewestOf(b)' = NewestOf(b)
  BY DEF NewestOf

\* A row later than the others of its address is the newest.
LEMMA NewestLast ==
    ASSUME TypeOK, NEW x \in Row, reactions' = reactions \cup {x},
           \A y \in reactions : y.from = x.from => y.time < x.time
    PROVE  NewestOf(x.from)' = {x}
  <1>1. PICK a : a = x.from
    OBVIOUS
  <1>2. \A y \in reactions' : y.time \in Nat /\ y.hash \in Nat
    BY RowFields DEF TypeOK
  <1>3. x \in reactions' /\ \A y \in reactions' : y.from = a =>
                                y = x \/ y.time < x.time
    BY <1>1
  <1>4. ASSUME NEW y
        PROVE  y \in NewestOf(a)' <=>
                   /\ y \in reactions' /\ y.from = a
                   /\ \A z \in reactions' : z.from = a =>
                         \/ z.time < y.time
                         \/ z.time = y.time /\ z.hash <= y.hash
    BY DEF NewestOf
  <1>5. x \in NewestOf(a)'
    BY <1>1, <1>2, <1>3, <1>4
  <1>6. ASSUME NEW y \in NewestOf(a)' PROVE y = x
    BY <1>1, <1>2, <1>3, <1>4
  <1> QED BY <1>1, <1>5, <1>6

\* React's own reduction finds the row that is shown.
LEMMA CurrentIs ==
    ASSUME TypeOK, Stored, Told, NEW a
    PROVE  /\ Current(a) = NewestOf(a)
           /\ \A x, y \in Current(a) : x = y
  <1>1. PICK S : S = {x \in reactions : x.from = a}
    OBVIOUS
  <1>2. PICK r : r = Reduced(S)
    OBVIOUS
  <1>3. Current(a) = {r[b] : b \in DOMAIN r}
    BY <1>1, <1>2 DEF Current
  <1>4. \A b \in DOMAIN r : r[b] \in S /\ r[b].from = b
    BY <1>1, <1>2, ReactionRows, ReducedIs
  <1>5. \A b \in DOMAIN r : b = a
    BY <1>1, <1>4
  <1>6. /\ a \in DOMAIN r => NewestOf(a) = {r[a]}
        /\ a \notin DOMAIN r => NewestOf(a) = {}
    BY <1>1, <1>2, NewestIs
  <1>7. CASE a \in DOMAIN r
    <2>1. Current(a) = {r[a]}
      BY <1>3, <1>5, <1>7
    <2> QED BY <1>6, <1>7, <2>1
  <1>8. CASE a \notin DOMAIN r
    <2>1. Current(a) = {}
      BY <1>3, <1>5, <1>8
    <2> QED BY <1>6, <1>8, <2>1
  <1> QED BY <1>7, <1>8
LEMMA QuietStep ==
    ASSUME ShownInv, Quiet PROVE Told' /\ Past' /\ GrantedIsShown'
  <1>1. Told'
    BY DEF ShownInv, Quiet, Told
  <1>2. Past'
    <2>1. clock \in Nat /\ \A x \in reactions : x.time \in Nat
      BY RowFields DEF ShownInv, TypeOK, Time
    <2> QED BY <2>1 DEF ShownInv, Quiet, Past
  <1>3. \A a : NewestOf(a)' = NewestOf(a)
    BY NewestSame DEF Quiet
  <1>4. GrantedIsShown'
    BY <1>3 DEF ShownInv, Quiet, GrantedIsShown
  <1> QED BY <1>1, <1>2, <1>4

LEMMA ReactAgainStep ==
    ASSUME ShownInv, NEW a \in Local, NEW e \in Reaction, ReactAgain(a, e)
    PROVE  Told' /\ Past' /\ GrantedIsShown'
  <1>1. /\ reactions' = reactions /\ clock' = clock /\ setBack' = setBack
        /\ want' = [want EXCEPT ![a] = e] /\ unsure' = unsure \ {a}
    BY DEF ReactAgain
  <1>2. Told'
    BY <1>1 DEF ShownInv, Told
  <1>3. Past'
    BY <1>1 DEF ShownInv, Past
  <1>4. \A b : NewestOf(b)' = NewestOf(b)
    BY <1>1, NewestSame
  <1>5. {x.emoji : x \in NewestOf(a)} \ {Cleared} = {e} \ {Cleared}
    <2>1. Current(a) = NewestOf(a) /\ \A x, y \in Current(a) : x = y
      BY CurrentIs DEF ShownInv
    <2>2. CASE Current(a) = {}
      <3>1. e = Cleared
        BY <2>2 DEF ReactAgain, Repeats
      <3> QED BY <2>1, <2>2, <3>1
    <2>3. CASE Current(a) # {}
      <3>1. PICK x \in Current(a) : x.emoji = e
        BY <2>3 DEF ReactAgain, Repeats
      <3> QED BY <2>1, <3>1
    <2> QED BY <2>2, <2>3
  <1>6. ASSUME ~setBack', NEW b \in Local \ unsure'
        PROVE  {x.emoji : x \in NewestOf(b)'} \ {Cleared}
                   = {want'[b]} \ {Cleared}
    <2>1. {x.emoji : x \in NewestOf(b)'} = {x.emoji : x \in NewestOf(b)}
      BY <1>4
    <2>2. CASE b = a
      <3>1. want'[b] = e
        BY <1>1, <2>2 DEF ShownInv, TypeOK
      <3> QED BY <1>5, <2>1, <2>2, <3>1
    <2>3. CASE b # a
      <3>1. want'[b] = want[b] /\ b \in Local \ unsure
        BY <1>1, <1>6, <2>3 DEF ShownInv, TypeOK
      <3>2. {x.emoji : x \in NewestOf(b)} \ {Cleared} = {want[b]} \ {Cleared}
        BY <1>1, <1>6, <3>1 DEF ShownInv, GrantedIsShown
      <3> QED BY <2>1, <3>1, <3>2
    <2> QED BY <2>2, <2>3
  <1> QED BY <1>2, <1>3, <1>6 DEF GrantedIsShown

LEMMA ReactStep ==
    ASSUME ShownInv, NEW a \in Local, NEW e \in Reaction, NEW ack \in BOOLEAN,
           React(a, e, ack)
    PROVE  Told' /\ Past' /\ GrantedIsShown'
  <1>1. /\ Store(a, clock, e) /\ clock' = clock + 1 /\ setBack' = setBack
        /\ want' = IF ack THEN [want EXCEPT ![a] = e] ELSE want
        /\ unsure' = IF ack THEN unsure \ {a} ELSE unsure \cup {a}
    BY DEF React
  <1>2. TypeOK /\ Stored /\ Told /\ a \in Addr /\ clock \in Time /\ clock \in Nat
    BY DEF ShownInv, TypeOK, Addr, Time
  <1>3. Told'
    BY <1>1, <1>2, ToldStep
  <1>4. PICK x \in Row :
               /\ reactions' = reactions \cup {x} /\ x.from = a
               /\ x.time = clock /\ x.emoji = e
    BY <1>1, <1>2, StoredRow
  <1>5. \A y \in reactions : y.time \in Nat
    BY <1>2, RowFields DEF TypeOK
  <1>6. Past'
    BY <1>1, <1>2, <1>4, <1>5 DEF ShownInv, Past
  <1>7. ASSUME ~setBack' PROVE NewestOf(a)' = {x}
    <2>1. \A y \in reactions : y.from = x.from => y.time < x.time
      BY <1>1, <1>4, <1>7 DEF ShownInv, Past
    <2>2. NewestOf(x.from)' = {x}
      BY <1>2, <1>4, <2>1, NewestLast
    <2> QED BY <1>4, <2>2
  <1>8. ASSUME NEW b, b # a PROVE NewestOf(b)' = NewestOf(b)
    <2>1. \A y : y \in reactions' /\ y.from = b <=> y \in reactions /\ y.from = b
      BY <1>4, <1>8
    <2> QED BY <2>1, NewestSame
  <1>9. ASSUME ~setBack', NEW b \in Local \ unsure'
        PROVE  {y.emoji : y \in NewestOf(b)'} \ {Cleared}
                   = {want'[b]} \ {Cleared}
    <2>1. CASE b = a
      <3>1. ack
        BY <1>1, <1>9, <2>1
      <3>2. want'[b] = e
        BY <1>1, <2>1, <3>1 DEF ShownInv, TypeOK
      <3>3. {y.emoji : y \in NewestOf(b)'} = {e}
        BY <1>4, <1>7, <1>9, <2>1
      <3> QED BY <3>2, <3>3
    <2>2. CASE b # a
      <3>1. want'[b] = want[b] /\ b \in Local \ unsure
        BY <1>1, <1>9, <2>2 DEF ShownInv, TypeOK
      <3>2. {y.emoji : y \in NewestOf(b)} \ {Cleared} = {want[b]} \ {Cleared}
        BY <1>1, <1>9, <3>1 DEF ShownInv, GrantedIsShown
      <3>3. NewestOf(b)' = NewestOf(b)
        BY <1>8, <2>2
      <3> QED BY <3>1, <3>2, <3>3
    <2> QED BY <2>1, <2>2
  <1> QED BY <1>3, <1>6, <1>9 DEF GrantedIsShown

LEMMA ReceiveStep ==
    ASSUME ShownInv, NEW a \in Remote, NEW t \in Time, NEW e \in Reaction,
           Receive(a, t, e)
    PROVE  Told' /\ Past' /\ GrantedIsShown'
  <1>1. /\ Store(a, t, e) /\ clock' = clock /\ setBack' = setBack
        /\ want' = want /\ unsure' = unsure
    BY DEF Receive
  <1>2. TypeOK /\ Stored /\ Told /\ a \in Addr
    BY DEF ShownInv, Addr
  <1>3. Told'
    BY <1>1, <1>2, ToldStep
  <1>4. PICK x \in Row : reactions' = reactions \cup {x} /\ x.from = a
    BY <1>1, <1>2, StoredRow
  <1>5. x.from \notin Local
    BY <1>4, MarksAssumption
  <1>6. Past'
    BY <1>1, <1>4, <1>5 DEF ShownInv, Past
  <1>7. ASSUME NEW b \in Local PROVE NewestOf(b)' = NewestOf(b)
    <2>1. \A y : y \in reactions' /\ y.from = b <=> y \in reactions /\ y.from = b
      BY <1>4, <1>5
    <2> QED BY <2>1, NewestSame
  <1>8. GrantedIsShown'
    BY <1>1, <1>7 DEF ShownInv, GrantedIsShown
  <1> QED BY <1>3, <1>6, <1>8

LEMMA ShownInit == Init => ShownInv
  <1> SUFFICES ASSUME Init PROVE ShownInv
    OBVIOUS
  <1>1. TypeOK /\ Stored
    BY MarksInit DEF IInv
  <1>2. reactions = {} /\ want = [a \in Local |-> Cleared]
    BY DEF Init
  <1>3. Told /\ Past
    BY <1>2 DEF Told, Past
  <1>4. \A a \in Local : NewestOf(a) = {} /\ want[a] = Cleared
    BY <1>2 DEF NewestOf
  <1>5. GrantedIsShown
    BY <1>4 DEF GrantedIsShown
  <1> QED BY <1>1, <1>3, <1>5 DEF ShownInv

LEMMA ShownStep == ShownInv /\ [Next]_vars => ShownInv'
  <1> SUFFICES ASSUME ShownInv, [Next]_vars PROVE ShownInv'
    OBVIOUS
  <1>1. TypeOK' /\ Stored'
    BY TypeStep DEF ShownInv
  <1>2. Told' /\ Past' /\ GrantedIsShown'
    BY QuietCases, QuietStep, ReactAgainStep, ReactStep, ReceiveStep DEF ShownInv
  <1> QED BY <1>1, <1>2 DEF ShownInv

\* Whatever rows were stored, from however many participants and in whatever
\* order, the reactions shown are the newest of each and nothing else, in
\* groups of different emojis (effectiveReactions).
THEOREM NewestShown == Spec => []ShowsTheNewest
  <1>1. ShownInv => ShowsTheNewest
    BY ShownIsNewest DEF ShownInv
  <1> QED BY <1>1, ShownInit, ShownStep, PTL DEF Spec

\* The reaction a local address last asked for and was granted is the one
\* shown, unless one it was told had failed was stored, or the clock was set
\* back (React).
THEOREM GrantedShown == Spec => []GrantedIsShown
  <1>1. ShownInv => GrantedIsShown
    BY DEF ShownInv
  <1> QED BY <1>1, ShownInit, ShownStep, PTL DEF Spec
=============================================================================
