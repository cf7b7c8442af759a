----------------------------- MODULE QuotaProofs ----------------------------
(***************************************************************************)
(* The limits of an address hold for any number of messages of any size,   *)
(* and whatever the limits are.  A check lets a message through only when  *)
(* what was recorded leaves room for it, so the messages that were checked *)
(* and not recorded since (Running) and those recorded take together at    *)
(* most the limit and the room of those running besides.  No later step    *)
(* adds to the two: a message only moves from the one to the other, or out *)
(* of both.                                                                *)
(***************************************************************************)
EXTENDS Quota, FiniteSetTheorems, WellFoundedInduction, TLAPS

Recorded == At({"recorded"})
Lost     == At({"lost"})
Given    == {m \in Msg : free[m] = "given"}

AtOnce == Cardinality(Running) <= peak

Ages == aged \subseteq Had

CountInv ==
    limit.count > -1 =>
        Cardinality(Running \ aged) + Cardinality(Recorded \ aged)
            <= limit.count + Crowd

SizeInv ==
    limit.size > -1 =>
        SumOf(Running \ aged) + SumOf(Recorded \ aged)
            <= limit.size + Crowd * Largest

TotalInv ==
    limit.total > -1 =>
        SumOf(Running) + SumOf(Recorded) - SumOf(Given)
            <= limit.total + Crowd * Largest

\* What the address had and deleted is given back, or was delivered late.
Returned ==
    /\ late \subseteq Had \cap purged
    /\ \A m \in Msg : free[m] # "no" <=> m \in (Had \cap purged) \ late

IInv == TypeOK /\ AtOnce /\ Ages /\ CountInv /\ SizeInv /\ TotalInv /\ Returned
-----------------------------------------------------------------------------
(***************************************************************************)
(* Sums of sizes                                                           *)
(***************************************************************************)

LEMMA SizeNat == ASSUME NEW m \in Msg PROVE SizeOf[m] \in Nat
  BY QuotaAssumption

LEMMA InBytes ==
    ASSUME NEW S, NEW b
    PROVE  b \in Bytes(S) <=> \E m \in S : b \in {m} \X (1 .. SizeOf[m])
  BY DEF Bytes

LEMMA BytesOfOne ==
    ASSUME NEW m \in Msg
    PROVE  /\ IsFiniteSet({m} \X (1 .. SizeOf[m]))
           /\ Cardinality({m} \X (1 .. SizeOf[m])) = SizeOf[m]
  <1>1. IsFiniteSet({m}) /\ Cardinality({m}) = 1
    BY FS_Singleton
  <1>2. SizeOf[m] \in Nat
    BY SizeNat
  <1>3. IsFiniteSet(1 .. SizeOf[m]) /\ Cardinality(1 .. SizeOf[m]) = SizeOf[m]
    BY <1>2, FS_Interval
  <1>4. /\ IsFiniteSet({m} \X (1 .. SizeOf[m]))
        /\ Cardinality({m} \X (1 .. SizeOf[m]))
              = Cardinality({m}) * Cardinality(1 .. SizeOf[m])
    BY <1>1, <1>3, FS_Product, Zenon
  <1>5. 1 * SizeOf[m] = SizeOf[m]
    BY <1>2
  <1> QED BY <1>1, <1>3, <1>4, <1>5, Zenon

LEMMA SubsetFinite ==
    ASSUME NEW S \in SUBSET Msg PROVE IsFiniteSet(S) /\ Cardinality(S) \in Nat
  BY QuotaAssumption, FS_Subset, FS_CardinalityType

LEMMA BytesFinite ==
    ASSUME NEW S \in SUBSET Msg
    PROVE  IsFiniteSet(Bytes(S)) /\ SumOf(S) \in Nat
  <1> DEFINE f == [m \in S |-> {m} \X (1 .. SizeOf[m])]
             T == {{m} \X (1 .. SizeOf[m]) : m \in S}
  <1>1. f \in Surjection(S, T)
    BY DEF Surjection
  <1>2. IsFiniteSet(T)
    BY <1>1, SubsetFinite, FS_Surjection
  <1>3. \A t \in T : IsFiniteSet(t)
    BY BytesOfOne
  <1>4. IsFiniteSet(UNION T)
    BY <1>2, <1>3, FS_UNION
  <1>5. IsFiniteSet(Bytes(S))
    BY <1>4 DEF Bytes
  <1> QED BY <1>5, FS_CardinalityType DEF SumOf

\* Sums of disjoint sets add up.
LEMMA SumSplits ==
    ASSUME NEW S \in SUBSET Msg, NEW T \in SUBSET Msg, S \cap T = {}
    PROVE  SumOf(S \cup T) = SumOf(S) + SumOf(T)
  <1>1. Bytes(S \cup T) = Bytes(S) \cup Bytes(T)
    BY InBytes
  <1>2. \A b \in Bytes(S) : b[1] \in S
    BY InBytes
  <1>3. \A b \in Bytes(T) : b[1] \in T
    BY InBytes
  <1>4. Bytes(S) \cap Bytes(T) = {}
    BY <1>2, <1>3
  <1>5. IsFiniteSet(Bytes(S)) /\ IsFiniteSet(Bytes(T))
    BY BytesFinite
  <1>6. Cardinality(Bytes(S)) \in Nat /\ Cardinality(Bytes(T)) \in Nat
    BY <1>5, FS_CardinalityType
  <1>7. Cardinality(Bytes(S) \cup Bytes(T))
            = Cardinality(Bytes(S)) + Cardinality(Bytes(T))
                - Cardinality(Bytes(S) \cap Bytes(T))
    BY <1>5, FS_Union, Zenon
  <1>8. Cardinality(Bytes(S) \cap Bytes(T)) = 0
    BY <1>4, FS_EmptySet, Zenon
  <1>9. Cardinality(Bytes(S) \cup Bytes(T))
            = Cardinality(Bytes(S)) + Cardinality(Bytes(T))
    BY <1>6, <1>7, <1>8
  <1> QED BY <1>1, <1>9, Zenon DEF SumOf

LEMMA SumOfNone == SumOf({}) = 0
  <1>1. Bytes({}) = {}
    BY InBytes
  <1> QED BY <1>1, FS_EmptySet DEF SumOf

LEMMA SumOfOne == ASSUME NEW m \in Msg PROVE SumOf({m}) = SizeOf[m]
  <1>1. Bytes({m}) = {m} \X (1 .. SizeOf[m])
    BY InBytes
  <1> QED BY <1>1, BytesOfOne DEF SumOf

LEMMA SumGrows ==
    ASSUME NEW T \in SUBSET Msg, NEW S \in SUBSET T
    PROVE  SumOf(S) <= SumOf(T)
  <1>1. SumOf(S \cup (T \ S)) = SumOf(S) + SumOf(T \ S)
    BY SumSplits
  <1>2. S \cup (T \ S) = T
    OBVIOUS
  <1>3. SumOf(S) \in Nat /\ SumOf(T \ S) \in Nat
    BY BytesFinite
  <1>4. SumOf(T) = SumOf(S) + SumOf(T \ S)
    BY <1>1, <1>2, Zenon
  <1> QED BY <1>3, <1>4

LEMMA SumAtMost ==
    ASSUME NEW S \in SUBSET Msg, NEW T \in SUBSET Msg
    PROVE  SumOf(S \cup T) <= SumOf(S) + SumOf(T)
  <1>1. SumOf(S \cup (T \ S)) = SumOf(S) + SumOf(T \ S)
    BY SumSplits
  <1>2. S \cup (T \ S) = S \cup T
    OBVIOUS
  <1>3. SumOf(T \ S) <= SumOf(T)
    BY SumGrows
  <1>4. SumOf(S) \in Nat /\ SumOf(T) \in Nat /\ SumOf(T \ S) \in Nat
    BY BytesFinite
  <1>5. SumOf(S \cup T) = SumOf(S) + SumOf(T \ S)
    BY <1>1, <1>2, Zenon
  <1> QED BY <1>3, <1>4, <1>5

LEMMA SumAdds ==
    ASSUME NEW S \in SUBSET Msg, NEW m \in Msg
    PROVE  /\ SumOf(S \cup {m}) <= SumOf(S) + SizeOf[m]
           /\ m \notin S => SumOf(S \cup {m}) = SumOf(S) + SizeOf[m]
           /\ m \in S => SumOf(S \ {m}) = SumOf(S) - SizeOf[m]
  <1>1. SumOf({m}) = SizeOf[m] /\ SizeOf[m] \in Nat
    BY SumOfOne, SizeNat
  <1>2. SumOf(S \cup {m}) <= SumOf(S) + SizeOf[m]
    BY <1>1, SumAtMost
  <1>3. ASSUME m \notin S
        PROVE  SumOf(S \cup {m}) = SumOf(S) + SizeOf[m]
    BY <1>1, <1>3, SumSplits
  <1>4. ASSUME m \in S
        PROVE  SumOf(S \ {m}) = SumOf(S) - SizeOf[m]
    <2>1. SumOf((S \ {m}) \cup {m}) = SumOf(S \ {m}) + SumOf({m})
      BY SumSplits
    <2>2. (S \ {m}) \cup {m} = S
      BY <1>4
    <2>3. SumOf(S \ {m}) \in Nat
      BY BytesFinite
    <2>4. SumOf(S) = SumOf(S \ {m}) + SumOf({m})
      BY <2>1, <2>2, Zenon
    <2> QED BY <1>1, <2>3, <2>4
  <1> QED BY <1>2, <1>3, <1>4
\* A set of naturals that is not empty has a least member.
LEMMA LeastNatural ==
    ASSUME NEW A \in SUBSET Nat, A # {}
    PROVE  \E n \in A : \A k \in A : n <= k
  <1>1. \A i, j \in Nat : <<i, j>> \in OpToRel(<, Nat) <=> i < j
    BY DEF OpToRel
  <1>2. PICK less : /\ IsWellFoundedOn(less, Nat)
                    /\ \A i, j \in Nat : <<i, j>> \in less <=> i < j
    BY <1>1, NatLessThanWellFounded, Zenon
  <1> DEFINE L == less
  <1>3. IsWellFoundedOn(L, Nat)
    BY <1>2
  <1> HIDE DEF L
  <1>4. PICK n \in A : \A k \in A : ~(<<k, n>> \in L)
    BY <1>3, WFMin
  <1>5. \A k \in A : n \in Nat /\ k \in Nat /\ ~(k < n)
    BY <1>2, <1>4 DEF L
  <1> QED BY <1>5

LEMMA LargestIs ==
    /\ Largest \in Nat
    /\ \A m \in Msg : SizeOf[m] <= Largest
  <1> DEFINE V == {SizeOf[m] : m \in Msg} \cup {0}
             A == {n \in Nat : \A v \in V : v <= n}
  <1>1. SumOf(Msg) \in Nat
    BY BytesFinite
  <1>2. \A m \in Msg : SizeOf[m] <= SumOf(Msg)
    BY SumGrows, SumOfOne
  <1>3. V \subseteq Nat /\ 0 \in V
    BY SizeNat
  <1>4. SumOf(Msg) \in A
    BY <1>1, <1>2
  <1> HIDE DEF V
  <1>5. PICK n \in A : \A k \in A : n <= k
    BY <1>4, LeastNatural
  <1>6. n \in V
    <2> SUFFICES ASSUME n \notin V PROVE FALSE
      OBVIOUS
    <2>1. n \in Nat /\ n # 0 /\ \A v \in V : v <= n /\ v # n
      BY <1>3, <1>5
    <2>2. n - 1 \in A
      BY <1>3, <2>1
    <2> QED BY <1>5, <2>1, <2>2
  <1>7. \E x \in V : \A y \in V : x >= y
    BY <1>3, <1>5, <1>6
  <1>8. Max(V) \in V /\ \A y \in V : Max(V) >= y
    BY <1>7 DEF Max
  <1>9. Largest = Max(V)
    BY DEF Largest, V
  <1>10. \A m \in Msg : SizeOf[m] \in V
    BY DEF V
  <1> QED BY <1>3, <1>8, <1>9, <1>10

LEMMA SumBounded ==
    ASSUME NEW S \in SUBSET Msg
    PROVE  SumOf(S) <= Cardinality(S) * Largest
  <1>1. Largest \in Nat /\ \A m \in Msg : SizeOf[m] \in Nat /\ SizeOf[m] <= Largest
    BY LargestIs, SizeNat
  <1>2. Bytes(S) \subseteq S \X (1 .. Largest)
    BY <1>1, InBytes
  <1>3. IsFiniteSet(1 .. Largest) /\ Cardinality(1 .. Largest) = Largest
    BY <1>1, FS_Interval
  <1>4. IsFiniteSet(S)
    BY SubsetFinite
  <1>5. /\ IsFiniteSet(S \X (1 .. Largest))
        /\ Cardinality(S \X (1 .. Largest)) = Cardinality(S) * Largest
    BY <1>3, <1>4, FS_Product, Zenon
  <1>6. Cardinality(Bytes(S)) <= Cardinality(S \X (1 .. Largest))
    BY <1>2, <1>5, FS_Subset
  <1> QED BY <1>5, <1>6, Zenon DEF SumOf
-----------------------------------------------------------------------------
(***************************************************************************)
(* What the steps do to the sets that are counted                          *)
(***************************************************************************)

LEMMA SetTypes ==
    /\ Running \subseteq Msg /\ Recorded \subseteq Msg /\ Had \subseteq Msg
    /\ Lost \subseteq Msg /\ Given \subseteq Msg
  BY DEF Running, Recorded, Had, Lost, Given, At

LEMMA CheckSets ==
    ASSUME TypeOK, NEW m \in Msg, Check(m)
    PROVE  /\ Running' = Running \cup {m} /\ m \notin Running
           /\ Recorded' = Recorded /\ Had' = Had
  BY DEF TypeOK, Check, To, Running, Recorded, Had, At

LEMMA RefuseSets ==
    ASSUME TypeOK, NEW m \in Msg, RefuseDelivery(m)
    PROVE  Running' = Running /\ Recorded' = Recorded /\ Had' = Had
  BY DEF TypeOK, RefuseDelivery, To, Running, Recorded, Had, At

LEMMA CommitSets ==
    ASSUME TypeOK, NEW m \in Msg, Commit(m)
    PROVE  /\ Running' = Running /\ Recorded' = Recorded
           /\ Had' = Had \cup {m} /\ m \notin Had
  BY DEF TypeOK, Commit, To, Running, Recorded, Had, At

LEMMA GiveUpSets ==
    ASSUME TypeOK, NEW m \in Msg, GiveUp(m)
    PROVE  Running' \subseteq Running /\ Recorded' = Recorded /\ Had' = Had
  BY DEF TypeOK, GiveUp, To, Running, Recorded, Had, At

LEMMA RecordSets ==
    ASSUME TypeOK, NEW m \in Msg, NEW ok \in BOOLEAN, Record(m, ok)
    PROVE  /\ Running' = Running \ {m} /\ m \in Running
           /\ m \notin Recorded
           /\ ok => Recorded' = Recorded \cup {m}
           /\ ~ok => Recorded' = Recorded
           /\ Had' = Had
  BY DEF TypeOK, Record, To, Running, Recorded, Had, At

LEMMA SameSets ==
    ASSUME stage' = stage
    PROVE  Running' = Running /\ Recorded' = Recorded /\ Had' = Had
  BY DEF Running, Recorded, Had, At

LEMMA GivenGrows ==
    ASSUME TypeOK, NEW m \in Msg,
           Purge(m) \/ \E ok \in BOOLEAN : Release(m, ok)
    PROVE  Given \subseteq Given'
  BY DEF TypeOK, Purge, Release, Given

\* Every step but a check, and a recording that succeeds, leaves what is
\* counted as it is, or less.
Keeps ==
    /\ Running' \subseteq Running /\ Recorded' = Recorded
    /\ aged \subseteq aged' /\ Given \subseteq Given'
    /\ peak' = peak /\ limit' = limit

LEMMA StepKinds ==
    ASSUME TypeOK, [Next]_vars
    PROVE  \/ Keeps
           \/ \E m \in Msg : Check(m) \/ Record(m, TRUE)
  <1>1. ASSUME UNCHANGED vars PROVE Keeps
    BY <1>1, SameSets DEF vars, Keeps, Given
  <1>2. ASSUME NEW m \in Msg, RefuseDelivery(m) PROVE Keeps
    BY <1>2, RefuseSets DEF RefuseDelivery, Keeps, Given
  <1>3. ASSUME NEW m \in Msg, Commit(m) PROVE Keeps
    BY <1>3, CommitSets DEF Commit, Keeps, Given
  <1>4. ASSUME NEW m \in Msg, GiveUp(m) PROVE Keeps
    BY <1>4, GiveUpSets DEF GiveUp, Keeps, Given
  <1>5. ASSUME NEW m \in Msg, DayPasses(m) PROVE Keeps
    BY <1>5, SameSets DEF DayPasses, Keeps, Given
  <1>6. ASSUME NEW m \in Msg, Purge(m) PROVE Keeps
    BY <1>6, SameSets, GivenGrows DEF Purge, Keeps
  <1>7. ASSUME NEW m \in Msg, NEW ok \in BOOLEAN, Release(m, ok) PROVE Keeps
    BY <1>7, SameSets, GivenGrows DEF Release, Keeps
  <1>8. ASSUME NEW m \in Msg, NEW ok \in BOOLEAN, Record(m, ok), ~ok
        PROVE  Keeps
    BY <1>8, RecordSets DEF Record, Keeps, Given
  <1>9. ASSUME NEW m \in Msg, NEW ok \in BOOLEAN, Record(m, ok), ok
        PROVE  Record(m, TRUE)
    <2>1. ok = TRUE
      BY <1>9, Zenon
    <2> QED BY <1>9, <2>1, Zenon
  <1>10. ASSUME NEW m \in Msg,
                Check(m) \/ RefuseDelivery(m) \/ Commit(m) \/ GiveUp(m)
                    \/ DayPasses(m) \/ Purge(m)
                    \/ \E ok \in BOOLEAN : Record(m, ok) \/ Release(m, ok)
         PROVE  Keeps \/ Check(m) \/ Record(m, TRUE)
    BY <1>2, <1>3, <1>4, <1>5, <1>6, <1>7, <1>8, <1>9, <1>10, Zenon
  <1> QED BY <1>1, <1>10, Zenon DEF Next
-----------------------------------------------------------------------------
(***************************************************************************)
(* Types, and the messages that run at a time                              *)
(***************************************************************************)

LEMMA LimitTypes ==
    ASSUME TypeOK
    PROVE  /\ limit.perMsg \in Int /\ limit.count \in Int
           /\ limit.size \in Int /\ limit.total \in Int
  BY QuotaAssumption DEF TypeOK

LEMMA MsgCount == Cardinality(Msg) \in Nat
  BY SubsetFinite

LEMMA OneMoreRuns ==
    ASSUME TypeOK, NEW m \in Msg, Check(m)
    PROVE  /\ Cardinality(Running) \in Nat
           /\ Cardinality(Running') = Cardinality(Running) + 1
           /\ Cardinality(Running') <= Cardinality(Msg)
  <1>1. Running \subseteq Msg /\ Running' = Running \cup {m} /\ m \notin Running
    BY SetTypes, CheckSets
  <1>2. IsFiniteSet(Running) /\ Cardinality(Running) \in Nat
    BY <1>1, SubsetFinite
  <1>3. Cardinality(Running \cup {m}) = Cardinality(Running) + 1
    BY <1>1, <1>2, FS_AddElement
  <1>4. Cardinality(Running \cup {m}) <= Cardinality(Msg)
    BY <1>1, FS_Subset, QuotaAssumption
  <1> QED BY <1>1, <1>2, <1>3, <1>4, Zenon

LEMMA PeakStep ==
    ASSUME TypeOK, NEW m \in Msg, Check(m)
    PROVE  /\ peak' \in 0 .. Cardinality(Msg)
           /\ peak' >= Cardinality(Running) + 1
  BY OneMoreRuns, MsgCount DEF TypeOK, Check

LEMMA TypeStep ==
    ASSUME TypeOK, [Next]_vars
    PROVE  TypeOK'
  <1>1. ASSUME UNCHANGED vars PROVE TypeOK'
    BY <1>1 DEF vars, TypeOK
  <1>2. ASSUME NEW m \in Msg, Check(m) PROVE TypeOK'
    BY <1>2, PeakStep DEF Check, To, TypeOK, Stage
  <1>3. ASSUME NEW m \in Msg, RefuseDelivery(m) PROVE TypeOK'
    BY <1>3 DEF RefuseDelivery, To, TypeOK, Stage
  <1>4. ASSUME NEW m \in Msg, Commit(m) PROVE TypeOK'
    BY <1>4 DEF Commit, To, TypeOK, Stage
  <1>5. ASSUME NEW m \in Msg, GiveUp(m) PROVE TypeOK'
    BY <1>5 DEF GiveUp, To, TypeOK, Stage
  <1>6. ASSUME NEW m \in Msg, DayPasses(m) PROVE TypeOK'
    BY <1>6 DEF DayPasses, TypeOK
  <1>7. ASSUME NEW m \in Msg, Purge(m) PROVE TypeOK'
    BY <1>7 DEF Purge, TypeOK
  <1>8. ASSUME NEW m \in Msg, NEW ok \in BOOLEAN, Record(m, ok) PROVE TypeOK'
    BY <1>8 DEF Record, To, TypeOK, Stage
  <1>9. ASSUME NEW m \in Msg, NEW ok \in BOOLEAN, Release(m, ok) PROVE TypeOK'
    BY <1>9 DEF Release, TypeOK
  <1> QED BY <1>1, <1>2, <1>3, <1>4, <1>5, <1>6, <1>7, <1>8, <1>9 DEF Next

LEMMA AtOnceStep ==
    ASSUME TypeOK, AtOnce, [Next]_vars
    PROVE  AtOnce'
  <1>1. TypeOK'
    BY TypeStep
  <1>2. ASSUME NEW m \in Msg, Check(m) PROVE AtOnce'
    BY <1>1, <1>2, OneMoreRuns, PeakStep, MsgCount DEF AtOnce, TypeOK
  <1>3. ASSUME Running' \subseteq Running, peak' = peak PROVE AtOnce'
    <2>1. Running \subseteq Msg
      BY SetTypes
    <2>2. Cardinality(Running') <= Cardinality(Running)
      BY <1>3, <2>1, SubsetFinite, FS_Subset
    <2>3. Cardinality(Running) \in Nat /\ Cardinality(Running') \in Nat
      BY <1>3, <2>1, SubsetFinite
    <2> QED BY <1>3, <2>2, <2>3, MsgCount DEF AtOnce, TypeOK
  <1>4. ASSUME Keeps PROVE AtOnce'
    BY <1>3, <1>4 DEF Keeps
  <1>5. ASSUME NEW m \in Msg, Record(m, TRUE) PROVE AtOnce'
    BY <1>3, <1>5, RecordSets DEF Record
  <1> QED BY <1>2, <1>4, <1>5, StepKinds

LEMMA AgesStep ==
    ASSUME TypeOK, Ages, [Next]_vars
    PROVE  Ages' /\ Had \subseteq Had'
  <1>1. ASSUME UNCHANGED vars PROVE Ages' /\ Had \subseteq Had'
    BY <1>1, SameSets DEF vars, Ages
  <1>2. ASSUME NEW m \in Msg, Check(m) PROVE Ages' /\ Had \subseteq Had'
    BY <1>2, CheckSets DEF Check, Ages
  <1>3. ASSUME NEW m \in Msg, RefuseDelivery(m)
        PROVE  Ages' /\ Had \subseteq Had'
    BY <1>3, RefuseSets DEF RefuseDelivery, Ages
  <1>4. ASSUME NEW m \in Msg, Commit(m) PROVE Ages' /\ Had \subseteq Had'
    BY <1>4, CommitSets DEF Commit, Ages
  <1>5. ASSUME NEW m \in Msg, GiveUp(m) PROVE Ages' /\ Had \subseteq Had'
    BY <1>5, GiveUpSets DEF GiveUp, Ages
  <1>6. ASSUME NEW m \in Msg, DayPasses(m) PROVE Ages' /\ Had \subseteq Had'
    BY <1>6, SameSets DEF DayPasses, Ages
  <1>7. ASSUME NEW m \in Msg, Purge(m) PROVE Ages' /\ Had \subseteq Had'
    BY <1>7, SameSets DEF Purge, Ages
  <1>8. ASSUME NEW m \in Msg, NEW ok \in BOOLEAN, Record(m, ok)
        PROVE  Ages' /\ Had \subseteq Had'
    BY <1>8, RecordSets DEF Record, Ages
  <1>9. ASSUME NEW m \in Msg, NEW ok \in BOOLEAN, Release(m, ok)
        PROVE  Ages' /\ Had \subseteq Had'
    BY <1>9, SameSets DEF Release, Ages
  <1> QED BY <1>1, <1>2, <1>3, <1>4, <1>5, <1>6, <1>7, <1>8, <1>9 DEF Next

LEMMA ReturnedStep ==
    ASSUME TypeOK, Returned, [Next]_vars
    PROVE  Returned'
  <1>1. ASSUME Had' = Had, UNCHANGED <<purged, free, late>> PROVE Returned'
    BY <1>1 DEF Returned
  <1>2. ASSUME UNCHANGED vars PROVE Returned'
    BY <1>1, <1>2, SameSets DEF vars
  <1>3. ASSUME NEW m \in Msg, Check(m) PROVE Returned'
    BY <1>1, <1>3, CheckSets DEF Check
  <1>4. ASSUME NEW m \in Msg, RefuseDelivery(m) PROVE Returned'
    BY <1>1, <1>4, RefuseSets DEF RefuseDelivery
  <1>5. ASSUME NEW m \in Msg, Commit(m) PROVE Returned'
    <2>1. Had' = Had \cup {m} /\ m \notin Had
      BY <1>5, CommitSets
    <2>2. purged' = purged /\ free' = free
      BY <1>5 DEF Commit
    <2>3. late' = IF m \in purged THEN late \cup {m} ELSE late
      BY <1>5 DEF Commit
    <2> QED BY <2>1, <2>2, <2>3 DEF Returned
  <1>6. ASSUME NEW m \in Msg, GiveUp(m) PROVE Returned'
    BY <1>1, <1>6, GiveUpSets DEF GiveUp
  <1>7. ASSUME NEW m \in Msg, DayPasses(m) PROVE Returned'
    BY <1>1, <1>7, SameSets DEF DayPasses
  <1>8. ASSUME NEW m \in Msg, NEW ok \in BOOLEAN, Record(m, ok)
        PROVE  Returned'
    BY <1>1, <1>8, RecordSets DEF Record
  <1>9. ASSUME NEW m \in Msg, Purge(m) PROVE Returned'
    <2>1. Had' = Had /\ Had \subseteq Msg
      BY <1>9, SameSets, SetTypes DEF Purge
    <2>2. /\ m \notin purged /\ purged' = purged \cup {m} /\ late' = late
          /\ \A x \in Msg : x # m => free'[x] = free[x]
          /\ free'[m] = IF m \in Had THEN "owed" ELSE free[m]
      BY <1>9 DEF Purge, TypeOK
    <2> QED BY <2>1, <2>2 DEF Returned
  <1>10. ASSUME NEW m \in Msg, NEW ok \in BOOLEAN, Release(m, ok)
         PROVE  Returned'
    <2>1. Had' = Had /\ late' = late /\ purged' = purged
      BY <1>10, SameSets DEF Release
    <2>2. \A x \in Msg : free'[x] # "no" <=> free[x] # "no"
      BY <1>10 DEF Release, TypeOK
    <2> QED BY <2>1, <2>2 DEF Returned
  <1> QED BY <1>2, <1>3, <1>4, <1>5, <1>6, <1>7, <1>8, <1>9, <1>10 DEF Next
-----------------------------------------------------------------------------
(***************************************************************************)
(* The limits                                                              *)
(***************************************************************************)

LEMMA ProductNat == ASSUME NEW a \in Nat, NEW c \in Nat PROVE a * c \in Nat
  OBVIOUS

LEMMA ProductGrows ==
    ASSUME NEW a \in Nat, NEW b \in Nat, NEW c \in Nat, a <= b
    PROVE  a * c <= b * c
  <1>1. PICK d \in Nat : b = a + d
    <2>1. b - a \in Nat /\ b = a + (b - a)
      OBVIOUS
    <2> QED BY <2>1
  <1>2. b * c = a * c + d * c
    BY <1>1
  <1>3. a * c \in Nat /\ d * c \in Nat
    BY ProductNat
  <1> QED BY <1>2, <1>3

\* What the check leaves room for.
LEMMA CheckRoom ==
    ASSUME NEW m \in Msg, Check(m)
    PROVE  /\ limit.count > -1 =>
                 ~(Cardinality(Recorded \ aged) + 1 > limit.count)
           /\ limit.size > -1 =>
                 ~(SumOf(Recorded \ aged) + SizeOf[m] > limit.size)
           /\ limit.total > -1 =>
                 ~(SumOf(Recorded) - SumOf(Given) + SizeOf[m] > limit.total)
  BY DEF Check, Refused, CheckSendLimits, RecvLimitExceeded, Over, CountPer1d,
         SizePer1d, SizeTotal, Recorded, Given

LEMMA CrowdIs ==
    ASSUME TypeOK
    PROVE  Crowd \in Nat /\ (peak > 0 => Crowd = peak - 1)
  BY MsgCount DEF TypeOK, Crowd

\* After a check the others that run are at most the crowd.
LEMMA CrowdStep ==
    ASSUME TypeOK, NEW m \in Msg, Check(m)
    PROVE  Crowd' \in Nat /\ Cardinality(Running) <= Crowd'
  <1>1. peak' \in 0 .. Cardinality(Msg) /\ peak' >= Cardinality(Running) + 1
    BY PeakStep
  <1>2. Cardinality(Running) \in Nat /\ Cardinality(Msg) \in Nat
    BY OneMoreRuns, MsgCount
  <1>3. peak' \in Nat /\ peak' # 0
    BY <1>1, <1>2
  <1>4. Crowd' = peak' - 1
    BY <1>3 DEF Crowd
  <1>5. peak' - 1 \in Nat /\ Cardinality(Running) <= peak' - 1
    <2>1. \A p, c \in Nat : p >= c + 1 => p - 1 \in Nat /\ c <= p - 1
      OBVIOUS
    <2> QED BY <1>1, <1>2, <1>3, <2>1, Zenon
  <1> QED BY <1>4, <1>5, Zenon

LEMMA SameCrowd == ASSUME peak' = peak PROVE Crowd' = Crowd
  BY DEF Crowd

LEMMA CountStep ==
    ASSUME TypeOK, CountInv, [Next]_vars
    PROVE  CountInv'
  <1>1. ASSUME NEW m \in Msg, Check(m) PROVE CountInv'
    <2> SUFFICES ASSUME limit'.count > -1
                 PROVE  Cardinality(Running' \ aged')
                          + Cardinality(Recorded' \ aged')
                            <= limit'.count + Crowd'
      BY DEF CountInv
    <2>1. limit' = limit /\ aged' = aged
      BY <1>1 DEF Check
    <2>2. Recorded' = Recorded
      BY <1>1, CheckSets
    <2>3. Cardinality(Running' \ aged) <= Cardinality(Running')
      <3>1. Running' \subseteq Msg
        BY <1>1, CheckSets, SetTypes
      <3> QED BY <3>1, SubsetFinite, FS_Subset
    <2>4. /\ Cardinality(Running) \in Nat
          /\ Cardinality(Running') = Cardinality(Running) + 1
          /\ Cardinality(Running' \ aged) \in Nat
          /\ Cardinality(Recorded \ aged) \in Nat
      BY <1>1, CheckSets, SetTypes, OneMoreRuns, SubsetFinite
    <2>5. Cardinality(Recorded \ aged) + 1 <= limit.count /\ limit.count \in Int
      <3>1. limit.count > -1 /\ limit.count \in Int
        BY <2>1, LimitTypes
      <3>2. ~(Cardinality(Recorded \ aged) + 1 > limit.count)
        BY <1>1, <3>1, CheckRoom
      <3> QED BY <2>4, <3>1, <3>2
    <2>6. Crowd' \in Nat /\ Cardinality(Running) <= Crowd'
      BY <1>1, CrowdStep
    <2>7. Cardinality(Recorded' \ aged') = Cardinality(Recorded \ aged)
      BY <2>1, <2>2, Zenon
    <2>8. Cardinality(Running' \ aged') = Cardinality(Running' \ aged)
      BY <2>1, Zenon
    <2> QED BY <2>1, <2>3, <2>4, <2>5, <2>6, <2>7, <2>8
  <1>2. ASSUME Keeps PROVE CountInv'
    <2> SUFFICES ASSUME limit'.count > -1
                 PROVE  Cardinality(Running' \ aged')
                          + Cardinality(Recorded' \ aged')
                            <= limit'.count + Crowd'
      BY DEF CountInv
    <2>1. limit' = limit /\ Crowd' = Crowd
      BY <1>2, SameCrowd DEF Keeps
    <2>2. /\ Running' \ aged' \in SUBSET (Running \ aged)
          /\ Recorded' \ aged' \in SUBSET (Recorded \ aged)
          /\ Running \ aged \in SUBSET Msg /\ Recorded \ aged \in SUBSET Msg
      BY <1>2, SetTypes DEF Keeps
    <2>3. /\ Cardinality(Running' \ aged') <= Cardinality(Running \ aged)
          /\ Cardinality(Recorded' \ aged') <= Cardinality(Recorded \ aged)
      BY <2>2, SubsetFinite, FS_Subset
    <2>4. /\ Cardinality(Running' \ aged') \in Nat
          /\ Cardinality(Recorded' \ aged') \in Nat
          /\ Cardinality(Running \ aged) \in Nat
          /\ Cardinality(Recorded \ aged) \in Nat
      BY <2>2, SubsetFinite
    <2>5. limit.count \in Int /\ Crowd \in Nat
      BY LimitTypes, CrowdIs
    <2>6. Cardinality(Running \ aged) + Cardinality(Recorded \ aged)
            <= limit.count + Crowd
      BY <2>1 DEF CountInv
    <2> QED BY <2>1, <2>3, <2>4, <2>5, <2>6
  <1>3. ASSUME NEW m \in Msg, Record(m, TRUE) PROVE CountInv'
    <2> SUFFICES ASSUME limit'.count > -1
                 PROVE  Cardinality(Running' \ aged')
                          + Cardinality(Recorded' \ aged')
                            <= limit'.count + Crowd'
      BY DEF CountInv
    <2>1. limit' = limit /\ Crowd' = Crowd /\ aged' = aged
      BY <1>3, SameCrowd DEF Record
    <2>2. /\ Running' = Running \ {m} /\ m \in Running
          /\ m \notin Recorded /\ Recorded' = Recorded \cup {m}
      BY <1>3, RecordSets
    <2>3. Running \ aged \in SUBSET Msg /\ Recorded \ aged \in SUBSET Msg
      BY SetTypes
    <2>4. /\ IsFiniteSet(Running \ aged) /\ IsFiniteSet(Recorded \ aged)
          /\ Cardinality(Running \ aged) \in Nat
          /\ Cardinality(Recorded \ aged) \in Nat
      BY <2>3, SubsetFinite
    <2>5. limit.count \in Int /\ Crowd \in Nat
      BY LimitTypes, CrowdIs
    <2>6. Cardinality(Running \ aged) + Cardinality(Recorded \ aged)
            <= limit.count + Crowd
      BY <2>1 DEF CountInv
    <2>7. ASSUME m \in aged
          PROVE  /\ Cardinality(Running' \ aged') = Cardinality(Running \ aged)
                 /\ Cardinality(Recorded' \ aged')
                        = Cardinality(Recorded \ aged)
      <3>1. Running' \ aged' = Running \ aged
        BY <2>1, <2>2, <2>7
      <3>2. Recorded' \ aged' = Recorded \ aged
        BY <2>1, <2>2, <2>7
      <3> QED BY <3>1, <3>2, Zenon
    <2>8. ASSUME m \notin aged
          PROVE  /\ Cardinality(Running' \ aged')
                        = Cardinality(Running \ aged) - 1
                 /\ Cardinality(Recorded' \ aged')
                        = Cardinality(Recorded \ aged) + 1
      <3>1. Running' \ aged' = (Running \ aged) \ {m}
        BY <2>1, <2>2
      <3>2. Recorded' \ aged' = (Recorded \ aged) \cup {m}
        BY <2>1, <2>2, <2>8
      <3>3. m \in Running \ aged /\ m \notin Recorded \ aged
        BY <2>2, <2>8
      <3>4. Cardinality((Running \ aged) \ {m}) = Cardinality(Running \ aged) - 1
        BY <2>4, <3>3, FS_RemoveElement
      <3>5. Cardinality((Recorded \ aged) \cup {m})
                = Cardinality(Recorded \ aged) + 1
        BY <2>4, <3>3, FS_AddElement
      <3> QED BY <3>1, <3>2, <3>4, <3>5, Zenon
    <2> QED BY <2>1, <2>4, <2>5, <2>6, <2>7, <2>8
  <1> QED BY <1>1, <1>2, <1>3, StepKinds
\* A message that moves between two sets leaves their sum alone.
LEMMA MoveSum ==
    ASSUME NEW R \in SUBSET Msg, NEW K \in SUBSET Msg,
           NEW R1 \in SUBSET Msg, NEW K1 \in SUBSET Msg, NEW m \in Msg,
           \/ R1 = R /\ K1 = K
           \/ m \in R /\ m \notin K /\ R1 = R \ {m} /\ K1 = K \cup {m}
    PROVE  SumOf(R1) + SumOf(K1) = SumOf(R) + SumOf(K)
  <1>1. CASE R1 = R /\ K1 = K
    BY <1>1, Zenon
  <1>2. CASE m \in R /\ m \notin K /\ R1 = R \ {m} /\ K1 = K \cup {m}
    <2>1. SumOf(R \ {m}) = SumOf(R) - SizeOf[m]
      BY <1>2, SumAdds
    <2>2. SumOf(K \cup {m}) = SumOf(K) + SizeOf[m]
      BY <1>2, SumAdds
    <2>3. SumOf(R1) = SumOf(R) - SizeOf[m] /\ SumOf(K1) = SumOf(K) + SizeOf[m]
      BY <1>2, <2>1, <2>2, Zenon
    <2>4. SumOf(R) \in Nat /\ SumOf(K) \in Nat /\ SizeOf[m] \in Nat
      BY BytesFinite, SizeNat
    <2> QED BY <2>3, <2>4
  <1> QED BY <1>1, <1>2

\* After a check, what runs takes at most the size of the message checked and
\* the room of the crowd.
LEMMA CheckedSum ==
    ASSUME TypeOK, NEW m \in Msg, Check(m)
    PROVE  /\ SumOf(Running') <= Crowd' * Largest + SizeOf[m]
           /\ SumOf(Running') \in Nat
           /\ Crowd' * Largest \in Nat
  <1>1. Running \subseteq Msg /\ Running' = Running \cup {m}
    BY SetTypes, CheckSets
  <1>2. SumOf(Running \cup {m}) <= SumOf(Running) + SizeOf[m]
    BY <1>1, SumAdds
  <1>3. SumOf(Running) <= Cardinality(Running) * Largest
    BY <1>1, SumBounded
  <1>4. Largest \in Nat /\ Crowd' \in Nat /\ Cardinality(Running) <= Crowd'
    BY LargestIs, CrowdStep
  <1>5. Cardinality(Running) \in Nat
    BY OneMoreRuns
  <1>6. Cardinality(Running) * Largest <= Crowd' * Largest
    BY <1>4, <1>5, ProductGrows
  <1>7. Cardinality(Running) * Largest \in Nat /\ Crowd' * Largest \in Nat
    BY <1>4, <1>5, ProductNat
  <1>8. SumOf(Running) \in Nat /\ SumOf(Running \cup {m}) \in Nat
    BY <1>1, BytesFinite
  <1>9. SumOf(Running') = SumOf(Running \cup {m})
    BY <1>1, Zenon
  <1>10. \A s, t, z, p, q \in Nat : t <= s + z /\ s <= p /\ p <= q => t <= q + z
    OBVIOUS
  <1>11. SizeOf[m] \in Nat
    BY SizeNat
  <1>12. SumOf(Running \cup {m}) <= Crowd' * Largest + SizeOf[m]
    BY <1>2, <1>3, <1>6, <1>7, <1>8, <1>10, <1>11, Zenon
  <1> QED BY <1>7, <1>8, <1>9, <1>12, Zenon

LEMMA RoomNat == ASSUME TypeOK PROVE Crowd * Largest \in Nat
  BY CrowdIs, LargestIs, ProductNat

LEMMA SizeStep ==
    ASSUME TypeOK, SizeInv, [Next]_vars
    PROVE  SizeInv'
  <1> SUFFICES ASSUME limit'.size > -1
               PROVE  SumOf(Running' \ aged') + SumOf(Recorded' \ aged')
                          <= limit'.size + Crowd' * Largest
    BY DEF SizeInv
  <1>1. ASSUME NEW m \in Msg, Check(m)
        PROVE  SumOf(Running' \ aged') + SumOf(Recorded' \ aged')
                   <= limit'.size + Crowd' * Largest
    <2>1. limit' = limit /\ aged' = aged /\ Recorded' = Recorded
      BY <1>1, CheckSets DEF Check
    <2>2. Running' \subseteq Msg /\ Recorded \ aged \in SUBSET Msg
      BY <1>1, CheckSets, SetTypes
    <2>3. SumOf(Running' \ aged) <= SumOf(Running')
      BY <2>2, SumGrows
    <2>4. SumOf(Running' \ aged) \in Nat /\ SumOf(Recorded \ aged) \in Nat
      BY <2>2, BytesFinite
    <2>5. /\ SumOf(Running') <= Crowd' * Largest + SizeOf[m]
          /\ SumOf(Running') \in Nat
          /\ Crowd' * Largest \in Nat
      BY <1>1, CheckedSum
    <2>6. limit.size > -1 /\ limit.size \in Int
      BY <2>1, LimitTypes
    <2>7. ~(SumOf(Recorded \ aged) + SizeOf[m] > limit.size)
      BY <1>1, <2>6, CheckRoom
    <2>8. \A s, t, k, z, q \in Nat, l \in Int :
              s <= t /\ t <= q + z /\ ~(k + z > l) => s + k <= l + q
      OBVIOUS
    <2>9. SumOf(Running' \ aged) + SumOf(Recorded \ aged)
              <= limit.size + Crowd' * Largest
      BY <2>3, <2>4, <2>5, <2>6, <2>7, <2>8, SizeNat, Zenon
    <2> QED BY <2>1, <2>9, Zenon
  <1>2. ASSUME Keeps
        PROVE  SumOf(Running' \ aged') + SumOf(Recorded' \ aged')
                   <= limit'.size + Crowd' * Largest
    <2>1. limit' = limit /\ Crowd' = Crowd
      BY <1>2, SameCrowd DEF Keeps
    <2>2. /\ Running' \ aged' \in SUBSET (Running \ aged)
          /\ Recorded' \ aged' \in SUBSET (Recorded \ aged)
          /\ Running \ aged \in SUBSET Msg /\ Recorded \ aged \in SUBSET Msg
      BY <1>2, SetTypes DEF Keeps
    <2>3. /\ SumOf(Running' \ aged') <= SumOf(Running \ aged)
          /\ SumOf(Recorded' \ aged') <= SumOf(Recorded \ aged)
      BY <2>2, SumGrows
    <2>4. /\ SumOf(Running' \ aged') \in Nat /\ SumOf(Running \ aged) \in Nat
          /\ SumOf(Recorded' \ aged') \in Nat /\ SumOf(Recorded \ aged) \in Nat
      BY <2>2, BytesFinite
    <2>5. limit.size \in Int /\ Crowd * Largest \in Nat
      BY LimitTypes, RoomNat
    <2>6. SumOf(Running \ aged) + SumOf(Recorded \ aged)
              <= limit.size + Crowd * Largest
      BY <2>1 DEF SizeInv
    <2>7. \A a, b, c, d, q \in Nat, l \in Int :
              a <= b /\ c <= d /\ b + d <= l + q => a + c <= l + q
      OBVIOUS
    <2>8. SumOf(Running' \ aged') + SumOf(Recorded' \ aged')
              <= limit.size + Crowd * Largest
      BY <2>3, <2>4, <2>5, <2>6, <2>7, Zenon
    <2> QED BY <2>1, <2>8, Zenon
  <1>3. ASSUME NEW m \in Msg, Record(m, TRUE)
        PROVE  SumOf(Running' \ aged') + SumOf(Recorded' \ aged')
                   <= limit'.size + Crowd' * Largest
    <2>1. limit' = limit /\ Crowd' = Crowd /\ aged' = aged
      BY <1>3, SameCrowd DEF Record
    <2>2. /\ Running' = Running \ {m} /\ m \in Running
          /\ m \notin Recorded /\ Recorded' = Recorded \cup {m}
      BY <1>3, RecordSets
    <2>3. PICK R, K, R1, K1 :
              /\ R = Running \ aged /\ R1 = Running' \ aged'
              /\ K = Recorded \ aged /\ K1 = Recorded' \ aged'
      OBVIOUS
    <2>4. /\ R \in SUBSET Msg /\ K \in SUBSET Msg
          /\ R1 \in SUBSET Msg /\ K1 \in SUBSET Msg
      BY <2>1, <2>2, <2>3, SetTypes
    <2>5. \/ R1 = R /\ K1 = K
          \/ m \in R /\ m \notin K /\ R1 = R \ {m} /\ K1 = K \cup {m}
      <3>1. CASE m \in aged
        BY <2>1, <2>2, <2>3, <3>1
      <3>2. CASE m \notin aged
        BY <2>1, <2>2, <2>3, <3>2
      <3> QED BY <3>1, <3>2
    <2>6. SumOf(R1) + SumOf(K1) = SumOf(R) + SumOf(K)
      BY <2>4, <2>5, MoveSum
    <2>7. SumOf(R) + SumOf(K) <= limit.size + Crowd * Largest
      BY <2>1, <2>3 DEF SizeInv
    <2> QED BY <2>1, <2>3, <2>6, <2>7, Zenon
  <1> QED BY <1>1, <1>2, <1>3, StepKinds

LEMMA TotalStep ==
    ASSUME TypeOK, TotalInv, [Next]_vars
    PROVE  TotalInv'
  <1> SUFFICES ASSUME limit'.total > -1
               PROVE  SumOf(Running') + SumOf(Recorded') - SumOf(Given')
                          <= limit'.total + Crowd' * Largest
    BY DEF TotalInv
  <1>1. ASSUME NEW m \in Msg, Check(m)
        PROVE  SumOf(Running') + SumOf(Recorded') - SumOf(Given')
                   <= limit'.total + Crowd' * Largest
    <2>1. limit' = limit /\ Recorded' = Recorded /\ Given' = Given
      BY <1>1, CheckSets DEF Check, Given
    <2>2. SumOf(Recorded) \in Nat /\ SumOf(Given) \in Nat /\ SizeOf[m] \in Nat
      BY SetTypes, BytesFinite, SizeNat
    <2>3. /\ SumOf(Running') <= Crowd' * Largest + SizeOf[m]
          /\ SumOf(Running') \in Nat
          /\ Crowd' * Largest \in Nat
      BY <1>1, CheckedSum
    <2>4. limit.total > -1 /\ limit.total \in Int
      BY <2>1, LimitTypes
    <2>5. ~(SumOf(Recorded) - SumOf(Given) + SizeOf[m] > limit.total)
      BY <1>1, <2>4, CheckRoom
    <2>6. \A s, k, g, z, q \in Nat, l \in Int :
              s <= q + z /\ ~(k - g + z > l) => s + k - g <= l + q
      OBVIOUS
    <2>7. SumOf(Running') + SumOf(Recorded) - SumOf(Given)
              <= limit.total + Crowd' * Largest
      BY <2>2, <2>3, <2>4, <2>5, <2>6, Zenon
    <2> QED BY <2>1, <2>7, Zenon
  <1>2. ASSUME Keeps
        PROVE  SumOf(Running') + SumOf(Recorded') - SumOf(Given')
                   <= limit'.total + Crowd' * Largest
    <2>1. limit' = limit /\ Crowd' = Crowd /\ Recorded' = Recorded
      BY <1>2, SameCrowd DEF Keeps
    <2>2. /\ Running \in SUBSET Msg /\ Running' \in SUBSET Running
          /\ Given' \in SUBSET Msg /\ Given \in SUBSET Given'
      BY <1>2, SetTypes DEF Keeps, Given
    <2>3. SumOf(Running') <= SumOf(Running) /\ SumOf(Given) <= SumOf(Given')
      BY <2>2, SumGrows
    <2>4. /\ SumOf(Running') \in Nat /\ SumOf(Running) \in Nat
          /\ SumOf(Given') \in Nat /\ SumOf(Given) \in Nat
          /\ SumOf(Recorded) \in Nat
      BY <2>2, SetTypes, BytesFinite
    <2>5. limit.total \in Int /\ Crowd * Largest \in Nat
      BY LimitTypes, RoomNat
    <2>6. SumOf(Running) + SumOf(Recorded) - SumOf(Given)
              <= limit.total + Crowd * Largest
      BY <2>1 DEF TotalInv
    <2>7. \A a, b, k, c, d, q \in Nat, l \in Int :
              a <= b /\ c <= d /\ b + k - c <= l + q => a + k - d <= l + q
      OBVIOUS
    <2>8. SumOf(Running') + SumOf(Recorded) - SumOf(Given')
              <= limit.total + Crowd * Largest
      BY <2>3, <2>4, <2>5, <2>6, <2>7, Zenon
    <2> QED BY <2>1, <2>8, Zenon
  <1>3. ASSUME NEW m \in Msg, Record(m, TRUE)
        PROVE  SumOf(Running') + SumOf(Recorded') - SumOf(Given')
                   <= limit'.total + Crowd' * Largest
    <2>1. limit' = limit /\ Crowd' = Crowd /\ Given' = Given
      BY <1>3, SameCrowd DEF Record, Given
    <2>2. /\ Running' = Running \ {m} /\ m \in Running
          /\ m \notin Recorded /\ Recorded' = Recorded \cup {m}
      BY <1>3, RecordSets
    <2>3. /\ Running \in SUBSET Msg /\ Recorded \in SUBSET Msg
          /\ Running' \in SUBSET Msg /\ Recorded' \in SUBSET Msg
      BY <2>2, SetTypes
    <2>5. SumOf(Running') + SumOf(Recorded') = SumOf(Running) + SumOf(Recorded)
      BY <2>2, <2>3, MoveSum
    <2>6. SumOf(Running) + SumOf(Recorded) - SumOf(Given)
              <= limit.total + Crowd * Largest
      BY <2>1 DEF TotalInv
    <2>7. SumOf(Running') + SumOf(Recorded') - SumOf(Given)
              = SumOf(Running) + SumOf(Recorded) - SumOf(Given)
      <3>1. SumOf(Recorded) \in Nat /\ SumOf(Running) \in Nat
        BY SetTypes, BytesFinite
      <3>2. SumOf(Recorded') \in Nat /\ SumOf(Running') \in Nat
        BY <2>3, BytesFinite
      <3>3. SumOf(Given) \in Nat
        BY SetTypes, BytesFinite
      <3> QED BY <2>5, <3>1, <3>2, <3>3
    <2> QED BY <2>1, <2>6, <2>7, Zenon
  <1> QED BY <1>1, <1>2, <1>3, StepKinds
-----------------------------------------------------------------------------
LEMMA QuotaInit == Init => IInv
  <1> SUFFICES ASSUME Init PROVE IInv
    OBVIOUS
  <1>1. Running = {} /\ Recorded = {} /\ Had = {} /\ Given = {}
    BY DEF Init, Running, Recorded, Had, Given, At
  <1>2. TypeOK
    BY MsgCount DEF Init, TypeOK, Stage
  <1>3. peak = 0 /\ Crowd = 0
    BY DEF Init, Crowd
  <1>4. Cardinality({}) = 0 /\ SumOf({}) = 0
    BY FS_EmptySet, SumOfNone
  <1>5. Cardinality(Running) = 0 /\ SumOf(Running) = 0 /\ SumOf(Recorded) = 0
        /\ SumOf(Given) = 0
    BY <1>1, <1>4, Zenon
  <1>6. {} \ aged = {}
    OBVIOUS
  <1>7. /\ Cardinality(Running \ aged) = 0 /\ Cardinality(Recorded \ aged) = 0
        /\ SumOf(Running \ aged) = 0 /\ SumOf(Recorded \ aged) = 0
    BY <1>1, <1>4, <1>6, Zenon
  <1>8. Largest \in Nat
    BY LargestIs
  <1>9. Crowd * Largest = 0
    BY <1>3, <1>8
  <1>10. AtOnce /\ Ages /\ Returned
    BY <1>1, <1>3, <1>5 DEF Init, AtOnce, Ages, Returned
  <1>11. CountInv
    BY <1>2, <1>3, <1>7, LimitTypes DEF CountInv
  <1>12. SizeInv
    BY <1>2, <1>7, <1>9, LimitTypes DEF SizeInv
  <1>13. TotalInv
    BY <1>2, <1>5, <1>9, LimitTypes DEF TotalInv
  <1> QED BY <1>2, <1>10, <1>11, <1>12, <1>13 DEF IInv

LEMMA QuotaStep == IInv /\ [Next]_vars => IInv'
  BY TypeStep, AtOnceStep, AgesStep, ReturnedStep, CountStep, SizeStep,
     TotalStep DEF IInv

LEMMA QuotaInvariant == Spec => []IInv
  BY QuotaInit, QuotaStep, PTL DEF Spec

\* The counters and the stages of messages keep their types, and usage is
\* given back only for messages that were purged (checkSendQuota, purge).
THEOREM QuotaTyped == Spec => []TypeOK
  <1>1. IInv => TypeOK
    BY DEF IInv
  <1> QED BY <1>1, QuotaInvariant, PTL

\* What the address had is running, recorded or lost.
LEMMA HadIs == Had \subseteq Running \cup Recorded \cup Lost
  BY DEF Had, Running, Recorded, Lost, At

LEMMA CountWithin ==
    ASSUME IInv, limit.count > -1
    PROVE  Cardinality(Had \ aged) <= limit.count + Crowd
                                      + Cardinality(Lost \ aged)
  <1>1. PICK R, K, L, H :
            /\ R = Running \ aged /\ K = Recorded \ aged
            /\ L = Lost \ aged /\ H = Had \ aged
    OBVIOUS
  <1>2. /\ R \in SUBSET Msg /\ K \in SUBSET Msg
        /\ L \in SUBSET Msg /\ H \in SUBSET Msg
    BY <1>1, SetTypes
  <1>3. H \in SUBSET ((R \cup K) \cup L)
    BY <1>1, HadIs
  <1>4. /\ IsFiniteSet(R) /\ IsFiniteSet(K) /\ IsFiniteSet(L)
        /\ Cardinality(R) \in Nat /\ Cardinality(K) \in Nat
        /\ Cardinality(L) \in Nat /\ Cardinality(H) \in Nat
    BY <1>2, SubsetFinite
  <1>5. /\ IsFiniteSet(R \cup K) /\ IsFiniteSet((R \cup K) \cup L)
        /\ IsFiniteSet(R \cap K) /\ IsFiniteSet((R \cup K) \cap L)
    BY <1>4, FS_Union, FS_Intersection
  <1>6. /\ Cardinality(R \cap K) \in Nat /\ Cardinality((R \cup K) \cap L) \in Nat
        /\ Cardinality(R \cup K) \in Nat
        /\ Cardinality((R \cup K) \cup L) \in Nat
    BY <1>5, FS_CardinalityType
  <1>7. Cardinality(R \cup K)
            = Cardinality(R) + Cardinality(K) - Cardinality(R \cap K)
    BY <1>4, FS_Union
  <1>8. Cardinality((R \cup K) \cup L)
            = Cardinality(R \cup K) + Cardinality(L)
                - Cardinality((R \cup K) \cap L)
    BY <1>4, <1>5, FS_Union
  <1>9. Cardinality(H) <= Cardinality((R \cup K) \cup L)
    BY <1>3, <1>5, FS_Subset
  <1>10. Cardinality(H) <= Cardinality(R) + Cardinality(K) + Cardinality(L)
    BY <1>4, <1>6, <1>7, <1>8, <1>9
  <1>11. Cardinality(R) + Cardinality(K) <= limit.count + Crowd
    BY <1>1, Zenon DEF IInv, CountInv
  <1>12. limit.count \in Int /\ Crowd \in Nat
    BY LimitTypes, CrowdIs DEF IInv
  <1>13. Cardinality(H) <= limit.count + Crowd + Cardinality(L)
    BY <1>4, <1>10, <1>11, <1>12
  <1> QED BY <1>1, <1>13, Zenon

\* The sum of a set covered by three is at most theirs.
LEMMA SumCovered ==
    ASSUME NEW R \in SUBSET Msg, NEW K \in SUBSET Msg, NEW L \in SUBSET Msg,
           NEW H \in SUBSET ((R \cup K) \cup L)
    PROVE  SumOf(H) <= SumOf(R) + SumOf(K) + SumOf(L)
  <1>1. SumOf(H) <= SumOf((R \cup K) \cup L)
    BY SumGrows
  <1>2. SumOf((R \cup K) \cup L) <= SumOf(R \cup K) + SumOf(L)
    BY SumAtMost
  <1>3. SumOf(R \cup K) <= SumOf(R) + SumOf(K)
    BY SumAtMost
  <1>4. /\ SumOf(R) \in Nat /\ SumOf(K) \in Nat /\ SumOf(L) \in Nat
        /\ SumOf(R \cup K) \in Nat /\ SumOf((R \cup K) \cup L) \in Nat
        /\ SumOf(H) \in Nat
    BY BytesFinite
  <1> QED BY <1>1, <1>2, <1>3, <1>4

LEMMA SizeWithin ==
    ASSUME IInv, limit.size > -1
    PROVE  SumOf(Had \ aged) <= limit.size + Crowd * Largest
                                + SumOf(Lost \ aged)
  <1>1. PICK R, K, L, H :
            /\ R = Running \ aged /\ K = Recorded \ aged
            /\ L = Lost \ aged /\ H = Had \ aged
    OBVIOUS
  <1>2. /\ R \in SUBSET Msg /\ K \in SUBSET Msg
        /\ L \in SUBSET Msg /\ H \in SUBSET Msg
    BY <1>1, SetTypes
  <1>3. H \in SUBSET ((R \cup K) \cup L)
    BY <1>1, HadIs
  <1>4. SumOf(H) <= SumOf(R) + SumOf(K) + SumOf(L)
    BY <1>2, <1>3, SumCovered
  <1>5. SumOf(R) + SumOf(K) <= limit.size + Crowd * Largest
    BY <1>1, Zenon DEF IInv, SizeInv
  <1>6. limit.size \in Int /\ Crowd * Largest \in Nat
    BY LimitTypes, RoomNat DEF IInv
  <1>7. /\ SumOf(R) \in Nat /\ SumOf(K) \in Nat /\ SumOf(L) \in Nat
        /\ SumOf(H) \in Nat
    BY <1>2, BytesFinite
  <1>8. \A r, k, l, h, q \in Nat, n \in Int :
            h <= r + k + l /\ r + k <= n + q => h <= n + q + l
    OBVIOUS
  <1>9. SumOf(H) <= limit.size + Crowd * Largest + SumOf(L)
    BY <1>4, <1>5, <1>6, <1>7, <1>8, Zenon
  <1> QED BY <1>1, <1>9, Zenon

\* What was given back is no longer stored.
LEMMA GivenIsGone ==
    ASSUME IInv
    PROVE  Given \subseteq Had \cap purged
  BY DEF IInv, Returned, Given

LEMMA TotalWithin ==
    ASSUME IInv, limit.total > -1
    PROVE  SumOf(Had \ purged) <= limit.total + Crowd * Largest + SumOf(Lost)
  <1>1. /\ Running \in SUBSET Msg /\ Recorded \in SUBSET Msg
        /\ Lost \in SUBSET Msg /\ Had \in SUBSET Msg /\ Given \in SUBSET Msg
        /\ Had \ purged \in SUBSET Msg
    BY SetTypes
  <1>2. Had \in SUBSET ((Running \cup Recorded) \cup Lost)
    BY HadIs
  <1>3. SumOf(Had) <= SumOf(Running) + SumOf(Recorded) + SumOf(Lost)
    BY <1>1, <1>2, SumCovered
  <1>4. (Had \ purged) \cap Given = {}
    BY GivenIsGone
  <1>5. SumOf((Had \ purged) \cup Given) = SumOf(Had \ purged) + SumOf(Given)
    BY <1>1, <1>4, SumSplits
  <1>6. SumOf((Had \ purged) \cup Given) <= SumOf(Had)
    BY <1>1, GivenIsGone, SumGrows
  <1>7. SumOf(Running) + SumOf(Recorded) - SumOf(Given)
            <= limit.total + Crowd * Largest
    BY Zenon DEF IInv, TotalInv
  <1>8. limit.total \in Int /\ Crowd * Largest \in Nat
    BY LimitTypes, RoomNat DEF IInv
  <1>9. /\ SumOf(Running) \in Nat /\ SumOf(Recorded) \in Nat
        /\ SumOf(Lost) \in Nat /\ SumOf(Had) \in Nat /\ SumOf(Given) \in Nat
        /\ SumOf(Had \ purged) \in Nat
    BY <1>1, BytesFinite
  <1>10. \A r, k, l, h, s, g, q \in Nat, n \in Int :
             h <= r + k + l /\ s + g <= h /\ r + k - g <= n + q
                 => s <= n + q + l
    OBVIOUS
  <1>11. SumOf(Had \ purged) + SumOf(Given) <= SumOf(Had)
    BY <1>5, <1>6, Zenon
  <1> QED BY <1>3, <1>7, <1>8, <1>9, <1>10, <1>11, Zenon

\* However many messages are sent by, or delivered to, an address, whatever
\* their sizes and its limits, they pass a limit by no more than the requests
\* that ran at the same time and the messages whose recording failed
\* (checkSendQuota, localDeliveryCode, recordSend).
THEOREM LimitsHold == Spec => []WithinLimits
  <1>1. ASSUME IInv PROVE WithinLimits
    BY <1>1, CountWithin, SizeWithin, TotalWithin DEF WithinLimits, Lost
  <1> QED BY <1>1, QuotaInvariant, PTL

\* With nothing under way and nothing failed, the storage fmsgid counts for
\* the address is what it stores, and the messages it deleted while they were
\* being delivered (usageOf, purge).
THEOREM UsageIsWhatIsStored == Spec => []CountsWhatIsStored
  <1>1. ASSUME IInv PROVE CountsWhatIsStored
    <2> SUFFICES ASSUME Running = {}, Lost = {},
                        \A m \in Msg : free[m] \in {"no", "given"}
                 PROVE  SizeTotal = SumOf(Had \ purged) + SumOf(late)
      BY DEF CountsWhatIsStored, Lost
    <2>1. Recorded = Had
      BY HadIs DEF Had, Recorded, At
    <2>2. PICK S : S = Had \ purged
      OBVIOUS
    <2>3. /\ Had \in SUBSET Msg /\ S \in SUBSET Msg /\ late \in SUBSET Msg
          /\ Given \in SUBSET Msg /\ S \cup late \in SUBSET Msg
      BY <1>1, <2>2, SetTypes DEF IInv, TypeOK
    <2>4. /\ late \subseteq Had \cap purged
          /\ \A m \in Msg : m \in Given <=> m \in (Had \cap purged) \ late
      BY <1>1 DEF IInv, Returned, Given
    <2>5. /\ Had = (S \cup late) \cup Given
          /\ S \cap late = {} /\ (S \cup late) \cap Given = {}
      BY <2>2, <2>3, <2>4
    <2>6. SumOf(S \cup late) = SumOf(S) + SumOf(late)
      BY <2>3, <2>5, SumSplits
    <2>7. SumOf((S \cup late) \cup Given) = SumOf(S \cup late) + SumOf(Given)
      BY <2>3, <2>5, SumSplits
    <2>8. SumOf(Recorded) = (SumOf(S) + SumOf(late)) + SumOf(Given)
      BY <2>1, <2>5, <2>6, <2>7, Zenon
    <2>9. SumOf(S) \in Nat /\ SumOf(late) \in Nat /\ SumOf(Given) \in Nat
      BY <2>3, BytesFinite
    <2>10. SumOf(Recorded) - SumOf(Given) = SumOf(S) + SumOf(late)
      BY <2>8, <2>9
    <2>11. SizeTotal = SumOf(Recorded) - SumOf(Given)
      BY DEF SizeTotal, Recorded, Given
    <2> QED BY <2>2, <2>10, <2>11, Zenon
  <1> QED BY <1>1, QuotaInvariant, PTL
=============================================================================
