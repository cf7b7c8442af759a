-------------------------------- MODULE Quota -------------------------------
(***************************************************************************)
(* The limits of one address (or quota pool): fmsgid keeps them and the    *)
(* usage, this service checks the one against the other, commits, and      *)
(* records the usage afterwards, with nothing locked in between.  A        *)
(* behaviour is about the messages the address sends (Send, React) or      *)
(* about those delivered to it (resolveLocalDelivery), which fmsgid counts *)
(* apart.                                                                  *)
(***************************************************************************)
EXTENDS Integers, FiniteSets, FiniteSetsExt

CONSTANTS
    Msg,      \* messages
    SizeOf,   \* their stored sizes
    Limits,   \* limits the address may have; -1 is unlimited (inputs)
    MayFail   \* whether fmsgid or the database can fail, or the process stop

ASSUME QuotaAssumption ==
    /\ IsFiniteSet(Msg) /\ SizeOf \in [Msg -> Nat]
    /\ Limits \subseteq [perMsg : Int, count : Int, size : Int, total : Int]
    /\ MayFail \in BOOLEAN

VARIABLES
    kind,    \* what the behaviour is about: "send" or "recv"
    limit,   \* the limits at fmsgid
    stage,   \* how far each message is
    aged,    \* messages more than a day old
    purged,  \* messages the address deleted for good
    free,    \* usage to give back for each purged message
    peak,    \* history: the most messages checked and not recorded at a time
    late     \* history: messages delivered after they were purged

vars == <<kind, limit, stage, aged, purged, free, peak, late>>

\* Not sent (or not delivered) yet; the check passed; committed, usage to be
\* recorded; recorded; not recorded because that failed; delivery refused as
\* the address is full; delivery given up.
Stage == {"none", "checked", "committed", "recorded", "lost", "full", "left"}

TypeOK ==
    /\ kind \in {"send", "recv"}
    /\ limit \in Limits
    /\ stage \in [Msg -> Stage]
    /\ aged \subseteq Msg
    /\ purged \subseteq Msg
    /\ free \in [Msg -> {"no", "owed", "given", "lost"}]
    /\ \A m \in Msg : free[m] # "no" => m \in purged
    /\ peak \in 0 .. Cardinality(Msg)
    /\ late \subseteq Msg

Init ==
    /\ kind \in {"send", "recv"}
    /\ limit \in Limits
    /\ stage = [m \in Msg |-> "none"]
    /\ aged = {}
    /\ purged = {}
    /\ free = [m \in Msg |-> "no"]
    /\ peak = 0
    /\ late = {}

\* The size of several messages: how many bytes they have between them.
Bytes(S) == UNION {{m} \X (1 .. SizeOf[m]) : m \in S}
SumOf(S) == Cardinality(Bytes(S))

At(s) == {m \in Msg : stage[m] \in s}

\* Messages that were sent by, or delivered to, the address.
Had == At({"committed", "recorded", "lost"})

Running == At({"checked", "committed"})

-----------------------------------------------------------------------------
(***************************************************************************)
(* fmsgid's answer (external): usage recorded, less what was given back.   *)
(***************************************************************************)

CountPer1d == Cardinality(At({"recorded"}) \ aged)
SizePer1d  == SumOf(At({"recorded"}) \ aged)
SizeTotal  == SumOf(At({"recorded"})) - SumOf({m \in Msg : free[m] = "given"})

Over(lim, used, more) == lim > -1 /\ used + more > lim

RecvLimitExceeded(size) ==
    \/ Over(limit.count, CountPer1d, 1)
    \/ Over(limit.size, SizePer1d, size)
    \/ Over(limit.total, SizeTotal, size)

\* Mutant of CheckSendLimits: the storage limit is left to receiving.
CheckSendDaily(size) ==
    \/ Over(limit.perMsg, 0, size)
    \/ Over(limit.count, CountPer1d, 1)
    \/ Over(limit.size, SizePer1d, size)

CheckSendLimits(size) ==
    \/ Over(limit.perMsg, 0, size)
    \/ Over(limit.count, CountPer1d, 1)
    \/ Over(limit.size, SizePer1d, size)
    \/ Over(limit.total, SizeTotal, size)

Refused(m) == IF kind = "send" THEN CheckSendLimits(SizeOf[m])
              ELSE RecvLimitExceeded(SizeOf[m])

-----------------------------------------------------------------------------
(***************************************************************************)
(* Sending and delivering                                                  *)
(***************************************************************************)

To(m, s) == stage' = [stage EXCEPT ![m] = s]

\* checkSendQuota passes, or localDeliveryCode accepts.  A refused send
\* changes nothing.
Check(m) ==
    /\ stage[m] = "none"
    /\ ~Refused(m)
    /\ To(m, "checked")
    /\ peak' = IF Cardinality(Running) < peak THEN peak
               ELSE Cardinality(Running) + 1
    /\ UNCHANGED <<kind, limit, aged, purged, free, late>>

\* Local delivery is refused for good: code 101.
RefuseDelivery(m) ==
    /\ kind = "recv"
    /\ stage[m] = "none"
    /\ Refused(m)
    /\ To(m, "full")
    /\ UNCHANGED <<kind, limit, aged, purged, free, peak, late>>

\* The send commits, or the UPDATE of the recipient row does.
Commit(m) ==
    /\ stage[m] = "checked"
    /\ To(m, "committed")
    /\ late' = IF m \in purged THEN late \cup {m} ELSE late
    /\ UNCHANGED <<kind, limit, aged, purged, free, peak>>

\* The send is rolled back and can be tried again; a delivery that cannot be
\* checked or stored is left pending.
GiveUp(m) ==
    /\ MayFail
    /\ stage[m] \in (IF kind = "send" THEN {"checked"} ELSE {"none", "checked"})
    /\ To(m, IF kind = "send" THEN "none" ELSE "left")
    /\ UNCHANGED <<kind, limit, aged, purged, free, peak, late>>

\* recordSend, RecordFmsgIDRecv: after the commit, and only logged if it fails.
Record(m, ok) ==
    /\ stage[m] = "committed"
    /\ ok \/ MayFail
    /\ To(m, IF ok THEN "recorded" ELSE "lost")
    /\ UNCHANGED <<kind, limit, aged, purged, free, peak, late>>

\* A day has passed since the message was sent or delivered.
DayPasses(m) ==
    /\ m \in Had \ aged
    /\ aged' = aged \cup {m}
    /\ UNCHANGED <<kind, limit, stage, purged, free, peak, late>>

-----------------------------------------------------------------------------
(***************************************************************************)
(* Deleting for good                                                       *)
(***************************************************************************)

\* Mutants of Purge: what was not delivered is given back too; the trash row
\* is not written.
PurgeReleasesAll(m) ==
    /\ m \notin purged
    /\ kind = "send" => m \in Had
    /\ purged' = purged \cup {m}
    /\ free' = [free EXCEPT ![m] = "owed"]
    /\ UNCHANGED <<kind, limit, stage, aged, peak, late>>
PurgeUnmarked(m) ==
    /\ m \in Had
    /\ free' = [free EXCEPT ![m] = "owed"]
    /\ UNCHANGED <<kind, limit, stage, aged, purged, peak, late>>

\* markPurged and usageOf: a recipient can delete a message whose delivery to
\* it is not resolved yet, and then nothing is given back.
Purge(m) ==
    /\ m \notin purged
    /\ kind = "send" => m \in Had
    /\ purged' = purged \cup {m}
    /\ free' = [free EXCEPT ![m] = IF m \in Had THEN "owed" ELSE @]
    /\ UNCHANGED <<kind, limit, stage, aged, peak, late>>

\* After the commit of the purge, and only logged if it fails.
Release(m, ok) ==
    /\ free[m] = "owed"
    /\ ok \/ MayFail
    /\ free' = [free EXCEPT ![m] = IF ok THEN "given" ELSE "lost"]
    /\ UNCHANGED <<kind, limit, stage, aged, purged, peak, late>>

-----------------------------------------------------------------------------
Next ==
    \E m \in Msg :
        \/ Check(m) \/ RefuseDelivery(m) \/ Commit(m) \/ GiveUp(m)
        \/ DayPasses(m) \/ Purge(m)
        \/ \E ok \in BOOLEAN : Record(m, ok) \/ Release(m, ok)

Spec == Init /\ [][Next]_vars

-----------------------------------------------------------------------------
(***************************************************************************)
(* Properties                                                              *)
(***************************************************************************)

Largest == Max({SizeOf[m] : m \in Msg} \cup {0})

\* Messages that took a limit's room without having been there when it was
\* checked: one fewer than ever ran at the same time.
Crowd == IF peak = 0 THEN 0 ELSE peak - 1

\* What was really sent or delivered in a day stays within the daily limits,
\* and what the address stores within its storage limit: exactly if requests
\* came one at a time, and never by more than the requests that ran at the
\* same time and the messages whose recording failed.  No sequence of purges,
\* retries and ageing records adds to that, in whatever order usage is
\* recorded and given back (checkSendQuota, localDeliveryCode).  The message
\* just at a limit is still let through.
WithinLimits ==
    /\ limit.count > -1 =>
          Cardinality(Had \ aged) <= limit.count + Crowd
                                     + Cardinality(At({"lost"}) \ aged)
    /\ limit.size > -1 =>
          SumOf(Had \ aged) <= limit.size + Crowd * Largest
                               + SumOf(At({"lost"}) \ aged)
    /\ limit.total > -1 =>
          SumOf(Had \ purged) <= limit.total + Crowd * Largest
                                 + SumOf(At({"lost"}))

\* When nothing is under way and nothing failed, fmsgid counts what the
\* address stores, and besides only messages it deleted while they were being
\* delivered: their usage is never given back (usageOf).
CountsWhatIsStored ==
    (/\ Running = {}
     /\ At({"lost"}) = {}
     /\ \A m \in Msg : free[m] \in {"no", "given"})
    => SizeTotal = SumOf(Had \ purged) + SumOf(late)
=============================================================================
