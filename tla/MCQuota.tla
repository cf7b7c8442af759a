------------------------------ MODULE MCQuota -------------------------------
(* Three messages, one of them twice the size, under one limit at a time and
   under none; each limit lets one or two of them through. *)
EXTENDS Quota

CONSTANTS small, other, big

Sizes == [m \in {small, other, big} |-> IF m = big THEN 2 ELSE 1]

Unlimited == [perMsg |-> -1, count |-> -1, size |-> -1, total |-> -1]

OneLimit ==
    {Unlimited,
     [Unlimited EXCEPT !.perMsg = 1, !.count = 0],
     [Unlimited EXCEPT !.perMsg = 1, !.count = 1],
     [Unlimited EXCEPT !.size = 2],
     [Unlimited EXCEPT !.total = 2]}

\* Counting bytes adds up sizes.
ASSUME SumsAdd ==
    \A S \in SUBSET Msg : SumOf(S) = MapThenSumSet(LAMBDA m : SizeOf[m], S)
=============================================================================
