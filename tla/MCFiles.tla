------------------------------ MODULE MCFiles -------------------------------
(***************************************************************************)
(* Instances of Files for TLC.                                             *)
(***************************************************************************)
EXTENDS Files, TLC

CONSTANTS r1, r2, notes, notes1, p0, p1, p2, b1, b2, b3

\* The second candidate of a name is the first of the name "<base>_1".
TwoNames == [n \in Name |-> IF n = notes THEN <<p0, p1, p2>> ELSE <<p1, p2>>]

Symmetry == Permutations(Req) \cup Permutations(BodyPath)
=============================================================================
