------------------------------ MODULE MCMarks -------------------------------
(* A local reactor with two devices, one whose reactions arrive from afar. *)
EXTENDS Marks

CONSTANTS bob, far, up, heart, r1, r2

Symmetry == Permutations(Req) \cup Permutations(Emoji)
=============================================================================
