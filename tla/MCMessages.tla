----------------------------- MODULE MCMessages -----------------------------
(***************************************************************************)
(* Instances of Messages, with what Reading says of it, for TLC: names for *)
(* the addresses and messages, and the recipient sets that requests of an  *)
(* instance name.                                                          *)
(***************************************************************************)
EXTENDS Reading, TLC

CONSTANTS alice, bob, far, m1, m2

ToBob     == {{bob}}
OneEach   == {{a} : a \in Addr}
Everybody == {Addr}

MsgSymmetry == Permutations(Msg)

\* For instances whose recipient sets treat the local addresses alike.
FullSymmetry == Permutations(Msg) \cup Permutations(Local)
=============================================================================
