------------------------------- MODULE MCHub --------------------------------
(***************************************************************************)
(* Instances of Hub for TLC.                                               *)
(***************************************************************************)
EXTENDS Hub

CONSTANTS alice, bob, m1, c1

\* The connection is one of alice's; bob is another participant.
AllAlice == [c \in Client |-> alice]
=============================================================================
