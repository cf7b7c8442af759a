------------------------------ MODULE MCAccess ------------------------------
(* Alice may be granted Bob's address and Bob that of a bot of his: a chain
   that act-as must not follow. *)
EXTENDS Access

CONSTANTS alice, bob, bot, n1, n2, r1, t1, t2

Delegations ==
    {[owner |-> alice, scopes |-> {"read", "write"}, identities |-> {bob, bot}]}

Chain == {<<alice, bob>>, <<bob, bot>>}
=============================================================================
