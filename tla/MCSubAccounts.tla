--------------------------- MODULE MCSubAccounts ----------------------------
(***************************************************************************)
(* Instances of SubAccounts for TLC.                                       *)
(***************************************************************************)
EXTENDS SubAccounts, TLC

CONSTANTS bot, cron, r1, r2

ReqSymmetry == Permutations(Req)
=============================================================================
