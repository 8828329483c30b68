--------------------------- MODULE MCStakeLimiter ---------------------------
(* Three validators and a candidate. *)
EXTENDS StakeLimiter, TLC

MCPower == 1 :> 3 @@ 2 :> 3 @@ 3 :> 2 @@ 4 :> 1

MCChanges == {-2, -1, 1, 2}
=============================================================================
