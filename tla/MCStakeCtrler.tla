--------------------------- MODULE MCStakeCtrler ---------------------------
(* Small chains for StakeCtrler.  Power is in units of the smallest stake. *)
EXTENDS StakeCtrler

\* One genesis validator: its stake alone has the hash 0.
MCOneValidator == 1 :> 3

\* Two, so that one of them may miss blocks while two thirds still sign.
MCTwoValidators == 1 :> 5 @@ 2 :> 2
=============================================================================
