---------------------------- MODULE MCGovCtrler ----------------------------
(* Two proposals, two voters: the first is a majority until it is punished. *)
EXTENDS GovCtrler, TLC

MCPowers == 1 :> 4 @@ 2 :> 3

MCGenesis == [gas |-> 1, stake |-> 1]

\* One proposal with two options that touch different fields, one whose option is not
\* readable when it is applied, one common proposal.
MCBallots ==
    {[type |-> "govparams",
      options |-> <<[gas |-> 2, stake |-> 0], [gas |-> 0, stake |-> 3]>>],
     [type |-> "govparams", options |-> <<[gas |-> 0, stake |-> 0]>>],
     [type |-> "common", options |-> <<[gas |-> 0, stake |-> 0]>>]}

MCUnreadable == {[gas |-> 0, stake |-> 0]}
=============================================================================
