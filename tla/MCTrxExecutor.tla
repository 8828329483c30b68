--------------------------- MODULE MCTrxExecutor ---------------------------
(* One holder, one account that appears with a first transfer, and a       *)
(* proposer that begins with nothing and may be paid in its own block.     *)
EXTENDS TrxExecutor, TLC

MCHolders == 1 :> 9

\* A proposal with a negative height, a withdrawal, and a document without a name.
MCPayloads == {<<TRX_PROPOSAL, <<"m", -1, 1, 0, -2, <<"o">>>>>>, <<TRX_WITHDRAW, <<6>>>>,
               <<TRX_SETDOC, <<"", "">>>>}
=============================================================================
