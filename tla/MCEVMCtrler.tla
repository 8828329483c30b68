---------------------------- MODULE MCEVMCtrler ----------------------------
(* Two senders, the second of which proposes the blocks, and one contract,  *)
(* which the first may create.                                              *)
EXTENDS EVMCtrler, TLC

MCHolders == 1 :> 7 @@ 2 :> 2
MCCreateAddress == <<1, 0>> :> 3
=============================================================================
