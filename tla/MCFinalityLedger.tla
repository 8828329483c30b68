-------------------------- MODULE MCFinalityLedger --------------------------
(* The ledger with two keys and two items. *)
EXTENDS FinalityLedger, TLC

CONSTANTS ka, kb, i1, i2

MCKeys == {ka, kb}
MCItems == {i1, i2}
MCSymmetry == Permutations(MCKeys) \union Permutations(MCItems)
=============================================================================
