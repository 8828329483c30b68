----------------------------- MODULE MCSFilePV -----------------------------
(* The signer with two heights, two rounds, two blocks and two times, up to *)
(* MaxReleased signed messages.                                            *)
EXTENDS SFilePV, FiniteSets, TLC

CONSTANTS k1, k2, b1, b2, MaxReleased

MCKeys == {k1, k2}
MCBlocks == {b1, b2}
\* Two heights and two rounds: every way an HRS can go back or forward.
MCHeights == {1, 2}
MCRounds == {0, 1}
MCTimes == {1, 2}

MCSymmetry == Permutations(MCKeys) \union Permutations(MCBlocks)

MCBound == Cardinality(released) <= MaxReleased
=============================================================================
