---------------------------- MODULE MCSecretFeeder -----------------------------
(* Two processes that start the same node, and one operator. *)
EXTENDS SecretFeeder, TLC

CONSTANTS n1, n2, k0, k1, p0, p1, f0, f1

MCNodes == {n1, n2}
\* At most one key is in memory and not in the file.
MCKeys == {k0, k1}
MCPasses == {p0, p1}
MCFeederPasses == {f0, f1}

\* The two starts are alike, and so are the two passphrases.
MCSymmetry == Permutations(MCNodes) \cup Permutations(MCPasses)
================================================================================
