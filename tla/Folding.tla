------------------------------ MODULE Folding ------------------------------
(***************************************************************************)
(* Sums over sets, and folds of sequences from the left, as FiniteSetsExt  *)
(* and SequencesExt define them, over Folds alone (a module that proofs    *)
(* are about should bring few definitions with it), and what is left of a  *)
(* sequence when some of its members go.                                   *)
(***************************************************************************)
EXTENDS Integers, Sequences
Fold == INSTANCE Folds

SumOf(f, S) ==
    Fold!MapThenFoldSet(LAMBDA x, y : x + y, 0, LAMBDA a : f[a],
                        LAMBDA s : CHOOSE a \in s : TRUE, S)

FoldLeft(op(_, _), base, seq) ==
    Fold!MapThenFoldSet(LAMBDA x, y : op(y, x), base, LAMBDA i : seq[i],
                        LAMBDA s : CHOOSE i \in s : \A j \in s : i >= j, DOMAIN seq)

\* The members of s, in their order, that are not in gone.
Without(s, gone) ==
    FoldLeft(LAMBDA kept, m : IF m \in gone THEN kept ELSE Append(kept, m), << >>, s)
=============================================================================
