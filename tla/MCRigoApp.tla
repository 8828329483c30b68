----------------------------- MODULE MCRigoApp -----------------------------
(* Three blocks, at most MaxVersion versions of a store. *)
EXTENDS RigoApp

CONSTANT MaxVersion

\* Every replay of a Commit that was cut short adds versions: stop at MaxVersion.
MCBound == \A s \in Stores : Len(store[s]) <= MaxVersion
=============================================================================
