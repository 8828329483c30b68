----------------------------- MODULE AtomicApp -----------------------------
(***************************************************************************)
(* What the consensus engine relies on: the application's stores move from *)
(* one block to the next all at once, and no block is skipped or repeated. *)
(***************************************************************************)
EXTENDS Naturals, Sequences

CONSTANT Stores     \* the versioned stores of the application

VARIABLES
    height,     \* the last committed block
    contents    \* for each store, the blocks whose effects it holds, in order

vars == <<height, contents>>

Init ==
    /\ height = 0
    /\ contents = [s \in Stores |-> << >>]

CommitBlock ==
    /\ height' = height + 1
    /\ contents' = [s \in Stores |-> Append(contents[s], height + 1)]

Spec == Init /\ [][CommitBlock]_vars
=============================================================================
