------------------------------- MODULE Ledger -------------------------------
(***************************************************************************)
(* The abstract ledger: a tree with two overlays, no caches.               *)
(***************************************************************************)
EXTENDS LedgerOps

CONSTANTS Keys, Items

VARIABLES
    tree,       \* the last saved version
    cached,     \* the overlay of Set, Get, Del: CheckTx
    finality,   \* the overlay of SetFinality, GetFinality, DelFinality: the block
    reply       \* the item the last call returned, None for none or an error

vars == <<tree, cached, finality, reply>>

Init ==
    /\ tree = NewTree(Keys)
    /\ cached = NewOverlay(Keys)
    /\ finality = NewOverlay(Keys)
    /\ reply = None

\* Set, CancelSet, Get, Del, CancelDel on the CheckTx overlay.
CheckCall(k) ==
    /\ \/ \E v \in Items : cached' = Put(cached, k, v) /\ reply' = None
       \/ cached' = CancelPut(cached, k) /\ reply' = None
       \/ cached' = cached /\ reply' = Lookup(cached, tree, k)
       \/ cached' = Remove(cached, tree, k) /\ reply' = Lookup(cached, tree, k)
       \/ cached' = CancelRemove(cached, k) /\ reply' = None
    /\ UNCHANGED <<tree, finality>>

\* The same calls on the block's overlay; a removal reaches the CheckTx overlay too.
BlockCall(k) ==
    /\ \/ /\ \/ \E v \in Items : finality' = Put(finality, k, v) /\ reply' = None
             \/ finality' = CancelPut(finality, k) /\ reply' = None
             \/ finality' = finality /\ reply' = Lookup(finality, tree, k)
             \/ finality' = CancelRemove(finality, k) /\ reply' = None
          /\ UNCHANGED cached
       \/ /\ finality' = Remove(finality, tree, k)
          /\ cached' = Remove(cached, tree, k)
          /\ reply' = Lookup(finality, tree, k)
    /\ UNCHANGED tree

\* Read returns the committed item.
ReadCall(k) ==
    /\ reply' = tree[k]
    /\ UNCHANGED <<tree, cached, finality>>

\* A commit saves the block's overlay and empties both; a restart only empties them.
NewBlock(t) ==
    /\ tree' = t
    /\ cached' = NewOverlay(Keys)
    /\ finality' = NewOverlay(Keys)
    /\ reply' = None

Next ==
    \/ \E k \in Keys : CheckCall(k) \/ BlockCall(k) \/ ReadCall(k)
    \/ NewBlock(Merge(finality, tree))
    \/ NewBlock(tree)

Spec == Init /\ [][Next]_vars
=============================================================================
