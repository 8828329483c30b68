----------------------------- MODULE LedgerOps -----------------------------
(***************************************************************************)
(* What the controllers see of a ledger (ledger/): a committed tree, and   *)
(* over it an overlay of the items updated and the keys removed since the  *)
(* last Commit.  One overlay serves block execution (the ...Finality       *)
(* methods) and one serves CheckTx.  FinalityLedger shows that the real    *)
(* ledger, with its caches of items read, behaves like this.               *)
(*                                                                         *)
(* A tree maps a key to its item or to None.  An overlay is a record of    *)
(* upd, the same kind of map for the updated items, and rem, a set of keys.*)
(***************************************************************************)
CONSTANT None   \* no item: ErrNotFoundResult, or a nil pointer

NewTree(K) == [k \in K |-> None]

NewOverlay(K) == [upd |-> [k \in K |-> None], rem |-> {}]

(* getFinality and get: a removed key is not found, even if it was set again. *)
Lookup(o, t, k) ==
    IF k \in o.rem THEN None
    ELSE IF o.upd[k] # None THEN o.upd[k] ELSE t[k]

(* SetFinality and Set. *)
Put(o, k, v) == [o EXCEPT !.upd[k] = v]

(* CancelSetFinality and CancelSet. *)
CancelPut(o, k) == [o EXCEPT !.upd[k] = None]

(* DelFinality and del: nothing happens when the item is not found. *)
Remove(o, t, k) ==
    IF Lookup(o, t, k) = None THEN o
    ELSE [o EXCEPT !.upd[k] = None, !.rem = @ \union {k}]

(* CancelDelFinality and CancelDel. *)
CancelRemove(o, k) == [o EXCEPT !.rem = @ \ {k}]

(* The tree FinalityLedger.Commit saves: the removals first, then the updates. *)
Merge(o, t) ==
    [k \in DOMAIN t |-> IF o.upd[k] # None THEN o.upd[k]
                        ELSE IF k \in o.rem THEN None ELSE t[k]]
=============================================================================
