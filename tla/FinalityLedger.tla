--------------------------- MODULE FinalityLedger ---------------------------
(***************************************************************************)
(* FinalityLedger and the SimpleLedger it embeds (ledger/): an iavl tree,  *)
(* the memItems CheckTx works on and the memItems a block works on.  Each  *)
(* memItems keeps the items it has read or set (got), those set since the  *)
(* last commit (upd) and the keys removed since (rem).  Block execution    *)
(* keeps its got items over a commit, so a stale one would be read for the *)
(* rest of the node's life and not after a restart.                        *)
(***************************************************************************)
EXTENDS LedgerOps

CONSTANTS Keys, Items

ASSUME LedgerAssumption == None \notin Items

VARIABLES tree, cachedItems, finalityItems, reply

ledgerVars == <<tree, cachedItems, finalityItems, reply>>

Maybe == Items \union {None}

newMemItems == [got |-> [k \in Keys |-> None], upd |-> [k \in Keys |-> None], rem |-> {}]

(* setUpdatedItem, then setGotItem. *)
setItem(m, k, v) == [m EXCEPT !.upd[k] = v, !.got[k] = v]

(* delUpdatedItem, then delGotItem. *)
delItem(m, k) == [m EXCEPT !.upd[k] = None, !.got[k] = None]

delRemovedKey(m, k) == [m EXCEPT !.rem = @ \ {k}]

(* What get and getFinality return. *)
Found(m, k) ==
    IF k \in m.rem THEN None
    ELSE IF m.got[k] # None THEN m.got[k] ELSE tree[k]

(* get and getFinality keep what they read from the tree. *)
AfterGet(m, k) ==
    IF k \in m.rem \/ m.got[k] # None THEN m ELSE [m EXCEPT !.got[k] = tree[k]]

(* Mutant: the item stays in gotItems. *)
AfterDelKeepsGot(m, k) ==
    IF Found(m, k) = None THEN m
    ELSE [m EXCEPT !.upd[k] = None, !.rem = @ \union {k}]

(* del and the second half of DelFinality. *)
AfterDel(m, k) ==
    IF Found(m, k) = None THEN m
    ELSE [delItem(m, k) EXCEPT !.rem = @ \union {k}]

(* memItems.refresh *)
refresh(m) ==
    [got |-> [k \in Keys |-> IF m.upd[k] # None THEN m.upd[k] ELSE m.got[k]],
     upd |-> [k \in Keys |-> None],
     rem |-> {}]

-----------------------------------------------------------------------------
(* NewFinalityLedger on an empty database. *)
LedgerInit ==
    /\ tree = NewTree(Keys)
    /\ cachedItems = newMemItems
    /\ finalityItems = newMemItems
    /\ reply = None

Set(k, v) ==
    /\ cachedItems' = setItem(cachedItems, k, v)
    /\ reply' = None
    /\ UNCHANGED <<tree, finalityItems>>

CancelSet(k) ==
    /\ cachedItems' = delItem(cachedItems, k)
    /\ reply' = None
    /\ UNCHANGED <<tree, finalityItems>>

Get(k) ==
    /\ cachedItems' = AfterGet(cachedItems, k)
    /\ reply' = Found(cachedItems, k)
    /\ UNCHANGED <<tree, finalityItems>>

Del(k) ==
    /\ cachedItems' = AfterDel(cachedItems, k)
    /\ reply' = Found(cachedItems, k)
    /\ UNCHANGED <<tree, finalityItems>>

CancelDel(k) ==
    /\ cachedItems' = delRemovedKey(cachedItems, k)
    /\ reply' = None
    /\ UNCHANGED <<tree, finalityItems>>

Read(k) ==
    /\ reply' = tree[k]
    /\ UNCHANGED <<tree, cachedItems, finalityItems>>

SetFinality(k, v) ==
    /\ finalityItems' = setItem(finalityItems, k, v)
    /\ reply' = None
    /\ UNCHANGED <<tree, cachedItems>>

CancelSetFinality(k) ==
    /\ finalityItems' = delItem(finalityItems, k)
    /\ reply' = None
    /\ UNCHANGED <<tree, cachedItems>>

GetFinality(k) ==
    /\ finalityItems' = AfterGet(finalityItems, k)
    /\ reply' = Found(finalityItems, k)
    /\ UNCHANGED <<tree, cachedItems>>

\* The key is first deleted for CheckTx, whether or not the block finds it.
DelFinality(k) ==
    /\ cachedItems' = AfterDel(cachedItems, k)
    /\ finalityItems' = AfterDel(finalityItems, k)
    /\ reply' = Found(finalityItems, k)
    /\ UNCHANGED tree

CancelDelFinality(k) ==
    /\ finalityItems' = delRemovedKey(finalityItems, k)
    /\ reply' = None
    /\ UNCHANGED <<tree, cachedItems>>

(* Mutant: the updates are applied to the tree before the removals. *)
CommitUpdatesFirst ==
    /\ tree' = [k \in Keys |-> IF k \in finalityItems.rem THEN None
                               ELSE IF finalityItems.upd[k] # None THEN finalityItems.upd[k]
                               ELSE tree[k]]
    /\ cachedItems' = newMemItems
    /\ finalityItems' = refresh(finalityItems)
    /\ reply' = None

\* Commit: remove removedKeys from the tree, set updatedItems, SaveVersion,
\* cachedItems.reset(), finalityItems.refresh().
Commit ==
    /\ tree' = [k \in Keys |-> IF finalityItems.upd[k] # None THEN finalityItems.upd[k]
                               ELSE IF k \in finalityItems.rem THEN None
                               ELSE tree[k]]
    /\ cachedItems' = newMemItems
    /\ finalityItems' = refresh(finalityItems)
    /\ reply' = None

\* The node stops and NewFinalityLedger loads the last saved version.
Restart ==
    /\ cachedItems' = newMemItems
    /\ finalityItems' = newMemItems
    /\ reply' = None
    /\ UNCHANGED tree

LedgerNext ==
    \/ \E k \in Keys, v \in Items : Set(k, v) \/ SetFinality(k, v)
    \/ \E k \in Keys :
          \/ CancelSet(k) \/ Get(k) \/ Del(k) \/ CancelDel(k) \/ Read(k)
          \/ CancelSetFinality(k) \/ GetFinality(k) \/ DelFinality(k) \/ CancelDelFinality(k)
    \/ Commit
    \/ Restart

LedgerSpec == LedgerInit /\ [][LedgerNext]_ledgerVars

-----------------------------------------------------------------------------
MemItems == [got : [Keys -> Maybe], upd : [Keys -> Maybe], rem : SUBSET Keys]

\* Every variable has its type.
LedgerTypeOK ==
    /\ tree \in [Keys -> Maybe]
    /\ cachedItems \in MemItems
    /\ finalityItems \in MemItems
    /\ reply \in Maybe

(* An item in memory is the one set since the last commit or the one in the tree, and a
   key removed and not set again holds none. *)
Coherent(m) ==
    \A k \in Keys :
        /\ m.upd[k] # None => m.got[k] = m.upd[k]
        /\ m.upd[k] = None /\ m.got[k] # None => m.got[k] = tree[k]
        /\ m.upd[k] = None /\ k \in m.rem => m.got[k] = None

\* The items getFinality and get keep in gotItems, over any number of commits, are never
\* stale: a node that has run for a long time reads what a restarted one reads.
CacheCoherent == Coherent(cachedItems) /\ Coherent(finalityItems)

(* The abstract ledger: the caches of items read are forgotten. *)
Abstract == INSTANCE Ledger
    WITH cached <- [upd |-> cachedItems.upd, rem |-> cachedItems.rem],
         finality <- [upd |-> finalityItems.upd, rem |-> finalityItems.rem]

\* The ledger with its caches implements the one without: every call answers, and every
\* Commit saves, what a tree with one overlay for CheckTx and one for the block would.
ImplementsLedger == Abstract!Spec
=============================================================================
