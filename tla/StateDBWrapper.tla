--------------------------- MODULE StateDBWrapper ---------------------------
(***************************************************************************)
(* The state that contracts run on (ctrlers/vm/evm/statedb.go).  Balances  *)
(* and nonces belong to the account ledger; geth's StateDB, which the EVM  *)
(* works on, only borrows them.  The wrapper copies an account into its    *)
(* state object when a transaction first lists the address, remembers the  *)
(* address together with the snapshot it was listed after, and copies the  *)
(* remembered ones back when the transaction is over.                      *)
(*                                                                         *)
(* A wrapper is a record.  External, as geth keeps them: objs (the state   *)
(* objects), acl (the access list of the transaction), revs and nextId     *)
(* (the snapshots, with what they bring back).  The wrapper's own:         *)
(* accessed (accessedObjAddrs) and snapshot.  A history: burned, the money *)
(* that contracts have destroyed so far, which a revert gives back like    *)
(* the rest.  An account that does not exist is one with nothing in it,    *)
(* and the accounts of the precompiled contracts are left out.             *)
(***************************************************************************)
EXTENDS Integers, Sequences

CONSTANT ZeroAddress

NoObject == [Balance |-> 0, Nonce |-> 0, Code |-> FALSE, Suicided |-> FALSE]

Nobody == [a \in {} |-> 0]

NewStateDBWrapper(objs, burned) ==
    [objs |-> objs, acl |-> {}, revs |-> << >>, nextId |-> 0,
     accessed |-> Nobody, snapshot |-> 0, burned |-> burned]

(* An address is remembered as listed after the last snapshot. *)
With(accessed, a, n) ==
    [b \in DOMAIN accessed \union {a} |-> IF b = a THEN n ELSE accessed[b]]

(* Those listed before a snapshot. *)
Until(accessed, id) ==
    [a \in {b \in DOMAIN accessed : accessed[b] <= id} |-> accessed[a]]

(* An account is copied into its state object. *)
Borrowed(objs, accts, a) ==
    [objs EXCEPT ![a].Balance = accts[a].Balance, ![a].Nonce = accts[a].Nonce]

\* A bug: the state object keeps what an earlier transaction left in it.
addAccessedObjAddrStale(w, accts, a) ==
    IF a \in DOMAIN w.accessed THEN w
    ELSE [w EXCEPT !.accessed = With(@, a, w.snapshot + 1)]

addAccessedObjAddr(w, accts, a) ==
    IF a \in DOMAIN w.accessed THEN w
    ELSE [w EXCEPT !.objs = Borrowed(@, accts, a),
                   !.accessed = With(@, a, w.snapshot + 1)]

AddAddressToAccessList(w, accts, a) ==
    [addAccessedObjAddr(w, accts, a) EXCEPT !.acl = @ \union {a}]

(* Before the EVM runs: Prepare, and PrepareAccessList from within it. *)
Prepare(w, accts, from, to, snap) ==
    LET fresh == [w EXCEPT !.snapshot = snap, !.acl = {}]
        sender == AddAddressToAccessList(fresh, accts, from)
    IN  IF to = ZeroAddress THEN sender ELSE AddAddressToAccessList(sender, accts, to)

Snapshot(w) ==
    [w EXCEPT !.revs = Append(@, [id |-> w.nextId, objs |-> w.objs, acl |-> w.acl,
                                  burned |-> w.burned]),
              !.nextId = @ + 1,
              !.snapshot = w.nextId]

\* A bug: an address listed just before the snapshot goes too.
revertAccessedObjAddrTooMany(w, id) ==
    [w EXCEPT !.accessed = Until(@, id - 1)]

revertAccessedObjAddr(w, id) ==
    [w EXCEPT !.accessed = Until(@, id)]

(* External: geth undoes everything since the snapshot. *)
RevertStateDB(w, id) ==
    LET i == CHOOSE i \in DOMAIN w.revs : w.revs[i].id = id
    IN  [w EXCEPT !.objs = w.revs[i].objs, !.acl = w.revs[i].acl, !.burned = w.revs[i].burned,
                  !.revs = SubSeq(@, 1, i - 1)]

RevertToSnapshot(w, id) == RevertStateDB(revertAccessedObjAddr(w, id), id)

(* Finish: what the account ledger gets, and what is left of the wrapper. *)
WrittenBack(w, accts) ==
    [a \in DOMAIN accts |->
        IF a \in DOMAIN w.accessed
        THEN [accts[a] EXCEPT !.Balance = w.objs[a].Balance, !.Nonce = w.objs[a].Nonce]
        ELSE accts[a]]

\* A bug (issue #68): the addresses stay for the next transaction.
ForgottenNone(w) == w

Forgotten(w) == [w EXCEPT !.accessed = Nobody]

(* External: contracts that destroyed themselves, and empty objects, go. *)
Finalise(w) ==
    [w EXCEPT !.objs = [a \in DOMAIN @ |-> IF @[a].Suicided THEN NoObject ELSE @[a]],
              !.revs = << >>]
=============================================================================
