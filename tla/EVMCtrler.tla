----------------------------- MODULE EVMCtrler -----------------------------
(***************************************************************************)
(* Contracts (ctrlers/vm/evm).  A block delivers contract transactions,    *)
(* which EVMCtrler.ExecuteTrx runs on the state of StateDBWrapper, and     *)
(* ordinary ones, which change the account ledger directly.                *)
(*                                                                         *)
(* The EVM itself is external: a contract may do what contracts can do,    *)
(* call an address with an amount, call on, return, revert, destroy        *)
(* itself, and each of these is a step here because each calls back into   *)
(* the wrapper.  Gas has the price 1.                                      *)
(***************************************************************************)
EXTENDS StateDBWrapper, FiniteSets, Folding

CONSTANTS
    None,
    Addrs, Senders, Proposer,
    Holders,              \* genesis balances: [address -> amount]
    Amounts, Gases,       \* what transactions may say
    CreateAddress,        \* external: <<sender, nonce>> -> address of the contract
    GasLimit, IntrinsicGas,
    MaxTxs, MaxOps, MaxDepth, MaxHeight    \* bounds

ASSUME EVMAssumption ==
    /\ IsFiniteSet(Addrs) /\ Senders \union {Proposer} \subseteq Addrs
    /\ ZeroAddress \notin Addrs
    /\ \A a \in Addrs \intersect DOMAIN Holders : Holders[a] \in Nat
    /\ Amounts \subseteq Nat /\ Gases \subseteq Nat
    /\ GasLimit \in Nat /\ IntrinsicGas \in Nat \ {0}

Ledgers == [Addrs -> [Balance : Nat, Nonce : Nat, Code : BOOLEAN]]
Objects == [Addrs -> [Balance : Nat, Nonce : Nat, Code : BOOLEAN, Suicided : BOOLEAN]]
States == [accts : Ledgers, objs : Objects, burned : Nat]
Frames == [addr : Addrs, id : Nat, halted : BOOLEAN]
Txs ==
    [from : Senders, to : Addrs \union {ZeroAddress}, amount : Nat, gas : Nat, snap : Nat,
     callee : Addrs, frames : Seq(Frames), ops : Nat,
     before : States]

ASSUME NoneAssumption == None \notin Txs

(* The address of a contract is a hash of its creator's address and nonce: *)
(* no two are the same, and nobody holds a key for one.                    *)
ASSUME CreateAssumption ==
    /\ DOMAIN CreateAddress \subseteq Senders \X Nat
    /\ \A x \in DOMAIN CreateAddress : CreateAddress[x] \in Addrs \ Senders
    /\ \A x, y \in DOMAIN CreateAddress :
            CreateAddress[x] = CreateAddress[y] => x = y

VARIABLES
    phase,                \* idle or executing
    accts,                \* the account ledger, as the block sees it
    w,                    \* stateDBWrapper
    blockGasPool, sumFee,
    tx,                   \* the contract transaction that runs, or None
    hist,                 \* what is committed at every height: accts, objs and burned
    txs,                  \* transactions so far
    answer                \* of the last vm_call query, or None

vars == <<phase, accts, w, blockGasPool, sumFee, tx, hist, txs, answer>>

lastBlockHeight == Len(hist)
Genesis == [a \in Addrs |->
    [Balance |-> IF a \in DOMAIN Holders THEN Holders[a] ELSE 0, Nonce |-> 0, Code |-> FALSE]]
Objects0 == [a \in Addrs |-> NoObject]
Committed(h) ==
    IF h = 0 THEN [accts |-> Genesis, objs |-> Objects0, burned |-> 0] ELSE hist[h]
OpenedAt(h) == NewStateDBWrapper(Committed(h).objs, Committed(h).burned)

Init ==
    /\ phase = "idle" /\ accts = Genesis /\ w = NewStateDBWrapper(Objects0, 0)
    /\ blockGasPool = 0 /\ sumFee = 0 /\ tx = None /\ hist = << >> /\ txs = 0
    /\ answer = None

-----------------------------------------------------------------------------
(* The heights agree, as RigoApp shows for every block that is begun. *)
BeginBlock ==
    /\ phase = "idle" /\ lastBlockHeight < MaxHeight
    /\ phase' = "executing"
    /\ w' = OpenedAt(lastBlockHeight)
    /\ blockGasPool' = GasLimit /\ sumFee' = 0 /\ answer' = None
    /\ UNCHANGED <<accts, tx, hist, txs>>

(* A transfer to an account without code (AcctCtrler.ExecuteTrx and        *)
(* postRunTrx); its gas is used up.                                        *)
TransferTrx(from, to, amt, gas) ==
    /\ phase = "executing" /\ tx = None /\ txs < MaxTxs
    /\ ~accts[to].Code /\ accts[from].Balance >= gas + amt
    /\ accts' = LET paid == [accts EXCEPT ![from].Balance = @ - gas - amt,
                                          ![from].Nonce = @ + 1]
                IN  [paid EXCEPT ![to].Balance = @ + amt]
    /\ sumFee' = sumFee + gas /\ txs' = txs + 1 /\ answer' = None
    /\ UNCHANGED <<phase, w, blockGasPool, tx, hist>>

CanTransfer(s, a, amt) == s.objs[a].Balance >= amt

Transfer(s, from, to, amt) ==
    LET sub == [s EXCEPT !.objs[from].Balance = @ - amt]
    IN  [sub EXCEPT !.objs[to].Balance = @ + amt]

(* External (ApplyMessage): the sender's nonce is taken, a contract to     *)
(* create gets its account, and the first frame is entered.                *)
Enter(s, t) ==
    LET counted == [s EXCEPT !.objs[t.from].Nonce = @ + 1]
        listed == IF t.to = ZeroAddress
                  THEN AddAddressToAccessList(counted, accts, t.callee) ELSE counted
        shot == Snapshot(listed)
        made == IF t.to = ZeroAddress
                THEN [shot EXCEPT !.objs[t.callee].Nonce = 1] ELSE shot
    IN  Transfer(made, t.from, t.callee, t.amount)

Frame(a, id) == [addr |-> a, id |-> id, halted |-> FALSE]

Prepared(from, to) == Prepare(Snapshot(w), accts, from, to, w.nextId)

\* A bug: the changes are written back as if it had not failed.
FailedKept(s, snap) ==
    w' = Forgotten(s) /\ accts' = WrittenBack(s, accts)

(* The transaction's changes go, then what is left is written back. *)
Failed(s, snap) ==
    LET back == RevertToSnapshot(s, snap)
    IN  w' = Forgotten(back) /\ accts' = WrittenBack(back, accts)

\* A contract transaction begins (ExecuteTrx, execVM).  One of type contract
\* was validated for its gas; a transfer to a contract was not.
ExecuteTrx(from, to, amt, gas) ==
    LET snap == w.nextId
        s == Prepared(from, to)
        bought == [s EXCEPT !.objs[from].Balance = @ - gas]
        t == [from |-> from, to |-> to, amount |-> amt, gas |-> gas, snap |-> snap,
              callee |-> IF to = ZeroAddress
                         THEN CreateAddress[<<from, accts[from].Nonce>>] ELSE to,
              frames |-> << >>, ops |-> 0,
              before |-> [accts |-> accts, objs |-> w.objs, burned |-> w.burned]]
        entered == Enter(bought, t)
    IN  /\ phase = "executing" /\ tx = None /\ txs < MaxTxs
        /\ to = ZeroAddress => <<from, accts[from].Nonce>> \in DOMAIN CreateAddress
        /\ gas >= IntrinsicGas \/ (to # ZeroAddress /\ accts[to].Code)
        /\ accts[from].Balance >= gas + amt
        /\ txs' = txs + 1 /\ answer' = None
        /\ \/ /\ blockGasPool < gas
              /\ Failed(s, snap) /\ UNCHANGED <<tx, blockGasPool>>
           \/ /\ blockGasPool >= gas /\ gas < IntrinsicGas
              /\ blockGasPool' = blockGasPool - gas
              /\ Failed(bought, snap) /\ UNCHANGED tx
           \/ /\ blockGasPool >= gas /\ gas >= IntrinsicGas
              /\ blockGasPool' = blockGasPool - gas
              /\ w' = entered
              /\ tx' = [t EXCEPT !.frames = <<Frame(t.callee, entered.snapshot)>>]
              /\ UNCHANGED accts
        /\ UNCHANGED <<phase, sumFee, hist>>

-----------------------------------------------------------------------------
(* External: what the EVM does with the frames. *)

Top == tx.frames[Len(tx.frames)]
Pop(frames) == SubSeq(frames, 1, Len(frames) - 1)

(* The callee of a creation runs its constructor, any other its code. *)
Runs ==
    /\ ~Top.halted
    /\ w.objs[Top.addr].Code \/ (Len(tx.frames) = 1 /\ tx.to = ZeroAddress)

Listed(b) == IF b \in w.acl THEN w ELSE AddAddressToAccessList(w, accts, b)

(* CALL: the address is listed; without the money nothing else happens. *)
Call(b, amt) ==
    /\ tx # None /\ Runs /\ tx.ops < MaxOps /\ Len(tx.frames) < MaxDepth
    /\ LET s == Listed(b)
       IN  IF CanTransfer(s, Top.addr, amt)
           THEN /\ w' = Transfer(Snapshot(s), Top.addr, b, amt)
                /\ tx' = [tx EXCEPT !.frames = Append(@, Frame(b, s.nextId)), !.ops = @ + 1]
           ELSE w' = s /\ tx' = [tx EXCEPT !.ops = @ + 1]
    /\ UNCHANGED <<phase, accts, blockGasPool, sumFee, hist, txs, answer>>

(* SELFDESTRUCT: the beneficiary gets the contract's balance, then the     *)
(* contract has none; what it leaves to itself is burned.                  *)
SelfDestruct(b) ==
    /\ tx # None /\ Runs /\ tx.ops < MaxOps
    /\ LET s == Listed(b)
           balance == s.objs[Top.addr].Balance
           given == [s EXCEPT !.objs[b].Balance = @ + balance]
           emptied == [given EXCEPT !.objs[Top.addr].Balance = 0,
                                    !.objs[Top.addr].Suicided = TRUE]
       IN  w' = [emptied EXCEPT !.burned = IF b = Top.addr THEN @ + balance ELSE @]
    /\ tx' = [tx EXCEPT !.frames[Len(tx.frames)].halted = TRUE, !.ops = @ + 1]
    /\ UNCHANGED <<phase, accts, blockGasPool, sumFee, hist, txs, answer>>

Return ==
    /\ tx # None /\ Len(tx.frames) > 1
    /\ tx' = [tx EXCEPT !.frames = Pop(@)]
    /\ UNCHANGED <<phase, accts, w, blockGasPool, sumFee, hist, txs, answer>>

(* REVERT, or any error in an inner frame. *)
Revert ==
    /\ tx # None /\ Len(tx.frames) > 1 /\ Runs
    /\ w' = RevertToSnapshot(w, Top.id)
    /\ tx' = [tx EXCEPT !.frames = Pop(@)]
    /\ UNCHANGED <<phase, accts, blockGasPool, sumFee, hist, txs, answer>>

-----------------------------------------------------------------------------
(* ExecuteTrx goes on when the EVM is done; unused gas was given back. *)

GasUsed == IntrinsicGas .. tx.gas

Succeed(used) ==
    LET refunded == [w EXCEPT !.objs[tx.from].Balance = @ + tx.gas - used]
        s == [refunded EXCEPT !.objs[tx.callee].Code = @ \/ tx.to = ZeroAddress]
        back == WrittenBack(s, accts)
    IN  /\ tx # None /\ Len(tx.frames) = 1 /\ used \in GasUsed
        /\ blockGasPool' = blockGasPool + tx.gas - used
        /\ w' = Finalise(Forgotten(s))
        /\ accts' = IF tx.to = ZeroAddress THEN [back EXCEPT ![tx.callee].Code = TRUE] ELSE back
        /\ sumFee' = sumFee + used
        /\ tx' = None
        /\ UNCHANGED <<phase, hist, txs, answer>>

(* The first frame is reverted by the EVM, then all of the transaction. *)
Fail(used) ==
    /\ tx # None /\ Len(tx.frames) = 1 /\ Runs /\ used \in GasUsed
    /\ blockGasPool' = blockGasPool + tx.gas - used
    /\ Failed(RevertToSnapshot(w, Top.id), tx.snap)
    /\ tx' = None
    /\ UNCHANGED <<phase, sumFee, hist, txs, answer>>

(* The end of the block (AcctCtrler.EndBlock) and its Commit. *)
Commit ==
    /\ phase = "executing" /\ tx = None
    /\ phase' = "idle"
    /\ accts' = [accts EXCEPT ![Proposer].Balance = @ + sumFee]
    /\ hist' = Append(hist, [accts |-> accts', objs |-> w.objs, burned |-> w.burned])
    /\ w' = NewStateDBWrapper(w.objs, w.burned)
    /\ sumFee' = 0 /\ answer' = None
    /\ UNCHANGED <<blockGasPool, tx, txs>>

(* The node stops without finishing its block and starts again             *)
(* (NewEVMCtrler reads the height and the root of its state).              *)
Restart ==
    /\ tx = None
    /\ phase' = "idle"
    /\ accts' = Committed(lastBlockHeight).accts
    /\ w' = OpenedAt(lastBlockHeight)
    /\ sumFee' = 0 /\ blockGasPool' = 0 /\ answer' = None
    /\ UNCHANGED <<tx, hist, txs>>

-----------------------------------------------------------------------------
\* A bug: the accounts of the running block are used.
ImmutableStateAtLive(h) == [accts |-> accts, w |-> OpenedAt(h)]

ImmutableStateAt(h) == [accts |-> Committed(h).accts, w |-> OpenedAt(h)]

(* A contract, called at a height by a query, reads the balance of b. *)
callVM(from, to, b, h) ==
    LET st == ImmutableStateAt(h)
        s == AddAddressToAccessList(Prepare(st.w, st.accts, from, to, 0), st.accts, b)
    IN  s.objs[b].Balance

Query(from, to, b, height) ==
    LET h == IF height <= 0 THEN lastBlockHeight ELSE height
    IN  /\ phase = "executing" /\ tx = None /\ lastBlockHeight > 0
        /\ Committed(h).objs[to].Code
        /\ answer' = [height |-> h, addr |-> b, balance |-> callVM(from, to, b, h)]
        /\ UNCHANGED <<phase, accts, w, blockGasPool, sumFee, tx, hist, txs>>

Next ==
    \/ BeginBlock \/ Commit \/ Restart
    \/ \E from \in Senders, to \in Addrs, amt \in Amounts, gas \in Gases :
            TransferTrx(from, to, amt, gas)
    \/ \E from \in Senders, to \in Addrs \union {ZeroAddress}, amt \in Amounts, gas \in Gases :
            ExecuteTrx(from, to, amt, gas)
    \/ \E b \in Addrs, amt \in Amounts : Call(b, amt)
    \/ \E b \in Addrs : SelfDestruct(b)
    \/ Return
    \/ Revert
    \/ \E used \in 0 .. GasLimit : Succeed(used) \/ Fail(used)
    \/ \E from \in Senders, to \in Addrs, b \in Addrs, h \in 0 .. lastBlockHeight :
            Query(from, to, b, h)

Spec == Init /\ [][Next]_vars

-----------------------------------------------------------------------------
Total(f) == SumOf([a \in Addrs |-> f[a].Balance], Addrs)

(* Money is only moved, or burned by a contract that destroys itself in    *)
(* its own favour: whatever contracts call, revert and destroy, and        *)
(* whatever ordinary transfers run between them, the balances of the       *)
(* account ledger, the fees of the block and what was burned, less what    *)
(* was reverted or not committed, are the genesis balances                 *)
(* (addAccessedObjAddr, revertAccessedObjAddr, Finish), and no balance     *)
(* goes below zero, in the ledger or within the EVM.                       *)
MoneyKept ==
    /\ tx = None => Total(accts) + sumFee + w.burned = Total(Genesis)
    /\ \A a \in Addrs : accts[a].Balance >= 0 /\ w.objs[a].Balance >= 0

(* While a contract runs, the addresses the wrapper will write back are    *)
(* exactly those on the EVM's access list, through every inner revert: one *)
(* that were missing would lose its changes, one too many would be         *)
(* overwritten with what its state object held long ago.                   *)
AccessedAreListed == tx # None => DOMAIN w.accessed = w.acl

(* A contract transaction that fails leaves no trace, neither in the       *)
(* account ledger nor in the state that later contracts run on (the calls  *)
(* of RevertToSnapshot and Finish in ExecuteTrx).                          *)
FailedLeavesNothing ==
    [][tx # None /\ tx' = None /\ sumFee' = sumFee =>
            accts' = tx.before.accts /\ w'.objs = tx.before.objs]_vars

(* No nonce ever goes back within a block, so no transaction becomes valid *)
(* a second time: Finish never writes an old nonce over a newer one.       *)
NoncesGrow ==
    [][phase = "executing" /\ phase' = "executing" =>
            \A a \in Addrs : accts'[a].Nonce >= accts[a].Nonce]_vars

(* A contract called by a query sees the balances committed at the height  *)
(* asked for, although the EVM's own state of that height knows nothing of *)
(* ordinary transfers (ImmutableStateAt).                                  *)
CallSeesCommitted ==
    answer # None =>
        answer.balance = Committed(answer.height).accts[answer.addr].Balance
=============================================================================
