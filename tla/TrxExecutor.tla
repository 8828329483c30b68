---------------------------- MODULE TrxExecutor ----------------------------
(***************************************************************************)
(* The way of a transaction through a node: CheckTx into the mempool, then *)
(* DeliverTx in a block (node/app.go, node/trx_executor.go), over the      *)
(* account ledger (ctrlers/account) with one overlay for CheckTx and one   *)
(* for the block.  Fees are collected over the block and go to its         *)
(* proposer at the end.                                                    *)
(*                                                                         *)
(* A client makes a transaction, signs its RLP form for a chain and sends  *)
(* its protocol buffer form (libs/web3); the node decodes it again, and    *)
(* verifies the signature when it delivers it, not in CheckTx.  A transfer *)
(* moves an amount, in the arithmetic of uint256.  Another type is carried *)
(* out, or refused, by another controller: here it only pays its fee.      *)
(* Contracts and stakes, which move money themselves, are left out.        *)
(*                                                                         *)
(* External: Tendermint's mempool, which hands its transactions over in    *)
(* the order they came, holds none twice, drops those of a committed block *)
(* and rechecks the rest (a recheck does nothing here); and the replay of  *)
(* a block that was cut short by a crash.                                  *)
(***************************************************************************)
EXTENDS LedgerOps, Trx, Folding, Integers, Sequences, FiniteSets

CONSTANTS
    Addrs, ZeroAddress, Proposer,
    Holders,              \* genesis balances: [address -> amount]
    Amounts, Fee,         \* of transfers; of every transaction
    Senders, Receivers, Nonces,    \* what transactions may say
    Payloads,             \* other transactions: pairs of a type and its fields
    ChainIds, ChainId,    \* what clients sign for; the node's chain
    MaxChecks, MaxHeight  \* bounds

ASSUME ExecutorAssumption ==
    /\ Senders \union Receivers \union {Proposer, ZeroAddress} \subseteq Addrs
    /\ IsFiniteSet(Addrs)
    /\ DOMAIN Holders \subseteq Addrs /\ Holders \in [DOMAIN Holders -> Nat]
    /\ Fee \in Nat \ {0} /\ Amounts \subseteq 0 .. Word - 1 /\ Nonces \subseteq Nat
    /\ ChainId \in ChainIds
    /\ None \notin [Balance : Nat, Nonce : Nat] /\ Nil \notin Addrs

\* The fields of a payload have the types of its Go struct.
ASSUME PayloadAssumption == \A p \in Payloads : p[1] \in PayloadTypes /\ IsPayload(p[1], p[2])

\* All the money there is, and one fee, fit into a uint256.
ASSUME SupplyAssumption == SumOf(Holders, DOMAIN Holders) + Fee < Word

VARIABLES
    phase, height,        \* idle, executing, ended or panicked
    tree, chk, fin,       \* the account ledger: committed, CheckTx's, the block's
    feeSum,               \* fees of the block so far
    pool,                 \* external: the mempool
    proposal, next,       \* the block's transactions, the next to deliver
    replay,               \* the block was begun before a crash
    checks,               \* CheckTx calls so far
    executed, saved       \* history: transactions carried out; those committed

vars == <<phase, height, tree, chk, fin, feeSum, pool, proposal, next, replay, checks,
          executed, saved>>

\* NewTrxTransfer; NewTrxSetDoc, NewTrxProposal and so on; NewTrxWithdraw, which
\* wallets send to themselves.
Drafts ==
    {NewTrx(from, to, nonce, amt, TRX_TRANSFER, << >>) :
        from \in Senders, to \in Receivers, nonce \in Nonces, amt \in Amounts}
    \union {NewTrx(from, IF p[1] = TRX_WITHDRAW THEN from ELSE ZeroAddress, nonce, 0, p[1], p[2]) :
        from \in Senders, nonce \in Nonces, p \in Payloads}

\* What clients send: Wallet.SendTxAsync and the like.  A wallet may be set to
\* another chain.
Messages ==
    {toProto(SignTrxRLP(tx.From, tx, chain)) : tx \in Drafts, chain \in ChainIds}

NewAccount == [Balance |-> 0, Nonce |-> 0]

(* AcctCtrler.InitLedger, and in InitChain an account for the validator. *)
InitLedger ==
    [upd |-> [a \in Addrs |->
        IF a \in DOMAIN Holders THEN [Balance |-> Holders[a], Nonce |-> 0]
        ELSE IF a = Proposer THEN NewAccount ELSE None],
     rem |-> {}]

Init ==
    /\ phase = "idle" /\ height = 0
    /\ tree = NewTree(Addrs) /\ chk = NewOverlay(Addrs) /\ fin = InitLedger
    /\ feeSum = 0
    /\ pool = << >> /\ proposal = << >> /\ next = 1 /\ replay = FALSE
    /\ checks = 0
    /\ executed = << >> /\ saved = << >>

-----------------------------------------------------------------------------
\* A bug: no account is made for the receiver of a transaction that will fail.
NewTrxContextLazy(o, tx) ==
    IF \/ Lookup(o, tree, tx.To) # None
       \/ Lookup(o, tree, tx.From).Nonce # tx.Nonce
    THEN o ELSE Put(o, tx.To, NewAccount)

(* The sender is found; the receiver is found or made, before anything is  *)
(* known of the transaction (NewTrxContext).                               *)
NewTrxContext(o, tx) ==
    IF Lookup(o, tree, tx.To) # None THEN o ELSE Put(o, tx.To, NewAccount)

\* The signature is verified for a block only.
commonValidation0(tx, exec) == exec => VerifyTrxRLP(tx, ChainId)

\* The sum wraps around.
commonValidation1(o, tx) ==
    /\ Lookup(o, tree, tx.From).Balance >= (Fee + tx.Amount) % Word
    /\ Lookup(o, tree, tx.From).Nonce = tx.Nonce

\* SubBalance in a transfer, which refuses to go below zero.
Affords(o, tx) == tx.Type = TRX_TRANSFER => Lookup(o, tree, tx.From).Balance >= tx.Amount

transfer(o, tx) ==
    LET from == Lookup(o, tree, tx.From)
        paid == Put(o, tx.From, [from EXCEPT !.Balance = @ - tx.Amount])
        to == Lookup(paid, tree, tx.To)
    IN  Put(paid, tx.To, [to EXCEPT !.Balance = (@ + tx.Amount) % Word])

\* A bug: the nonce stays.
postRunTrxKeepsNonce(o, tx) ==
    LET from == Lookup(o, tree, tx.From)
    IN  Put(o, tx.From, [from EXCEPT !.Balance = @ - Fee])

postRunTrx(o, tx) ==
    LET from == Lookup(o, tree, tx.From)
    IN  Put(o, tx.From, [Balance |-> from.Balance - Fee, Nonce |-> from.Nonce + 1])

\* The handler of the type.
ExecuteTrx(o, tx) == IF tx.Type = TRX_TRANSFER THEN transfer(o, tx) ELSE o

\* SubBalance in postRunTrx.
PaysFee(o, tx) == Lookup(o, tree, tx.From).Balance >= Fee

runTrx(o, tx) == postRunTrx(ExecuteTrx(o, tx), tx)

\* validateTrx, and the handler does not fail.
Handled(o, tx, exec) ==
    commonValidation0(tx, exec) /\ commonValidation1(o, tx) /\ Affords(o, tx)

\* What a transaction that fails leaves: nothing, or what its handler has done when
\* the fee is refused after it.
Refused(o, tx, exec) ==
    IF Handled(o, tx, exec) /\ ~PaysFee(ExecuteTrx(o, tx), tx) THEN ExecuteTrx(o, tx) ELSE o

\* Whether the transaction succeeds.  The controllers of the other types may refuse
\* one for reasons of their own.
Outcomes(o, tx, exec) ==
    IF ~(Handled(o, tx, exec) /\ PaysFee(ExecuteTrx(o, tx), tx)) THEN {FALSE}
    ELSE IF tx.Type \in {TRX_TRANSFER, TRX_SETDOC} THEN {TRUE}
    ELSE BOOLEAN

KnownSender(o, tx) == Lookup(o, tree, tx.From) # None

-----------------------------------------------------------------------------
(* A new transaction of a client.  A refused one still leaves its receiver. *)
CheckTx(m) ==
    /\ phase # "panicked" /\ height > 0 /\ checks < MaxChecks
    /\ \A i \in DOMAIN pool : pool[i] # m
    /\ KnownSender(chk, fromProto(m))
    /\ checks' = checks + 1
    /\ LET tx == fromProto(m)
           o == NewTrxContext(chk, tx)
       IN  \E ok \in Outcomes(o, tx, FALSE) :
              /\ chk' = IF ok THEN runTrx(o, tx) ELSE Refused(o, tx, FALSE)
              /\ pool' = IF ok THEN Append(pool, m) ELSE pool
    /\ UNCHANGED <<phase, height, tree, fin, feeSum, proposal, next, replay, executed, saved>>

(* The engine proposes a prefix of the mempool, or the block cut short. *)
Reapable == IF replay THEN {0} ELSE 0 .. Len(pool)

BeginBlock(n) ==
    /\ phase = "idle" /\ height < MaxHeight
    /\ phase' = "executing" /\ height' = height + 1
    /\ proposal' = IF replay THEN proposal ELSE SubSeq(pool, 1, n)
    /\ next' = 1 /\ feeSum' = 0
    /\ UNCHANGED <<tree, chk, fin, pool, replay, checks, executed, saved>>

(* A transaction whose sender is unknown has no context, and reporting that *)
(* ends in a nil dereference.                                               *)
DeliverTx ==
    /\ phase = "executing" /\ next <= Len(proposal)
    /\ LET tx == fromProto(proposal[next])
           o == NewTrxContext(fin, tx)
       IN  \E ok \in IF KnownSender(fin, tx) THEN Outcomes(o, tx, TRUE) ELSE {FALSE} :
              /\ phase' = IF KnownSender(fin, tx) THEN phase ELSE "panicked"
              /\ fin' = IF ok THEN runTrx(o, tx)
                        ELSE IF KnownSender(fin, tx) THEN Refused(o, tx, TRUE) ELSE fin
              /\ feeSum' = IF ok THEN feeSum + Fee ELSE feeSum
              /\ executed' = IF ok THEN Append(executed, tx) ELSE executed
    /\ next' = next + 1
    /\ UNCHANGED <<height, tree, chk, pool, proposal, replay, checks, saved>>

\* A bug: the fees are added to the balance committed before the block.
EndBlockCommitted ==
    /\ phase = "executing" /\ next > Len(proposal)
    /\ phase' = "ended"
    /\ LET found == tree[Proposer]
           acct == IF found = None THEN NewAccount ELSE found
       IN  fin' = IF feeSum = 0 THEN fin
                  ELSE Put(fin, Proposer, [acct EXCEPT !.Balance = @ + feeSum])
    /\ UNCHANGED <<height, tree, chk, feeSum, pool, proposal, next, replay, checks,
                   executed, saved>>

EndBlock ==
    /\ phase = "executing" /\ next > Len(proposal)
    /\ phase' = "ended"
    /\ LET found == Lookup(fin, tree, Proposer)
           acct == IF found = None THEN NewAccount ELSE found
       IN  fin' = IF feeSum = 0 THEN fin
                  ELSE Put(fin, Proposer, [acct EXCEPT !.Balance = @ + feeSum])
    /\ UNCHANGED <<height, tree, chk, feeSum, pool, proposal, next, replay, checks,
                   executed, saved>>

Commit ==
    /\ phase = "ended"
    /\ phase' = "idle"
    /\ tree' = Merge(fin, tree)
    /\ fin' = NewOverlay(Addrs) /\ chk' = NewOverlay(Addrs)
    /\ pool' = Without(pool, {proposal[i] : i \in DOMAIN proposal})
    /\ replay' = FALSE /\ feeSum' = 0
    /\ saved' = executed
    /\ UNCHANGED <<height, proposal, next, checks, executed>>

(* The node stops and starts again on the committed ledger; the genesis     *)
(* accounts come back with the replayed InitChain.                          *)
Crash ==
    /\ phase # "panicked"
    /\ phase' = "idle"
    /\ height' = IF phase = "idle" THEN height ELSE height - 1
    /\ replay' = (replay \/ phase # "idle")
    /\ chk' = NewOverlay(Addrs)
    /\ fin' = IF height' = 0 THEN InitLedger ELSE NewOverlay(Addrs)
    /\ feeSum' = 0 /\ pool' = << >>
    /\ executed' = saved
    /\ UNCHANGED <<tree, proposal, next, checks, saved>>

Next ==
    \/ \E m \in Messages : CheckTx(m)
    \/ \E n \in Reapable : BeginBlock(n)
    \/ DeliverTx
    \/ EndBlock
    \/ Commit
    \/ Crash

Spec == Init /\ [][Next]_vars

-----------------------------------------------------------------------------
BalanceOf(t, a) == IF t[a] = None THEN 0 ELSE t[a].Balance
NonceOf(t, a) == IF t[a] = None THEN 0 ELSE t[a].Nonce

(* Money is only moved: at every point of a block the balances and the     *)
(* fees collected so far are the genesis balances, and at its end the fees *)
(* are the proposer's on top of what it received in the block (AcctCtrler  *)
(* EndBlock), through failures, crashes and replays; no balance goes below *)
(* zero, in the block's accounts or in CheckTx's, although the sum of fee  *)
(* and amount is compared with the balance modulo 2^256.                   *)
SupplyKept ==
    /\ phase # "panicked" =>
            SumOf([a \in Addrs |-> BalanceOf(Merge(fin, tree), a)], Addrs)
                + (IF phase = "executing" THEN feeSum ELSE 0)
            = SumOf(Holders, DOMAIN Holders)
    /\ \A a \in Addrs, o \in {chk, fin} : BalanceOf(Merge(o, tree), a) >= 0

\* How many of the first n transactions of s are from a.
CountOf(s, n, a) ==
    SumOf([i \in 1 .. n |-> IF s[i].From = a THEN 1 ELSE 0], 1 .. n)

(* No transaction is carried out twice, by whatever way it came back       *)
(* (mempool after a reset of CheckTx's view, replay of a block): the       *)
(* transactions of a sender are carried out with the nonces 0, 1, 2...,    *)
(* and the account's nonce counts them.                                    *)
NoReplay ==
    /\ \A i \in DOMAIN executed :
            executed[i].Nonce = CountOf(executed, i - 1, executed[i].From)
    /\ \A a \in Addrs : NonceOf(Merge(fin, tree), a) = CountOf(executed, Len(executed), a)

(* A block reaped from the node's own mempool never meets an unknown       *)
(* sender, which would bring the node down in deliverTxSync: the account   *)
(* that let a transaction through CheckTx exists in every block the        *)
(* transaction is delivered in, even if the transfer that made it failed.  *)
NeverPanics == phase # "panicked"

(* What is carried out is what its sender signed for this chain: the       *)
(* transaction the node decoded from the wire is the one that was encoded  *)
(* in RLP to be signed, field by field.                                    *)
CarriedOutAsSigned ==
    \A i \in DOMAIN executed :
        LET tx == executed[i]
            signed == DecodeRLP(tx.Sig.preimg[2])
        IN  /\ tx.Sig.key = tx.From /\ tx.Sig.preimg[1] = ChainId
            /\ Equal(WithSig(tx, Nil), signed)

(* A transaction that a client signed for this chain is not refused for    *)
(* its signature once it is in a block, though the node computes the       *)
(* signed bytes from what is left of it after the wire.                    *)
SignaturesSurvive ==
    \A i \in DOMAIN proposal :
        LET tx == fromProto(proposal[i])
        IN  tx.Sig.preimg[1] = ChainId => commonValidation0(tx, TRUE)
=============================================================================
