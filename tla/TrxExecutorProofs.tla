------------------------- MODULE TrxExecutorProofs -------------------------
(***************************************************************************)
(* Proofs about TrxExecutor, for any set of addresses, amounts, payloads   *)
(* and chains, and any number of transactions, blocks and crashes: the     *)
(* invariant, what each step does to it, and what follows from it.         *)
(***************************************************************************)
EXTENDS TrxTheorems

-----------------------------------------------------------------------------
(* The invariant. *)

TypeOK ==
    /\ phase \in {"idle", "executing", "ended"} /\ height \in Nat
    /\ tree \in Accts /\ chk \in Overlays /\ fin \in Overlays
    /\ feeSum \in Nat /\ next \in Nat \ {0}
    /\ pool \in Seq(Messages) /\ proposal \in Seq(Messages)
    /\ executed \in Seq(Txs) /\ saved \in Seq(Txs)

\* The block the committed ledger belongs to.
Committed == IF phase = "idle" THEN height ELSE height - 1

\* A restart comes back to what was there between blocks: the genesis accounts are in
\* the block's overlay until the first Commit, and in the tree from then on.
Restartable ==
    /\ phase # "idle" => height > 0
    /\ Committed = 0 => tree = NewTree(Addrs) /\ saved = << >>
    /\ Committed > 0 => Total(tree) = Supply
    /\ phase = "idle" => /\ fin = IF height = 0 THEN InitLedger ELSE NewOverlay(Addrs)
                         /\ executed = saved

\* In CheckTx's accounts the fees are gone for good.
Money ==
    /\ Total(Merge(fin, tree)) + (IF phase = "executing" THEN feeSum ELSE 0) = Supply
    /\ Total(Merge(chk, tree)) <= Supply

Carried ==
    /\ Counted(executed, Merge(fin, tree)) /\ Counted(saved, tree)
    /\ \A i \in DOMAIN executed : VerifyTrxRLP(executed[i], ChainId)
    /\ \A i \in DOMAIN saved : VerifyTrxRLP(saved[i], ChainId)

\* The sender of a message is known in t, or a message before it makes its account.
Introduced(s, t) ==
    \A i \in DOMAIN s :
        \/ t[fromProto(s[i]).From] # None
        \/ \E j \in 1 .. i - 1 : fromProto(s[j]).To = fromProto(s[i]).From

\* A sender not yet committed had its money in CheckTx from a message in the pool; a
\* delivered message leaves an account for its receiver, whatever became of it.
SendersKnown ==
    /\ Introduced(pool, tree) /\ Introduced(proposal, tree)
    /\ \A a \in Addrs : tree[a] = None /\ BalanceOf(Merge(chk, tree), a) > 0
                            => \E j \in DOMAIN pool : fromProto(pool[j]).To = a
    /\ phase # "idle" => \A k \in DOMAIN proposal :
            k < next => Merge(fin, tree)[fromProto(proposal[k]).To] # None
    /\ phase = "ended" => next > Len(proposal)

IInv == TypeOK /\ Restartable /\ Money /\ Carried /\ SendersKnown

-----------------------------------------------------------------------------
(* The steps. *)

\* There is no money in an empty tree.
LEMMA NothingYet == Total(NewTree(Addrs)) = 0
<1> DEFINE f == Balances(NewTree(Addrs))
<1>1. IsFiniteSet(Addrs) /\ {} \subseteq Addrs
    BY ExecutorAssumption
<1>2. \A a \in Addrs : f[a] = 0
    BY DEF Balances, BalanceOf, NewTree
<1> HIDE DEF f
<1>3. SumOf(f, Addrs) = SumOf(f, {})
    BY <1>1, <1>2, SumSupport
<1> QED BY <1>3, SumEmpty DEF Total, f

\* The first state satisfies the invariant.
LEMMA InitOK == ASSUME Init PROVE IInv
<1>1. tree = NewTree(Addrs) /\ tree \in Accts /\ fin = InitLedger /\ chk = NewOverlay(Addrs)
    BY NewOverlayIs DEF Init
<1>2. TypeOK
  <2>1. << >> \in Seq(Messages) /\ << >> \in Seq(Txs) /\ 1 \in Nat \ {0} /\ 0 \in Nat
      OBVIOUS
  <2> QED BY <1>1, <2>1, GenesisIs, NewOverlayIs, ZenonT(60) DEF Init, TypeOK
<1>3. Restartable
    BY <1>1 DEF Init, Restartable, Committed
<1>4. \A a \in Addrs : BalanceOf(tree, a) = 0 /\ NonceOf(tree, a) = 0
    BY <1>1 DEF BalanceOf, NonceOf, NewTree
<1>5. Merge(chk, tree) = tree
    BY <1>1, NewOverlayIs
<1>6. Money
  <2>1. Total(tree) = 0
      BY <1>1, NothingYet
  <2> QED BY <1>1, <1>5, <2>1, GenesisIs DEF Init, Money
<1>7. Carried
  <2>1. Counted(executed, Merge(fin, tree)) /\ Counted(saved, tree)
      BY <1>1, <1>4, GenesisIs, CountedNone, Zenon DEF Init
  <2>2. \A i : i \notin DOMAIN executed /\ i \notin DOMAIN saved
      BY DEF Init
  <2> QED BY <2>1, <2>2 DEF Carried
<1>8. SendersKnown
    BY <1>4, <1>5 DEF Init, SendersKnown, Introduced
<1> QED BY <1>2, <1>3, <1>6, <1>7, <1>8, ZenonT(60) DEF IInv

\* CheckTx keeps the invariant: a sender that is not committed yet had its money from a message before.
LEMMA CheckTxOK == ASSUME IInv, NEW m \in Messages, CheckTx(m) PROVE IInv'
<1> DEFINE tx == fromProto(m)
           c == NewTrxContext(chk, tx)
           v == Merge(chk, tree)
<1>1. tx \in Txs /\ tree \in Accts /\ chk \in Overlays
    BY DEF IInv, TypeOK, Txs
<1>2. tx.From \in Addrs /\ tx.To \in Addrs /\ v \in Accts
    BY <1>1, TxType, MergeIs
<1>3. v[tx.From] # None
    BY <1>1, <1>2, MergeIs, Zenon DEF CheckTx, KnownSender
<1>4. Total(v) <= Supply /\ Total(v) \in Nat /\ Supply \in Nat /\ Fee \in Nat
    BY <1>2, TotalType, GenesisIs, ExecutorAssumption, ZenonT(60) DEF IInv, Money
<1>5. PICK ok \in Outcomes(c, tx, FALSE) :
          /\ chk' = IF ok THEN runTrx(c, tx) ELSE c
          /\ pool' = IF ok THEN Append(pool, m) ELSE pool
  <2>1. Refused(c, tx, FALSE) = c
      BY <1>1, <1>3, <1>4, RefusedIs, ZenonT(60)
  <2> QED BY <2>1, ZenonT(30) DEF CheckTx
<1>6. ok \in BOOLEAN
    BY <1>5, ZenonT(30) DEF Outcomes
<1>7. UNCHANGED <<phase, height, tree, fin, feeSum, proposal, next, replay, executed, saved>>
    BY DEF CheckTx
<1> DEFINE w == Merge(chk', tree)
<1> HIDE DEF tx, c, v, w
\* What the step has done to CheckTx's accounts and to the pool.
<1>8. /\ chk' \in Overlays /\ Total(w) <= Supply /\ pool' \in Seq(Messages)
      /\ Introduced(pool', tree)
      /\ \A a \in Addrs : tree[a] = None /\ BalanceOf(w, a) > 0
                            => \E j \in DOMAIN pool' : fromProto(pool'[j]).To = a
  <2>1. CASE ok = TRUE
    <3>1. /\ chk' = runTrx(c, tx) /\ pool' = Append(pool, m)
          /\ Handled(c, tx, FALSE) /\ PaysFee(ExecuteTrx(c, tx), tx)
        BY <1>5, <2>1, ZenonT(90) DEF Outcomes
    <3>2. /\ runTrx(c, tx) \in Overlays /\ w \in Accts /\ Total(w) = Total(v) - Fee
          /\ \A a \in Addrs : a # tx.To => BalanceOf(w, a) <= BalanceOf(v, a)
          /\ BalanceOf(v, tx.From) > 0
      <4>1. v = Merge(chk, tree) /\ c = NewTrxContext(chk, tx) /\ w = Merge(runTrx(c, tx), tree)
          BY <3>1 DEF v, c, w
      <4>2. runTrx(c, tx) \in Overlays /\ Ran(v, w, tx)
          BY <1>1, <1>3, <1>4, <3>1, <4>1, RunIs, ZenonT(60)
      <4> QED BY <4>2, ZenonT(60) DEF Ran
    <3>3. /\ pool \in Seq(Messages) /\ pool' \in Seq(Messages) /\ Len(pool) \in Nat
          /\ DOMAIN pool = 1 .. Len(pool) /\ DOMAIN pool' = 1 .. Len(pool) + 1
          /\ pool'[Len(pool) + 1] = m /\ \A i \in 1 .. Len(pool) : pool'[i] = pool[i]
        BY <3>1 DEF IInv, TypeOK
    <3>4. \A a \in Addrs : tree[a] = None /\ BalanceOf(v, a) > 0
                            => \E j \in 1 .. Len(pool) : fromProto(pool[j]).To = a
        BY <3>3, ZenonT(60) DEF IInv, SendersKnown, v
    <3>5. Introduced(pool', tree)
      <4> SUFFICES ASSUME NEW i \in DOMAIN pool'
                   PROVE  \/ tree[fromProto(pool'[i]).From] # None
                          \/ \E j \in 1 .. i - 1 : fromProto(pool'[j]).To = fromProto(pool'[i]).From
          BY DEF Introduced
      <4>1. CASE i \in 1 .. Len(pool)
        <5>1. \/ tree[fromProto(pool[i]).From] # None
              \/ \E j \in 1 .. i - 1 : fromProto(pool[j]).To = fromProto(pool[i]).From
            BY <3>3, <4>1, Zenon DEF IInv, SendersKnown, Introduced
        <5> QED BY <3>3, <4>1, <5>1
      <4>2. CASE i = Len(pool) + 1
        <5>1. pool'[i] = m /\ i - 1 = Len(pool)
            BY <3>3, <4>2
        <5>2. tree[tx.From] # None \/ \E j \in 1 .. Len(pool) : fromProto(pool[j]).To = tx.From
            BY <1>2, <3>2, <3>4, ZenonT(60)
        <5> QED BY <3>3, <5>1, <5>2, ZenonT(60) DEF tx
      <4> QED BY <3>3, <4>1, <4>2
    <3>6. ASSUME NEW a \in Addrs, tree[a] = None, BalanceOf(w, a) > 0
          PROVE  \E j \in DOMAIN pool' : fromProto(pool'[j]).To = a
      <4>1. CASE a = tx.To
          BY <3>3, <4>1 DEF tx
      <4>2. CASE a # tx.To
        <5>1. BalanceOf(w, a) \in Nat /\ BalanceOf(v, a) \in Nat /\ BalanceOf(w, a) <= BalanceOf(v, a)
            BY <1>2, <3>2, <4>2, BalanceType, ZenonT(60)
        <5>2. PICK j \in 1 .. Len(pool) : fromProto(pool[j]).To = a
            BY <3>4, <3>6, <5>1
        <5> QED BY <3>3, <5>2
      <4> QED BY <4>1, <4>2
    <3> QED BY <1>4, <3>1, <3>2, <3>3, <3>5, <3>6
  <2>2. CASE ok = FALSE
    <3>1. chk' = c /\ pool' = pool
        BY <1>5, <2>2
    <3>2. c \in Overlays /\ Total(w) = Total(v) /\ \A a \in Addrs : BalanceOf(w, a) = BalanceOf(v, a)
      <4>1. v = Merge(chk, tree) /\ c = NewTrxContext(chk, tx) /\ w = Merge(NewTrxContext(chk, tx), tree)
          BY <3>1 DEF v, c, w
      <4>2. c \in Overlays /\ Opened(v, w, tx.To)
          BY <1>1, <4>1, ContextIs, ZenonT(60)
      <4> QED BY <4>2 DEF Opened
    <3>3. \A a \in Addrs : tree[a] = None /\ BalanceOf(v, a) > 0
                            => \E j \in DOMAIN pool : fromProto(pool[j]).To = a
        BY DEF IInv, SendersKnown, v
    <3>4. pool \in Seq(Messages) /\ Introduced(pool, tree)
        BY DEF IInv, TypeOK, SendersKnown
    <3> QED BY <1>4, <3>1, <3>2, <3>3, <3>4, Zenon
  <2> QED BY <1>6, <2>1, <2>2, ZenonT(90)
<1>9. TypeOK'
    BY <1>7, <1>8, ZenonT(60) DEF IInv, TypeOK
<1>10. Restartable'
    BY <1>7 DEF IInv, Restartable, Committed
<1>11. Money'
    BY <1>7, <1>8, ZenonT(60) DEF IInv, Money, w
<1>12. Carried'
    BY <1>7 DEF IInv, Carried
<1>13. SendersKnown'
  <2>1. Introduced(pool, tree)' /\ Introduced(proposal, tree)'
      BY <1>7, <1>8, Zenon DEF IInv, SendersKnown, Introduced
  <2>2. Merge(chk, tree)' = w
      BY <1>7 DEF w
  <2> QED BY <1>7, <1>8, <2>1, <2>2, Zenon DEF IInv, SendersKnown
<1> QED BY <1>9, <1>10, <1>11, <1>12, <1>13, ZenonT(60) DEF IInv

\* BeginBlock keeps it: a prefix of the mempool, or the replayed block, is a proposal.
LEMMA BeginBlockOK == ASSUME IInv, NEW n \in Reapable, BeginBlock(n) PROVE IInv'
<1>1. /\ phase = "idle" /\ phase' = "executing" /\ height' = height + 1 /\ height \in Nat
      /\ proposal' = (IF replay THEN proposal ELSE SubSeq(pool, 1, n))
      /\ next' = 1 /\ feeSum' = 0
      /\ UNCHANGED <<tree, chk, fin, pool, replay, checks, executed, saved>>
    BY DEF BeginBlock, IInv, TypeOK
<1>2. proposal' \in Seq(Messages) /\ Introduced(proposal', tree)
  <2>1. CASE replay
    <3>1. proposal' = proposal
        BY <1>1, <2>1
    <3> QED BY <3>1 DEF IInv, TypeOK, SendersKnown
  <2>2. CASE ~replay
    <3> DEFINE s == SubSeq(pool, 1, n)
    <3>1. pool \in Seq(Messages) /\ Introduced(pool, tree) /\ n \in 0 .. Len(pool)
        BY <2>2 DEF IInv, TypeOK, SendersKnown, Reapable
    <3>2. /\ s \in Seq(Messages) /\ DOMAIN s = 1 .. n /\ DOMAIN pool = 1 .. Len(pool)
          /\ Len(pool) \in Nat /\ \A i \in 1 .. n : s[i] = pool[i]
        BY <3>1
    <3> HIDE DEF s
    <3>3. ASSUME NEW i \in DOMAIN s
          PROVE  \/ tree[fromProto(s[i]).From] # None
                 \/ \E j \in 1 .. i - 1 : fromProto(s[j]).To = fromProto(s[i]).From
      <4>1. \/ tree[fromProto(pool[i]).From] # None
            \/ \E j \in 1 .. i - 1 : fromProto(pool[j]).To = fromProto(pool[i]).From
          BY <3>1, <3>2 DEF Introduced
      <4> QED BY <3>1, <3>2, <4>1
    <3>4. proposal' = s
        BY <1>1, <2>2, ZenonT(30) DEF s
    <3> QED BY <3>2, <3>3, <3>4, ZenonT(60) DEF Introduced
  <2> QED BY <2>1, <2>2
<1>3. TypeOK'
    BY <1>1, <1>2 DEF IInv, TypeOK
<1>4. Committed' = Committed
    BY <1>1 DEF Committed
<1>5. Restartable'
    BY <1>1, <1>4 DEF IInv, Restartable
<1>6. Money'
  <2>1. Total(Merge(fin, tree)) \in Nat
      BY MergeIs, TotalType DEF IInv, TypeOK
  <2>2. Merge(fin, tree)' = Merge(fin, tree) /\ Merge(chk, tree)' = Merge(chk, tree)
      BY <1>1
  <2> QED BY <1>1, <2>1, <2>2, ZenonT(60) DEF IInv, Money
<1>7. Carried'
    BY <1>1 DEF IInv, Carried
<1>8. SendersKnown'
  <2>1. \A k \in DOMAIN proposal' : ~(k < next')
      BY <1>1, <1>2
  <2>2. Introduced(pool, tree)' /\ Introduced(proposal, tree)'
      BY <1>1, <1>2, ZenonT(30) DEF IInv, SendersKnown, Introduced
  <2> QED BY <1>1, <2>1, <2>2, ZenonT(60) DEF IInv, SendersKnown
<1> QED BY <1>3, <1>5, <1>6, <1>7, <1>8, ZenonT(60) DEF IInv

\* The message that is delivered next has a sender with an account.
LEMMA SenderKnown ==
    ASSUME IInv, phase = "executing", next <= Len(proposal)
    PROVE  /\ proposal[next] \in Messages /\ fromProto(proposal[next]) \in Txs
           /\ Merge(fin, tree)[fromProto(proposal[next]).From] # None
<1> DEFINE tx == fromProto(proposal[next])
<1>1. next \in DOMAIN proposal /\ proposal \in Seq(Messages) /\ next \in Nat
    BY DEF IInv, TypeOK
<1>2. proposal[next] \in Messages /\ tx \in Txs /\ tx.From \in Addrs
  <2>1. proposal[next] \in Messages
      BY <1>1
  <2> QED BY <2>1, TxType DEF Txs
<1>3. CASE tree[tx.From] # None
    BY <1>2, <1>3, Zenon DEF Merge, IInv, TypeOK, Accts, Overlays
<1>4. CASE \E j \in 1 .. next - 1 : fromProto(proposal[j]).To = tx.From
  <2>1. PICK j \in 1 .. next - 1 : fromProto(proposal[j]).To = tx.From
      BY <1>4
  <2>2. j \in DOMAIN proposal /\ j < next
      BY <1>1
  <2>3. Merge(fin, tree)[fromProto(proposal[j]).To] # None
      BY <2>2 DEF IInv, SendersKnown
  <2> QED BY <1>2, <2>1, <2>3, ZenonT(60)
<1>5. tree[tx.From] # None \/ \E j \in 1 .. next - 1 : fromProto(proposal[j]).To = tx.From
    BY <1>1 DEF IInv, SendersKnown, Introduced
<1> QED BY <1>3, <1>4, <1>5, ZenonT(60)

\* DeliverTx keeps it.
LEMMA DeliverTxOK == ASSUME IInv, DeliverTx PROVE IInv'
<1> DEFINE tx == fromProto(proposal[next])
           c == NewTrxContext(fin, tx)
           v == Merge(fin, tree)
           w == Merge(fin', tree)
<1>1. /\ phase = "executing" /\ next <= Len(proposal) /\ next' = next + 1
      /\ UNCHANGED <<height, tree, chk, pool, proposal, replay, checks, saved>>
    BY DEF DeliverTx
<1>2. /\ tree \in Accts /\ fin \in Overlays /\ v \in Accts /\ executed \in Seq(Txs)
      /\ feeSum \in Nat /\ next \in Nat \ {0} /\ proposal \in Seq(Messages)
    BY MergeIs DEF IInv, TypeOK
<1>3. tx \in Txs /\ v[tx.From] # None /\ tx.From \in Addrs /\ tx.To \in Addrs
    BY <1>1, SenderKnown, TxType, Zenon
<1>4. KnownSender(fin, tx)
    BY <1>2, <1>3, MergeIs, Zenon DEF KnownSender
<1>5. Total(v) + feeSum = Supply /\ Total(v) \in Nat /\ Supply \in Nat /\ Fee \in Nat
    BY <1>1, <1>2, TotalType, GenesisIs, ExecutorAssumption, Zenon DEF IInv, Money
<1>6. PICK ok \in Outcomes(c, tx, TRUE) :
          /\ phase' = phase
          /\ fin' = IF ok THEN runTrx(c, tx) ELSE c
          /\ feeSum' = IF ok THEN feeSum + Fee ELSE feeSum
          /\ executed' = IF ok THEN Append(executed, tx) ELSE executed
  <2>1. Total(v) <= Supply
      BY <1>2, <1>5
  <2>2. Refused(c, tx, TRUE) = c
      BY <1>2, <1>3, <2>1, RefusedIs, ZenonT(60)
  <2> QED BY <1>4, <2>2, ZenonT(30) DEF DeliverTx
<1>7. ok \in BOOLEAN
    BY <1>6, ZenonT(30) DEF Outcomes
<1> HIDE DEF tx, c, v, w
\* What the step has done to the block's accounts, the fees and the history.
<1>8. /\ fin' \in Overlays /\ feeSum' \in Nat /\ executed' \in Seq(Txs)
      /\ Total(w) + feeSum' = Supply
      /\ Counted(executed', w) /\ \A i \in DOMAIN executed' : VerifyTrxRLP(executed'[i], ChainId)
      /\ w[tx.To] # None /\ \A a \in Addrs : v[a] # None => w[a] # None
  <2>1. Counted(executed, v) /\ \A i \in DOMAIN executed : VerifyTrxRLP(executed[i], ChainId)
      BY DEF IInv, Carried, v
  <2>2. CASE ok = TRUE
    <3>1. fin' = runTrx(c, tx) /\ feeSum' = feeSum + Fee /\ executed' = Append(executed, tx)
        BY <1>6, <2>2
    <3>2. Handled(c, tx, TRUE) /\ PaysFee(ExecuteTrx(c, tx), tx)
        BY <1>6, <2>2, ZenonT(30) DEF Outcomes
    <3>3. VerifyTrxRLP(tx, ChainId)
        BY <3>2, Zenon DEF Handled, commonValidation0
    <3>4. Total(v) <= Supply
        BY <1>2, <1>5
    <3>5. /\ runTrx(c, tx) \in Overlays /\ w \in Accts /\ Total(w) = Total(v) - Fee
          /\ w[tx.To] # None /\ \A a \in Addrs : v[a] # None => w[a] # None
          /\ tx.Nonce = NonceOf(v, tx.From) /\ NonceOf(w, tx.From) = NonceOf(v, tx.From) + 1
          /\ \A a \in Addrs : a # tx.From => NonceOf(w, a) = NonceOf(v, a)
      <4>1. v = Merge(fin, tree) /\ c = NewTrxContext(fin, tx) /\ w = Merge(runTrx(c, tx), tree)
          BY <3>1 DEF v, c, w
      <4>2. runTrx(c, tx) \in Overlays /\ Ran(v, w, tx)
          BY <1>2, <1>3, <3>2, <3>4, <4>1, RunIs, ZenonT(60)
      <4> QED BY <4>2, ZenonT(60) DEF Ran
    <3>6. Counted(executed', w)
        BY <1>2, <1>3, <2>1, <3>1, <3>5, CountedAppend, ZenonT(30)
    <3>7. executed' \in Seq(Txs) /\ \A i \in DOMAIN executed' : VerifyTrxRLP(executed'[i], ChainId)
      <4> DEFINE n == Len(executed)
      <4>1. n \in Nat /\ DOMAIN executed = 1 .. n
          BY <1>2
      <4>2. /\ executed' \in Seq(Txs) /\ DOMAIN executed' = 1 .. n + 1 /\ executed'[n + 1] = tx
            /\ \A i \in 1 .. n : executed'[i] = executed[i]
        <5>1. executed \in Seq(Txs) /\ tx \in Txs /\ executed' = Append(executed, tx)
            BY <1>2, <1>3, <3>1, ZenonT(60)
        <5> QED BY ONLY <5>1, AppendIs
      <4> HIDE DEF n
      <4>3. \A i \in 1 .. n + 1 : i \in 1 .. n \/ i = n + 1
          BY <4>1
      <4> QED BY <2>1, <3>3, <4>1, <4>2, <4>3, ZenonT(60)
    <3>8. feeSum' \in Nat /\ Total(w) + feeSum' = Supply
      <4>1. feeSum' = feeSum + Fee /\ Total(w) = Total(v) - Fee /\ feeSum \in Nat
          BY <1>2, <3>1, <3>5, Zenon
      <4> QED BY ONLY <1>5, <4>1
    <3> QED BY <3>1, <3>5, <3>6, <3>7, <3>8, ZenonT(60)
  <2>3. CASE ok = FALSE
    <3>1. fin' = c /\ feeSum' = feeSum /\ executed' = executed
        BY <1>6, <2>3
    <3>2. /\ c \in Overlays /\ Total(w) = Total(v)
          /\ w[tx.To] # None /\ \A a \in Addrs : v[a] # None => w[a] = v[a]
          /\ \A a \in Addrs : NonceOf(w, a) = NonceOf(v, a)
      <4>1. v = Merge(fin, tree) /\ c = NewTrxContext(fin, tx) /\ w = Merge(NewTrxContext(fin, tx), tree)
          BY <3>1 DEF v, c, w
      <4>2. c \in Overlays /\ Opened(v, w, tx.To)
          BY <1>2, <1>3, <4>1, ContextIs, Zenon
      <4> QED BY <4>2 DEF Opened
    <3>3. Counted(executed, w)
        BY <2>1, <3>2, CountedSame, ZenonT(60)
    <3> QED BY <1>2, <1>5, <2>1, <3>1, <3>2, <3>3, ZenonT(60)
  <2> QED BY <1>7, <2>2, <2>3, ZenonT(30)
<1>9. TypeOK'
    BY <1>1, <1>2, <1>6, <1>8 DEF IInv, TypeOK
<1>10. Restartable'
    BY <1>1, <1>6, Zenon DEF IInv, Restartable, Committed
<1>11. Merge(fin, tree)' = w /\ Merge(chk, tree)' = Merge(chk, tree)
    BY <1>1 DEF w
<1>12. Money'
    BY <1>1, <1>6, <1>8, <1>11, Zenon DEF IInv, Money
<1>13. Carried'
    BY <1>1, <1>8, <1>11, Zenon DEF IInv, Carried
<1>14. SendersKnown'
  <2>1. Introduced(pool, tree)' /\ Introduced(proposal, tree)'
      BY <1>1, ZenonT(60) DEF IInv, SendersKnown, Introduced
  <2>2. ASSUME NEW k \in DOMAIN proposal, k < next + 1 PROVE w[fromProto(proposal[k]).To] # None
    <3>1. CASE k = next
        BY <1>8, <3>1 DEF tx
    <3>2. CASE k < next
      <4>1. v[fromProto(proposal[k]).To] # None
          BY <1>1, <3>2, Zenon DEF IInv, SendersKnown, v
      <4>2. fromProto(proposal[k]).To \in Addrs
        <5>1. proposal[k] \in Messages
            BY <1>2
        <5> QED BY <5>1, TxType DEF Txs
      <4> QED BY <1>8, <4>1, <4>2, Zenon
    <3> QED BY <1>2, <2>2, <3>1, <3>2
  <2> QED BY <1>1, <1>6, <1>11, <2>1, <2>2, ZenonT(60) DEF IInv, SendersKnown
<1> QED BY <1>9, <1>10, <1>12, <1>13, <1>14, ZenonT(60) DEF IInv

\* EndBlock keeps it: the proposer gets the fees.
LEMMA EndBlockOK == ASSUME IInv, EndBlock PROVE IInv'
<1> DEFINE v == Merge(fin, tree)
           w == Merge(fin', tree)
           found == v[Proposer]
           acct == IF found = None THEN NewAccount ELSE found
           paid == [acct EXCEPT !.Balance = @ + feeSum]
<1>1. /\ phase = "executing" /\ phase' = "ended" /\ next > Len(proposal)
      /\ UNCHANGED <<height, tree, chk, feeSum, pool, proposal, next, replay, checks, executed, saved>>
    BY DEF EndBlock
<1>2. /\ tree \in Accts /\ fin \in Overlays /\ v \in Accts /\ feeSum \in Nat /\ Proposer \in Addrs
      /\ proposal \in Seq(Messages)
    BY MergeIs, ExecutorAssumption, Zenon DEF IInv, TypeOK
<1>3. fin' = IF feeSum = 0 THEN fin ELSE Put(fin, Proposer, paid)
  <2>1. Lookup(fin, tree, Proposer) = found
      BY <1>2, MergeIs
  <2> QED BY <2>1 DEF EndBlock
<1>4. Total(v) + feeSum = Supply /\ Total(v) \in Nat
    BY <1>1, <1>2, TotalType, Zenon DEF IInv, Money
<1>5. /\ acct \in Acct /\ acct.Balance = BalanceOf(v, Proposer) /\ acct.Nonce = NonceOf(v, Proposer)
      /\ acct.Balance \in Nat /\ acct.Nonce \in Nat
    BY <1>2, NewAccountIs, Zenon DEF Accts, BalanceOf, NonceOf, Acct
<1> HIDE DEF v, w, found, acct
<1>6. paid \in Acct /\ paid.Balance = acct.Balance + feeSum /\ paid.Nonce = acct.Nonce
    BY <1>2, <1>5 DEF Acct
<1> HIDE DEF paid
<1>7. /\ fin' \in Overlays /\ Total(w) = Supply
      /\ \A a \in Addrs : NonceOf(w, a) = NonceOf(v, a) /\ (v[a] # None => w[a] # None)
  <2>1. CASE feeSum = 0
    <3>1. fin' = fin /\ w = v
        BY <1>3, <2>1 DEF v, w
    <3> QED BY <1>2, <1>4, <2>1, <3>1
  <2>2. CASE feeSum # 0
    <3>1. fin' \in Overlays /\ w = Change(v, Proposer, paid)
      <4>1. fin' = Put(fin, Proposer, paid)
          BY <1>3, <2>2
      <4> QED BY <1>2, <1>6, <4>1, PutIs, Zenon DEF v, w
    <3>2. /\ Total(w) = Total(v) + (paid.Balance - BalanceOf(v, Proposer))
          /\ NonceOf(w, Proposer) = paid.Nonce
          /\ \A b \in Addrs \ {Proposer} : NonceOf(w, b) = NonceOf(v, b)
        BY <1>2, <1>6, <3>1, TotalSet DEF AccountSet
    <3>3. \A a \in Addrs : v[a] # None => w[a] # None
        BY <1>2, <1>6, <3>1, NotNone, ZenonT(60) DEF Accts, Change
    <3>4. Total(w) = Supply
        BY <1>2, <1>4, <1>5, <1>6, <3>2
    <3> QED BY <1>5, <1>6, <3>1, <3>2, <3>3, <3>4, ZenonT(60)
  <2> QED BY <2>1, <2>2
<1>8. TypeOK'
    BY <1>1, <1>7 DEF IInv, TypeOK
<1>9. Restartable'
    BY <1>1 DEF IInv, Restartable, Committed
<1>10. Merge(fin, tree)' = w /\ Merge(chk, tree)' = Merge(chk, tree)
    BY <1>1 DEF w
<1>11. Money'
  <2>1. Supply \in Nat
      BY GenesisIs
  <2> QED BY <1>1, <1>7, <1>10, <2>1 DEF IInv, Money
<1>12. Carried'
  <2>1. Counted(executed, w)
      BY <1>7, CountedSame DEF IInv, Carried, v
  <2> QED BY <1>1, <1>10, <2>1, ZenonT(60) DEF IInv, Carried
<1>13. SendersKnown'
  <2>1. Introduced(pool, tree)' /\ Introduced(proposal, tree)'
      BY <1>1, Zenon DEF IInv, SendersKnown, Introduced
  <2>2. ASSUME NEW k \in DOMAIN proposal, k < next PROVE w[fromProto(proposal[k]).To] # None
    <3>1. v[fromProto(proposal[k]).To] # None
        BY <1>1, <2>2, Zenon DEF IInv, SendersKnown, v
    <3>2. fromProto(proposal[k]).To \in Addrs
      <4>1. proposal[k] \in Messages
          BY <1>2
      <4> QED BY <4>1, TxType DEF Txs
    <3> QED BY <1>7, <3>1, <3>2, Zenon
  <2> QED BY <1>1, <1>10, <2>1, <2>2, Zenon DEF IInv, SendersKnown
<1> QED BY <1>8, <1>9, <1>11, <1>12, <1>13, Zenon DEF IInv

\* An account of a block is one of the tree the block is committed to.
LEMMA IntroducedLater ==
    ASSUME NEW s \in Seq(Messages), NEW t, NEW u, Introduced(s, t),
           \A a \in Addrs : t[a] # None => u[a] # None
    PROVE  Introduced(s, u)
<1>1. \A i \in DOMAIN s : fromProto(s[i]).From \in Addrs
  <2> TAKE i \in DOMAIN s
  <2>1. s[i] \in Messages
      OBVIOUS
  <2> QED BY <2>1, TxType DEF Txs
<1> QED BY <1>1 DEF Introduced

\* Commit keeps it: what is left in the mempool is introduced by what is left or committed.
LEMMA CommitOK == ASSUME IInv, Commit PROVE IInv'
<1> DEFINE gone == {proposal[i] : i \in DOMAIN proposal}
<1>1. /\ phase = "ended" /\ phase' = "idle" /\ tree' = Merge(fin, tree)
      /\ fin' = NewOverlay(Addrs) /\ chk' = NewOverlay(Addrs)
      /\ pool' = Without(pool, gone) /\ feeSum' = 0 /\ saved' = executed
      /\ UNCHANGED <<height, proposal, next, executed>>
    BY DEF Commit
<1>2. /\ tree \in Accts /\ fin \in Overlays /\ tree' \in Accts /\ height \in Nat /\ height > 0
      /\ pool \in Seq(Messages) /\ proposal \in Seq(Messages) /\ next \in Nat
    BY <1>1, MergeIs, Zenon DEF IInv, TypeOK, Restartable
<1>3. /\ Merge(fin, tree)' = tree' /\ Merge(chk, tree)' = tree'
      /\ NewOverlay(Addrs) \in Overlays
    BY <1>1, <1>2, NewOverlayIs, Zenon
<1>4. pool' \in Seq(Messages) /\ KeepsOrder(pool, gone, Len(pool), pool')
    BY <1>1, <1>2, WithoutKeeps, ZenonT(60)
<1>5. Total(tree') = Supply
  <2>1. Total(Merge(fin, tree)) \in Nat
      BY <1>2, MergeIs, TotalType
  <2> QED BY <1>1, <2>1 DEF IInv, Money
<1>6. TypeOK'
    BY <1>1, <1>2, <1>3, <1>4, ZenonT(60) DEF IInv, TypeOK
<1>7. Restartable'
    BY <1>1, <1>2, <1>5 DEF Restartable, Committed
<1>8. Money'
  <2>1. Supply \in Nat
      BY GenesisIs
  <2>2. Total(Merge(fin, tree)') = Supply /\ Total(Merge(chk, tree)') = Supply /\ phase' # "executing"
      BY <1>1, <1>3, <1>5, ZenonT(60)
  <2> QED BY ONLY <2>1, <2>2 DEF Money
<1>9. Carried'
    BY <1>1, <1>3, Zenon DEF IInv, Carried
<1>10. \A a \in Addrs : tree[a] # None => tree'[a] # None
    BY <1>1, <1>2, Zenon DEF Merge, Accts, Overlays
<1>11. Introduced(pool', tree')
  <2> HIDE DEF gone
  <2> SUFFICES ASSUME NEW x \in DOMAIN pool'
               PROVE  \/ tree'[fromProto(pool'[x]).From] # None
                      \/ \E y \in 1 .. x - 1 : fromProto(pool'[y]).To = fromProto(pool'[x]).From
      BY DEF Introduced
  <2>1. PICK j \in 1 .. Len(pool) :
            /\ pool'[x] = pool[j]
            /\ \A l \in 1 .. j - 1 : pool[l] \notin gone => \E y \in 1 .. x - 1 : pool'[y] = pool[l]
      BY <1>4 DEF KeepsOrder
  <2>2. j \in DOMAIN pool /\ pool[j] \in Messages
      BY <1>2
  <2>3. fromProto(pool[j]).From \in Addrs
      BY <2>2, TxType DEF Txs
  <2>4. CASE tree[fromProto(pool[j]).From] # None
      BY <1>10, <2>1, <2>3, <2>4, ZenonT(60)
  <2>5. CASE \E l \in 1 .. j - 1 : fromProto(pool[l]).To = fromProto(pool[j]).From
    <3>1. PICK l \in 1 .. j - 1 : fromProto(pool[l]).To = fromProto(pool[j]).From
        BY <2>5
    <3>2. CASE pool[l] \notin gone
        BY <2>1, <3>1, <3>2, ZenonT(60)
    <3>3. CASE pool[l] \in gone
      <4>1. PICK k \in DOMAIN proposal : pool[l] = proposal[k]
          BY <3>3 DEF gone
      <4>2. k < next
        <5>1. next > Len(proposal)
            BY <1>1, Zenon DEF IInv, SendersKnown
        <5> QED BY ONLY <1>2, <5>1, k \in DOMAIN proposal
      <4>3. Merge(fin, tree)[fromProto(proposal[k]).To] # None
          BY <1>1, <4>2, ZenonT(60) DEF IInv, SendersKnown
      <4> QED BY <1>1, <2>1, <3>1, <4>1, <4>3, ZenonT(60)
    <3> QED BY <3>2, <3>3, ZenonT(60)
  <2> QED BY <2>2, <2>4, <2>5, ZenonT(60) DEF IInv, SendersKnown, Introduced
<1>12. SendersKnown'
  <2>1. Introduced(pool, tree)'
      BY <1>11
  <2>2. Introduced(proposal, tree)'
    <3>1. Introduced(proposal, tree)
        BY DEF IInv, SendersKnown
    <3>2. Introduced(proposal, tree')
        BY <1>2, <1>10, <3>1, IntroducedLater, ZenonT(60)
    <3> QED BY <1>1, <3>2
  <2>3. \A a \in Addrs : tree'[a] = None => ~(BalanceOf(tree', a) > 0)
      BY DEF BalanceOf
  <2> QED BY <1>1, <1>3, <2>1, <2>2, <2>3, ZenonT(60) DEF SendersKnown
<1> QED BY <1>6, <1>7, <1>8, <1>9, <1>12, Zenon DEF IInv

\* Crash keeps it.
LEMMA CrashOK == ASSUME IInv, Crash PROVE IInv'
<1>1. /\ phase' = "idle" /\ height' = Committed
      /\ chk' = NewOverlay(Addrs) /\ fin' = IF height' = 0 THEN InitLedger ELSE NewOverlay(Addrs)
      /\ feeSum' = 0 /\ pool' = << >> /\ executed' = saved
      /\ UNCHANGED <<tree, proposal, next, saved>>
    BY DEF Crash, Committed
<1>2. Committed \in Nat /\ Committed' = Committed
    BY <1>1 DEF IInv, TypeOK, Restartable, Committed
<1>3. tree \in Accts /\ NewOverlay(Addrs) \in Overlays /\ InitLedger \in Overlays /\ Supply \in Nat
    BY NewOverlayIs, GenesisIs DEF IInv, TypeOK
<1>4. Merge(chk, tree)' = tree
    BY <1>1, <1>3, NewOverlayIs
<1>5. TypeOK'
    BY <1>1, <1>2, <1>3 DEF IInv, TypeOK
<1>6. Restartable'
    BY <1>1, <1>2 DEF IInv, Restartable
<1>7. Total(Merge(fin, tree)') = Supply /\ Total(tree) <= Supply /\ Counted(saved, Merge(fin, tree)')
  <2>1. CASE Committed = 0
    <3>1. tree = NewTree(Addrs) /\ saved = << >> /\ fin' = InitLedger /\ tree' = tree
        BY <1>1, <2>1 DEF IInv, Restartable
    <3>2. Merge(fin, tree)' = Merge(InitLedger, NewTree(Addrs))
        BY <3>1
    <3>3. Total(tree) = 0
        BY <3>1, NothingYet
    <3> QED BY <1>3, <3>1, <3>2, <3>3, GenesisIs, CountedNone
  <2>2. CASE Committed > 0
    <3>1. Merge(fin, tree)' = tree
        BY <1>1, <1>3, <2>2, NewOverlayIs
    <3> QED BY <1>3, <2>2, <3>1 DEF IInv, Restartable, Carried
  <2> QED BY <1>2, <2>1, <2>2
<1>8. Money'
    BY <1>1, <1>3, <1>4, <1>7 DEF Money
<1>9. Carried'
    BY <1>1, <1>7 DEF IInv, Carried
<1>10. SendersKnown'
  <2>1. Introduced(pool, tree)' /\ Introduced(proposal, tree)'
    <3>1. pool' = << >> /\ tree' = tree /\ proposal' = proposal
        BY <1>1, ZenonT(60)
    <3>2. Introduced(<< >>, tree)
        BY DEF Introduced
    <3>3. Introduced(proposal, tree)
        BY Zenon DEF IInv, SendersKnown
    <3> QED BY ONLY <3>1, <3>2, <3>3 DEF Introduced
  <2>2. \A a \in Addrs : tree[a] = None => ~(BalanceOf(tree, a) > 0)
      BY DEF BalanceOf
  <2> QED BY <1>1, <1>4, <2>1, <2>2, ZenonT(60) DEF SendersKnown
<1> QED BY <1>5, <1>6, <1>8, <1>9, <1>10, Zenon DEF IInv

\* The invariant is inductive: every step of CheckTx, of a block and of a restart keeps it.
THEOREM TrxInductive == Spec => []IInv
<1>1. IInv /\ [Next]_vars => IInv'
  <2> SUFFICES ASSUME IInv, [Next]_vars PROVE IInv'
      OBVIOUS
  <2>1. CASE \E m \in Messages : CheckTx(m)
      BY <2>1, CheckTxOK
  <2>2. CASE \E n \in Reapable : BeginBlock(n)
      BY <2>2, BeginBlockOK
  <2>3. CASE DeliverTx
      BY <2>3, DeliverTxOK
  <2>4. CASE EndBlock
      BY <2>4, EndBlockOK
  <2>5. CASE Commit
      BY <2>5, CommitOK
  <2>6. CASE Crash
      BY <2>6, CrashOK
  <2>7. CASE UNCHANGED vars
      BY <2>7, ZenonT(90) DEF vars, IInv, TypeOK, Restartable, Committed, Money, Carried, SendersKnown, Introduced
  <2> QED BY <2>1, <2>2, <2>3, <2>4, <2>5, <2>6, <2>7, ZenonT(60) DEF Next
<1> QED BY <1>1, InitOK, PTL DEF Spec

-----------------------------------------------------------------------------
(* What follows. *)

\* SupplyKept, for any number of accounts, transactions, blocks and crashes: balances
\* and collected fees add up to the genesis balances while deliverTxSync executes the
\* transactions of a block, and after EndBlock has paid the proposer.
THEOREM TrxSupplyKept == Spec => []SupplyKept
<1>1. IInv => SupplyKept
  <2> SUFFICES ASSUME IInv PROVE SupplyKept
      OBVIOUS
  <2>1. \A o \in {chk, fin} : Merge(o, tree) \in Accts
      BY MergeIs DEF IInv, TypeOK
  <2>2. \A a \in Addrs, o \in {chk, fin} : BalanceOf(Merge(o, tree), a) >= 0
      BY <2>1, BalanceType
  <2> QED BY <2>2, ZenonT(60) DEF IInv, Money, SupplyKept, Total, Balances, Supply
<1> QED BY <1>1, TrxInductive, PTL

\* NoReplay: the nonces that commonValidation compares and postRunTrx increments admit
\* every transaction of a sender once, in the order of its nonces, whatever is replayed
\* after a crash and whatever the mempool hands over again.
THEOREM TrxNoReplay == Spec => []NoReplay
<1>1. IInv => NoReplay
    BY DEF IInv, Carried, Counted, NoReplay
<1> QED BY <1>1, TrxInductive, PTL

\* NeverPanics: no block that was reaped from the mempool has a transaction whose sender
\* deliverTxSync cannot find, so that its nil dereference is never reached.
THEOREM TrxNeverPanics == Spec => []NeverPanics
<1>1. IInv => NeverPanics
    BY DEF IInv, TypeOK, NeverPanics
<1> QED BY <1>1, TrxInductive, PTL

\* CarriedOutAsSigned: VerifyTrxRLP lets only such transactions into a block's effects
\* whose decoded form is the one its sender signed for this chain.
THEOREM TrxCarriedOutAsSigned == Spec => []CarriedOutAsSigned
<1>1. IInv => CarriedOutAsSigned
  <2> SUFFICES ASSUME IInv, NEW i \in DOMAIN executed, NEW tx, tx = executed[i]
               PROVE  /\ tx.Sig.key = tx.From /\ tx.Sig.preimg[1] = ChainId
                      /\ Equal(WithSig(tx, Nil), DecodeRLP(tx.Sig.preimg[2]))
      BY ZenonT(60) DEF CarriedOutAsSigned
  <2>1. tx \in Txs /\ VerifyTrxRLP(tx, ChainId)
      BY DEF IInv, TypeOK, Carried
  <2>2. PICK m \in Messages : tx = fromProto(m)
      BY <2>1 DEF Txs
  <2>3. DecodeRLP(EncodeRLP(WithSig(tx, Nil))) = WithSig(tx, Nil)
      BY <2>2, MessageVerifies
  <2>4. tx.From \in Addrs /\ tx.From # Nil
      BY <2>1, TxType, ExecutorAssumption, ZenonT(60)
  <2>5. tx.Sig.preimg = PreImageToSignTrxRLP(tx, ChainId) /\ tx.Sig.key = tx.From
      BY <2>1, <2>4 DEF VerifyTrxRLP, Sig2Addr
  <2>6. tx.Sig.preimg[1] = ChainId /\ tx.Sig.preimg[2] = EncodeRLP(WithSig(tx, Nil))
      BY <2>5 DEF PreImageToSignTrxRLP
  <2>7. Equal(WithSig(tx, Nil), WithSig(tx, Nil))
      BY DEF Equal
  <2> QED BY <2>3, <2>5, <2>6, <2>7, ZenonT(60)
<1> QED BY <1>1, TrxInductive, PTL

\* SignaturesSurvive: what the node decodes of a client's message has the bytes the
\* client signed, for every amount of a uint256 and every payload type, so VerifyTrxRLP
\* accepts it in a block.
THEOREM TrxSignaturesSurvive == Spec => []SignaturesSurvive
<1>1. IInv => SignaturesSurvive
  <2> SUFFICES ASSUME IInv, NEW i \in DOMAIN proposal, NEW tx, tx = fromProto(proposal[i]),
                      tx.Sig.preimg[1] = ChainId
               PROVE  VerifyTrxRLP(tx, ChainId)
      BY DEF SignaturesSurvive, commonValidation0
  <2>1. proposal[i] \in Messages
      BY DEF IInv, TypeOK
  <2> QED BY <2>1, MessageVerifies, ZenonT(60)
<1> QED BY <1>1, TrxInductive, PTL
=============================================================================
