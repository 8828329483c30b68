-------------------------- MODULE EVMCtrlerProofs --------------------------
(***************************************************************************)
(* Proofs about EVMCtrler, for any addresses, balances, amounts, depth of  *)
(* calls and number of transactions, blocks and restarts: no step breaks   *)
(* the invariant, and what follows from it.  The steps of a block come     *)
(* first, then those of a contract, then the ends and the beginning of a   *)
(* transaction.                                                            *)
(***************************************************************************)
EXTENDS StateDBWrapperProofs

-----------------------------------------------------------------------------
(* The invariant holds at first, and no step breaks it. *)

\* Genesis: every address has what it was given, and a nonce of zero.
LEMMA GenesisIs ==
    /\ Genesis \in Ledgers /\ Objects0 \in Objects /\ Supply \in Nat /\ Unused(Genesis)
<1> Genesis \in Ledgers
    BY EVMAssumption DEF Genesis, Ledgers
<1> Objects0 \in Objects
    BY DEF Objects0, NoObject, Objects
<1>3. Supply \in Nat
    BY HeldType DEF Supply
<1>4. Unused(Genesis)
    BY CreateAssumption DEF Unused, Genesis
<1> QED BY <1>3, <1>4

\* What is committed is sound.
LEMMA CommittedIs ==
    ASSUME IInv, NEW h \in 0 .. Len(hist)
    PROVE  /\ Committed(h).accts \in Ledgers /\ Committed(h).objs \in Objects
           /\ Committed(h).burned \in Nat /\ Unused(Committed(h).accts)
           /\ Total(Committed(h).accts) + Committed(h).burned = Supply
<1>1. CASE h = 0
  <2>1. Committed(h).accts = Genesis /\ Committed(h).objs = Objects0 /\ Committed(h).burned = 0
      BY <1>1 DEF Committed
  <2>2. Total(Genesis) = Supply /\ Supply \in Nat
      BY GenesisIs DEF Supply
  <2>3. Total(Genesis) + 0 = Supply
      BY ONLY <2>2
  <2> QED BY <2>1, <2>3, GenesisIs
<1>2. CASE h # 0
  <2> h \in 1 .. Len(hist) /\ Committed(h) = hist[h]
      BY <1>2 DEF Committed
  <2>2. hist[h] \in States
    <3>1. hist \in Seq(States)
        BY DEF IInv, TypeOK
    <3> QED BY <3>1
  <2> QED BY <2>2 DEF IInv, HistoryOK, States
<1> QED BY <1>1, <1>2

\* The wrapper that is opened on it.
LEMMA OpenedIs ==
    ASSUME IInv, NEW h \in 0 .. Len(hist)
    PROVE  /\ OpenedAt(h) \in Wrappers /\ OpenedAt(h).revs = << >>
           /\ OpenedAt(h).accessed = Nobody /\ OpenedAt(h).burned = Committed(h).burned
<1>1. Committed(h).objs \in Objects /\ Committed(h).burned \in Nat
    BY CommittedIs
<1>2. OpenedAt(h) = NewStateDBWrapper(Committed(h).objs, Committed(h).burned)
    BY DEF OpenedAt
<1> QED BY ONLY <1>1, <1>2, NewWrapperIs

\* The initial state.
LEMMA InitOK == ASSUME Init PROVE IInv
<1> w \in Wrappers /\ w.revs = << >> /\ w.accessed = Nobody /\ w.burned = 0
    BY NewWrapperIs, GenesisIs DEF Init
<1>2. TypeOK
    BY GenesisIs DEF Init, TypeOK
<1>3. Resting
    BY GenesisIs DEF Init, Resting, Supply
<1>4. Settled
    BY DEF Init, Settled, Committed, lastBlockHeight
<1> QED BY <1>2, <1>3, <1>4, GenesisIs DEF Init, IInv, HistoryOK, CallSeesCommitted

\* A block begins.
LEMMA BeginBlockOK == ASSUME IInv, BeginBlock PROVE IInv'
<1> tx = None /\ sumFee = 0 /\ Resting /\ Settled
    BY DEF IInv, BeginBlock
<1>2. lastBlockHeight \in 0 .. Len(hist)
    BY DEF IInv, TypeOK, lastBlockHeight
<1> w' \in Wrappers /\ w'.revs = << >> /\ w'.accessed = Nobody /\ w'.burned = w.burned
  <2>1. w' = OpenedAt(lastBlockHeight) /\ w.burned = Committed(lastBlockHeight).burned
      BY Zenon DEF BeginBlock, Settled
  <2> QED BY <1>2, <2>1, OpenedIs, Zenon
<1>4. TypeOK'
    BY DEF BeginBlock, IInv, TypeOK
<1>5. Resting'
    BY DEF BeginBlock, Resting
<1>6. Unused(accts)' /\ HistoryOK'
    BY DEF BeginBlock, IInv, HistoryOK, Supply
<1>7. CallSeesCommitted' /\ phase' # "idle" /\ tx' = None
    BY DEF BeginBlock, CallSeesCommitted
<1> QED BY <1>4, <1>5, <1>6, <1>7, Zenon DEF IInv

\* A block ends and is committed.
LEMMA CommitOK == ASSUME IInv, Commit PROVE IInv'
<1>1. /\ tx = None /\ tx' = None /\ Resting /\ sumFee \in Nat /\ accts \in Ledgers
      /\ Proposer \in Addrs /\ w.burned \in Nat
    BY EVMAssumption, WrapperIs DEF IInv, Commit, TypeOK
<1> DEFINE x == [accts EXCEPT ![Proposer].Balance = @ + sumFee]
<1> accts' = x
    BY DEF Commit
<1>3. /\ x \in Ledgers /\ x[Proposer].Balance = accts[Proposer].Balance + sumFee
      /\ \A a \in Addrs : x[a].Nonce = accts[a].Nonce
      /\ \A a \in Addrs \ {Proposer} : x[a] = accts[a]
    BY <1>1 DEF Ledgers
<1> HIDE DEF x
<1> Total(x) + w.burned = Supply
  <2>1. \A a \in Addrs \ {Proposer} : x[a].Balance = accts[a].Balance
      BY <1>3
  <2>2. Total(x) = Total(accts) + (x[Proposer].Balance - accts[Proposer].Balance)
      BY <1>1, <1>3, <2>1, TotalChange, Zenon
  <2>3. Total(accts) \in Nat /\ accts[Proposer].Balance \in Nat
      BY <1>1, GenesisIs, HeldType, Zenon
  <2>4. Total(x) = Total(accts) + sumFee
      BY ONLY <1>1, <1>3, <2>2, <2>3
  <2>5. Total(accts) + sumFee + w.burned = Supply
      BY <1>1 DEF Resting
  <2> QED BY ONLY <1>1, <2>3, <2>4, <2>5
<1> Unused(x)
    BY <1>3, CreateAssumption, EVMAssumption, Zenon DEF IInv, Unused
<1> DEFINE c == [accts |-> x, objs |-> w.objs, burned |-> w.burned]
<1> hist' = Append(hist, c)
    BY DEF Commit
<1> c \in States /\ c.accts = x /\ c.burned = w.burned
    BY <1>3, WrapperIs, Zenon DEF IInv, TypeOK, States
<1> HIDE DEF c
<1>8. hist' \in Seq(States)
    BY DEF IInv, TypeOK
<1>9. ASSUME NEW h \in 1 .. Len(hist')
      PROVE  Total(hist'[h].accts) + hist'[h].burned = Supply /\ Unused(hist'[h].accts)
  <2> hist \in Seq(States)
      BY DEF IInv, TypeOK
  <2>2. CASE h = Len(hist) + 1
    <3>1. hist'[h] = c
        BY <2>2
    <3> QED BY <3>1
  <2>3. CASE h # Len(hist) + 1
    <3>1. h \in 1 .. Len(hist) /\ hist'[h] = hist[h]
        BY <2>3
    <3> QED BY <3>1 DEF IInv, HistoryOK
  <2> QED BY <2>2, <2>3
<1> w' \in Wrappers /\ w'.revs = << >> /\ w'.accessed = Nobody /\ w'.burned = w.burned
  <2>1. w' = NewStateDBWrapper(w.objs, w.burned)
      BY DEF Commit
  <2>2. w.objs \in Objects /\ w.burned \in Nat
      BY <1>1, WrapperIs, Zenon DEF IInv, TypeOK
  <2> QED BY ONLY <2>1, <2>2, NewWrapperIs
<1>11. TypeOK'
    BY <1>1, <1>3, <1>8, Zenon DEF Commit, TypeOK
<1>12. Resting'
  <2>1. Total(accts') + w'.burned = Supply /\ sumFee' = 0 /\ Supply' = Supply
      BY ZenonT(30) DEF Commit, Supply
  <2>2. Total(accts') \in Nat
      BY <1>3, GenesisIs, HeldType, Zenon
  <2>3. Total(accts') + sumFee' + w'.burned = Supply
      BY ONLY <1>1, <2>1, <2>2, w'.burned = w.burned
  <2> QED BY <2>1, <2>3 DEF Resting
<1>a. Settled'
  <2>1. hist \in Seq(States)
      BY DEF IInv, TypeOK
  <2>2. Len(hist') = Len(hist) + 1 /\ Len(hist) \in Nat /\ hist'[Len(hist) + 1] = c
      BY <2>1
  <2>3. Len(hist') # 0 /\ hist'[Len(hist')] = c
      BY <2>2
  <2> QED BY <2>3, ZenonT(30) DEF Settled, Committed, lastBlockHeight
<1>13. CallSeesCommitted' /\ sumFee' = 0 /\ Unused(accts')
    BY ZenonT(30) DEF Commit, CallSeesCommitted
<1>14. HistoryOK'
    BY <1>9 DEF HistoryOK, Supply
<1> QED BY <1>1, <1>11, <1>12, <1>a, <1>13, <1>14, ZenonT(30) DEF IInv

\* The node starts again from what is committed.
LEMMA RestartOK == ASSUME IInv, Restart PROVE IInv'
<1>1. tx' = None /\ sumFee' = 0 /\ hist' = hist /\ tx = None /\ phase' = "idle"
    BY DEF Restart
<1> lastBlockHeight \in 0 .. Len(hist)
    BY DEF IInv, TypeOK, lastBlockHeight
<1> DEFINE burned == Committed(lastBlockHeight).burned
<1>3. /\ accts' \in Ledgers /\ Total(accts') + burned = Supply /\ Unused(accts')
      /\ burned \in Nat
    BY CommittedIs DEF Restart
<1>4. w' \in Wrappers /\ w'.revs = << >> /\ w'.accessed = Nobody /\ w'.burned = burned
    BY OpenedIs DEF Restart
<1>a. Settled'
    BY <1>1, <1>4 DEF Settled, Committed, lastBlockHeight
<1> HIDE DEF burned
<1>5. TypeOK'
    BY <1>1, <1>3, <1>4 DEF IInv, TypeOK
<1>6. Resting'
  <2>1. Total(accts') \in Nat
      BY <1>3, GenesisIs, HeldType, Zenon
  <2>2. Total(accts') + sumFee' + w'.burned = Supply
      BY ONLY <1>1, <1>3, <1>4, <2>1
  <2> QED BY <1>4, <2>2 DEF Resting, Supply
<1>7. CallSeesCommitted' /\ HistoryOK'
    BY <1>1 DEF Restart, CallSeesCommitted, IInv, HistoryOK, Supply
<1> QED BY <1>1, <1>3, <1>5, <1>6, <1>7, <1>a, ZenonT(60) DEF IInv

\* Nonces of senders grow; the others stay, except of a contract that is created.
LEMMA UnusedKept ==
    ASSUME NEW l \in Ledgers, NEW m \in Ledgers, Unused(l),
           \A a \in Addrs : m[a].Nonce >= l[a].Nonce,
           \A x \in DOMAIN CreateAddress :
              x[2] >= m[x[1]].Nonce => m[CreateAddress[x]].Nonce = l[CreateAddress[x]].Nonce
    PROVE  Unused(m)
<1> SUFFICES ASSUME NEW x \in DOMAIN CreateAddress, x[2] >= m[x[1]].Nonce
             PROVE  m[CreateAddress[x]].Nonce = 0
    BY DEF Unused
<1> x[1] \in Addrs /\ x[2] \in Nat
    BY CreateAssumption, EVMAssumption
<1>2. m[x[1]].Nonce \in Nat /\ l[x[1]].Nonce \in Nat
    BY DEF Ledgers
<1>3. x[2] >= l[x[1]].Nonce
    BY <1>2
<1> QED BY <1>3 DEF Unused

\* An ordinary transfer.
LEMMA TransferTrxOK ==
    ASSUME IInv, NEW from \in Senders, NEW to \in Addrs, NEW amt \in Amounts, NEW gas \in Gases,
           TransferTrx(from, to, amt, gas)
    PROVE  IInv' /\ \A a \in Addrs : accts'[a].Nonce >= accts[a].Nonce
<1>1. /\ tx = None /\ tx' = None /\ Resting /\ accts \in Ledgers /\ sumFee \in Nat
      /\ from \in Addrs /\ amt \in Nat /\ gas \in Nat /\ accts[from].Balance >= gas + amt
      /\ phase' = "executing" /\ w' = w /\ hist' = hist /\ sumFee' = sumFee + gas
    BY EVMAssumption, Zenon DEF IInv, TransferTrx, TypeOK
<1> DEFINE paid == [accts EXCEPT ![from].Balance = @ - gas - amt, ![from].Nonce = @ + 1]
           done == [paid EXCEPT ![to].Balance = @ + amt]
<1> accts' = done
    BY Zenon DEF TransferTrx
<1>3. accts[from].Balance \in Nat /\ accts[from].Nonce \in Nat /\ accts[from].Balance - gas - amt \in Nat
    BY <1>1 DEF Ledgers
<1>4. /\ paid \in Ledgers /\ paid[from].Balance = accts[from].Balance - gas - amt
      /\ paid[from].Nonce = accts[from].Nonce + 1
      /\ \A a \in Addrs \ {from} : paid[a] = accts[a]
  <2> DEFINE bal == accts[from].Balance - gas - amt
             non == accts[from].Nonce + 1
  <2>1. bal \in Nat /\ non \in Nat /\ accts \in Ledgers /\ from \in Addrs
      BY <1>1, <1>3
  <2>2. paid = [accts EXCEPT ![from].Balance = bal, ![from].Nonce = non]
      BY Zenon
  <2> HIDE DEF bal, non, paid
  <2>3. /\ paid \in Ledgers /\ paid[from].Balance = bal /\ paid[from].Nonce = non
        /\ \A a \in Addrs \ {from} : paid[a] = accts[a]
      BY ONLY <2>1, <2>2, ZenonT(30) DEF Ledgers
  <2> QED BY <2>3 DEF bal, non
<1> HIDE DEF paid
<1>5. /\ done \in Ledgers /\ done[to].Balance = paid[to].Balance + amt
      /\ \A a \in Addrs : done[a].Nonce = paid[a].Nonce
      /\ \A a \in Addrs \ {to} : done[a] = paid[a]
    BY <1>1, <1>4 DEF Ledgers
<1> HIDE DEF done
<1>6. Total(done) + (sumFee + gas) + w.burned = Supply
  <2>1. Total(paid) = Total(accts) + (paid[from].Balance - accts[from].Balance)
    <3>1. \A a \in Addrs \ {from} : paid[a].Balance = accts[a].Balance
        BY <1>4
    <3> QED BY ONLY <1>1, <1>4, <3>1, TotalChange, ZenonT(60)
  <2>2. Total(done) = Total(paid) + (done[to].Balance - paid[to].Balance)
    <3>1. \A a \in Addrs \ {to} : done[a].Balance = paid[a].Balance
        BY <1>5
    <3> QED BY ONLY <1>4, <1>5, <3>1, to \in Addrs, TotalChange, ZenonT(30)
  <2>3. Total(accts) \in Nat /\ Total(paid) \in Nat /\ paid[to].Balance \in Nat
      BY <1>1, <1>4, GenesisIs, HeldType, ZenonT(60)
  <2>4. Total(accts) + sumFee + w.burned = Supply /\ w.burned \in Nat
      BY <1>1, WrapperIs DEF Resting, IInv, TypeOK
  <2>5. /\ sumFee \in Nat /\ gas \in Nat /\ amt \in Nat /\ accts[from].Balance \in Nat
        /\ paid[from].Balance = accts[from].Balance - gas - amt
        /\ done[to].Balance = paid[to].Balance + amt
      BY ONLY <1>1, <1>3, <1>4, <1>5, Zenon
  <2> QED BY ONLY <2>1, <2>2, <2>3, <2>4, <2>5
<1>7. /\ \A a \in Addrs : accts[a].Nonce \in Nat /\ done[a].Nonce >= accts[a].Nonce
      /\ \A a \in Addrs \ {from} : done[a].Nonce = accts[a].Nonce
  <2>1. \A a \in Addrs : accts[a].Nonce \in Nat
      BY <1>1 DEF Ledgers
  <2>2. \A a \in Addrs \ {from} : done[a].Nonce = accts[a].Nonce
      BY <1>4, <1>5
  <2>3. done[from].Nonce = accts[from].Nonce + 1
      BY <1>1, <1>4, <1>5, ZenonT(60)
  <2> QED BY ONLY <1>1, <2>1, <2>2, <2>3
<1>8. Unused(done)
  <2>1. \A x \in DOMAIN CreateAddress : done[CreateAddress[x]].Nonce = accts[CreateAddress[x]].Nonce
      BY <1>7, CreateAssumption
  <2>2. Unused(accts)
      BY DEF IInv
  <2> QED BY ONLY <1>1, <1>5, <1>7, <2>1, <2>2, UnusedKept, ZenonT(30)
<1>9. TypeOK'
    BY <1>1, <1>5 DEF IInv, TypeOK
<1>10. Resting'
    BY <1>1, <1>6 DEF Resting, Supply
<1>11. CallSeesCommitted' /\ HistoryOK'
    BY <1>1 DEF TransferTrx, CallSeesCommitted, IInv, HistoryOK, Supply
<1>12. IInv'
    BY <1>1, <1>8, <1>9, <1>10, <1>11, ZenonT(60) DEF IInv
<1> QED BY <1>7, <1>12

-----------------------------------------------------------------------------
(* The steps of a running transaction. *)

(* Nothing outside the EVM changes. *)
Within ==
    /\ tx # None \/ phase = "executing"
    /\ tx' \in Txs /\ tx' # None /\ answer' \in {answer, None}
    /\ phase' = phase /\ accts' = accts /\ sumFee' = sumFee /\ hist' = hist

\* A step within the EVM that leaves the transaction running.
LEMMA StillRunning ==
    ASSUME IInv, Within, w' \in Wrappers, Running(accts, tx', sumFee, w')
    PROVE  IInv' /\ tx' # None /\ accts' = accts
<1>1. TypeOK'
    BY DEF IInv, Within, TypeOK
<1>2. Running(accts, tx, sumFee, w)'
    BY ZenonT(30) DEF Within, Running, Alive, Sound, Supply, Restores, Ordered, Outermost, FramesOK,
           Creates, NonceOK
<1>3. Unused(accts)' /\ HistoryOK' /\ CallSeesCommitted'
    BY Zenon DEF IInv, Within, HistoryOK, CallSeesCommitted, Committed, Supply
<1>4. phase' # "idle"
    BY DEF IInv, Within
<1> QED BY <1>1, <1>2, <1>3, <1>4, Zenon DEF IInv, Within

\* What is known while a transaction runs.
LEMMA RunningIs ==
    ASSUME IInv, tx # None
    PROVE  /\ tx \in Txs /\ accts \in Ledgers /\ sumFee \in Nat /\ w \in Wrappers
           /\ Running(accts, tx, sumFee, w) /\ Alive(accts, tx, sumFee, w) /\ FramesOK(tx, w)
           /\ Len(tx.frames) \in Nat \ {0} /\ tx.frames \in Seq(Frames)
           /\ Top \in Frames /\ Top = tx.frames[Len(tx.frames)]
           /\ Top.addr \in Addrs /\ Top.addr \in DOMAIN w.accessed
<1> /\ tx \in Txs /\ accts \in Ledgers /\ sumFee \in Nat /\ w \in Wrappers
    /\ Running(accts, tx, sumFee, w)
    BY DEF IInv, TypeOK
<1> Alive(accts, tx, sumFee, w) /\ FramesOK(tx, w)
    BY DEF Running
<1> tx.frames \in Seq(Frames)
    BY DEF Txs
<1> Len(tx.frames) \in Nat \ {0}
    BY DEF FramesOK
<1> Top \in Frames /\ Top = tx.frames[Len(tx.frames)]
    BY DEF Top
<1>6. Top.addr \in Addrs /\ Top.addr \in DOMAIN w.accessed
    BY DEF FramesOK, Frames
<1> QED BY <1>6

(* The transactions t and tx are the same but for their frames. *)
SameTx(t) ==
    /\ t \in Txs /\ t.from = tx.from /\ t.to = tx.to /\ t.gas = tx.gas /\ t.snap = tx.snap
    /\ t.callee = tx.callee /\ t.before = tx.before

\* The frames do not matter to the soundness of the state.
LEMMA SameTxAlive ==
    ASSUME NEW t, SameTx(t), NEW s, Alive(accts, tx, sumFee, s)
    PROVE  Alive(accts, t, sumFee, s)
    BY DEF SameTx, Alive, Sound, NonceOK, Creates, Restores, Outermost

\* A transaction goes on with other frames and another state.
LEMMA RunsOn ==
    ASSUME IInv, tx # None, NEW t, SameTx(t), NEW s, Alive(accts, tx, sumFee, s), FramesOK(t, s)
    PROVE  Running(accts, t, sumFee, s)
<1>1. Alive(accts, t, sumFee, s)
    BY SameTxAlive
<1>2. Running(accts, tx, sumFee, w)
    BY RunningIs
<1> QED BY <1>1, <1>2, Zenon DEF Running, SameTx, Creates

\* The address of a call is listed (PrepareAccessList within the EVM).
LEMMA ListedIs ==
    ASSUME IInv, tx # None, NEW b \in Addrs, NEW s, s = Listed(b)
    PROVE  /\ s \in Wrappers /\ Alive(accts, tx, sumFee, s)
           /\ s.revs = w.revs /\ s.nextId = w.nextId
           /\ b \in DOMAIN s.accessed /\ DOMAIN w.accessed \subseteq DOMAIN s.accessed
           /\ \A a \in DOMAIN w.accessed : s.accessed[a] = w.accessed[a]
<1>1. CASE b \in w.acl
  <2>1. s = w /\ DOMAIN w.accessed = w.acl
      BY <1>1, RunningIs, Zenon DEF Listed, Alive
  <2> QED BY <1>1, <2>1, RunningIs, Zenon
<1>2. CASE b \notin w.acl
  <2>1. s = AddAddressToAccessList(w, accts, b)
      BY <1>2 DEF Listed
  <2>2. /\ tx \in Txs /\ accts \in Ledgers /\ sumFee \in Nat /\ w \in Wrappers
        /\ Alive(accts, tx, sumFee, w)
      BY RunningIs
  <2> QED BY ONLY <2>1, <2>2, b \in Addrs, AliveListed
<1> QED BY <1>1, <1>2, Zenon

(* The wrapper u has the snapshots and the addresses of s, and maybe more. *)
Grown(s, u) ==
    /\ Len(s.revs) \in Nat /\ Len(u.revs) \in Nat /\ Len(u.revs) >= Len(s.revs)
    /\ \A i \in 1 .. Len(s.revs) : u.revs[i] = s.revs[i]
    /\ DOMAIN s.accessed \subseteq DOMAIN u.accessed
    /\ \A a \in DOMAIN s.accessed : u.accessed[a] = s.accessed[a]

\* Frames stay valid when snapshots and addresses are only added.
LEMMA FramesKept ==
    ASSUME NEW t, NEW s, FramesOK(t, s), NEW u, Grown(s, u), NEW r, r.frames = t.frames
    PROVE  FramesOK(r, u)
<1>1. ASSUME NEW n \in 1 .. Len(t.frames)
      PROVE  /\ \E i \in 2 .. Len(u.revs) : u.revs[i].id = t.frames[n].id
             /\ t.frames[n].addr \in DOMAIN u.accessed
             /\ u.accessed[t.frames[n].addr] <= t.frames[n].id
  <2>1. PICK i \in 2 .. Len(s.revs) : s.revs[i].id = t.frames[n].id
      BY DEF FramesOK
  <2>2. i \in 2 .. Len(u.revs) /\ u.revs[i].id = t.frames[n].id
      BY <2>1 DEF Grown
  <2> QED BY <2>2, Zenon DEF FramesOK, Grown
<1> QED BY <1>1, ZenonT(30) DEF FramesOK

\* One more frame.
LEMMA FramesPushed ==
    ASSUME NEW t, NEW u, FramesOK(t, u), t.frames \in Seq(Frames), NEW f \in Frames,
           NEW r, r.frames = Append(t.frames, f),
           \E i \in 2 .. Len(u.revs) : u.revs[i].id = f.id,
           f.addr \in DOMAIN u.accessed, u.accessed[f.addr] <= f.id,
           \A n \in 1 .. Len(t.frames) : t.frames[n].id < f.id
    PROVE  FramesOK(r, u)
<1> DEFINE k == Len(t.frames)
<1>1. /\ k \in Nat /\ Len(r.frames) = k + 1 /\ r.frames[k + 1] = f
      /\ \A n \in 1 .. k : r.frames[n] = t.frames[n]
    OBVIOUS
<1> HIDE DEF k
<1>2. ASSUME NEW n \in 1 .. k + 1
      PROVE  /\ \E i \in 2 .. Len(u.revs) : u.revs[i].id = r.frames[n].id
             /\ r.frames[n].addr \in DOMAIN u.accessed
             /\ u.accessed[r.frames[n].addr] <= r.frames[n].id
  <2>1. CASE n = k + 1
      BY <1>1, <2>1, Zenon
  <2>2. CASE n # k + 1
    <3>1. n \in 1 .. k /\ r.frames[n] = t.frames[n]
        BY <1>1, <2>2
    <3> QED BY <3>1, Zenon DEF FramesOK, k
  <2> QED BY <2>1, <2>2, ZenonT(30)
<1>3. ASSUME NEW m \in 1 .. k + 1, NEW n \in 1 .. k + 1, m < n
      PROVE  r.frames[m].id < r.frames[n].id
  <2> m \in 1 .. k
      BY <1>1, <1>3
  <2>2. CASE n = k + 1
      BY <1>1, <2>2, Zenon DEF k
  <2>3. CASE n # k + 1
    <3>1. n \in 1 .. k
        BY <1>1, <2>3
    <3> QED BY <1>1, <1>3, <3>1, Zenon DEF FramesOK, k
  <2> QED BY <2>2, <2>3, ZenonT(30)
<1>4. k + 1 >= 1
    BY <1>1
<1> QED BY <1>1, <1>2, <1>3, <1>4, ZenonT(30) DEF FramesOK

\* The number of a frame is that of an earlier snapshot.
LEMMA FrameNumber ==
    ASSUME NEW t, NEW s \in Wrappers, FramesOK(t, s), Ordered(s), NEW n \in 1 .. Len(t.frames)
    PROVE  t.frames[n].id < s.nextId
<1>1. PICK i \in 2 .. Len(s.revs) : s.revs[i].id = t.frames[n].id
    BY DEF FramesOK
<1>2. i \in 1 .. Len(s.revs)
    BY <1>1
<1> QED BY <1>1, <1>2, Zenon DEF Ordered

\* A call that nothing can be paid for only lists the address.
LEMMA CallUnpaidOK ==
    ASSUME IInv, NEW b \in Addrs, tx # None, w' = Listed(b),
           tx' = [tx EXCEPT !.ops = @ + 1],
           UNCHANGED <<phase, accts, blockGasPool, sumFee, hist, txs, answer>>
    PROVE  IInv' /\ tx' # None /\ accts' = accts
<1> tx \in Txs /\ tx.ops \in Nat /\ Alive(accts, tx, sumFee, w) /\ FramesOK(tx, w) /\ w \in Wrappers
    BY RunningIs DEF Txs
<1> SameTx(tx') /\ tx'.frames = tx.frames
    BY DEF SameTx, Txs
<1>3. /\ w' \in Wrappers /\ Alive(accts, tx, sumFee, w') /\ w'.revs = w.revs
      /\ DOMAIN w.accessed \subseteq DOMAIN w'.accessed
      /\ \A a \in DOMAIN w.accessed : w'.accessed[a] = w.accessed[a]
    BY ListedIs
<1>4. Grown(w, w')
    BY <1>3, WrapperIs DEF Grown
<1>5. FramesOK(tx', w')
    BY <1>4, FramesKept, ZenonT(30)
<1>6. Running(accts, tx', sumFee, w')
    BY <1>3, <1>5, RunsOn, Zenon
<1>7. Within
    BY NoneAssumption DEF Within, SameTx
<1> QED BY <1>3, <1>6, <1>7, StillRunning, ZenonT(30)

\* A call with its amount enters a frame.
LEMMA CallPaidOK ==
    ASSUME IInv, NEW b \in Addrs, NEW amt \in Nat, tx # None, NEW s, s = Listed(b),
           s.objs[Top.addr].Balance >= amt,
           w' = Transfer(Snapshot(s), Top.addr, b, amt),
           tx' = [tx EXCEPT !.frames = Append(@, Frame(b, s.nextId)), !.ops = @ + 1],
           UNCHANGED <<phase, accts, blockGasPool, sumFee, hist, txs, answer>>
    PROVE  IInv' /\ tx' # None /\ accts' = accts
<1>1. /\ tx \in Txs /\ tx.ops \in Nat /\ w \in Wrappers /\ accts \in Ledgers /\ sumFee \in Nat
      /\ Alive(accts, tx, sumFee, w) /\ FramesOK(tx, w)
      /\ tx.frames \in Seq(Frames) /\ Top.addr \in Addrs /\ Top.addr \in DOMAIN w.accessed
    BY RunningIs DEF Txs
<1>2. /\ s \in Wrappers /\ Alive(accts, tx, sumFee, s)
      /\ s.revs = w.revs /\ s.nextId = w.nextId
      /\ b \in DOMAIN s.accessed /\ DOMAIN w.accessed \subseteq DOMAIN s.accessed
      /\ \A a \in DOMAIN w.accessed : s.accessed[a] = w.accessed[a]
    BY ListedIs
<1> DEFINE shot == Snapshot(s)
           f == Frame(b, s.nextId)
           from == Top.addr
<1> shot \in Wrappers /\ Alive(accts, tx, sumFee, shot) /\ OneMore(s, shot)
    BY <1>1, <1>2, AliveSnapshot, ZenonT(30)
<1>4. f \in Frames /\ f.addr = b /\ f.id = s.nextId
    BY <1>2, WrapperIs, Zenon DEF Frame, Frames
<1>5. w' = Transfer(shot, from, b, amt)
    OBVIOUS
<1> HIDE DEF shot, f, from
<1>6. /\ from \in Addrs /\ from \in DOMAIN shot.accessed /\ b \in DOMAIN shot.accessed
      /\ amt <= shot.objs[from].Balance
  <2>1. s.objs[from].Balance \in Nat /\ from \in Addrs
      BY <1>1, <1>2, WrapperIs, HeldType, ZenonT(30) DEF from
  <2> QED BY <1>1, <1>2, <2>1, Zenon DEF from, OneMore
<1>7. /\ SameBut(shot, w') /\ \A a \in Addrs : w'.objs[a].Nonce = shot.objs[a].Nonce
      /\ Worth(accts, w'.objs, w'.accessed) = Worth(accts, shot.objs, shot.accessed)
  <2>1. Moved(accts, shot, w', from, b)
      BY <1>1, <1>5, <1>6, TransferIs, Zenon
  <2> QED BY <1>6, <2>1, Zenon DEF Moved
<1>8. Alive(accts, tx, sumFee, w')
    BY <1>1, <1>7, AliveChanged, Zenon
<1> w' \in Wrappers /\ w'.revs = shot.revs /\ w'.accessed = s.accessed
    BY <1>7, Zenon DEF SameBut, OneMore
<1>10. SameTx(tx') /\ tx'.frames = Append(tx.frames, f)
  <2> DEFINE fs == Append(tx.frames, f)
  <2>1. fs \in Seq(Frames)
      BY <1>1, <1>4
  <2>2. tx' = [tx EXCEPT !.frames = fs, !.ops = tx.ops + 1]
      BY DEF f
  <2>3. tx.ops + 1 \in Nat
      BY <1>1
  <2> HIDE DEF fs
  <2>4. SameTx(tx') /\ tx'.frames = fs
      BY ONLY <1>1, <2>1, <2>2, <2>3, ZenonT(30) DEF SameTx, Txs
  <2> QED BY <2>4, Zenon DEF fs
<1>11. FramesOK(tx, w')
  <2>1. /\ Len(w.revs) \in Nat /\ Len(w'.revs) \in Nat /\ Len(w'.revs) >= Len(w.revs)
        /\ \A i \in 1 .. Len(w.revs) : w'.revs[i] = w.revs[i]
      BY <1>1, <1>2, WrapperIs DEF OneMore
  <2>2. Grown(w, w')
      BY <1>2, <2>1, Zenon DEF Grown
  <2> QED BY <1>1, <2>2, FramesKept, ZenonT(30)
<1>12. FramesOK(tx', w')
  <2>1. \E i \in 2 .. Len(w'.revs) : w'.revs[i].id = f.id
    <3>1. Len(w'.revs) \in 2 .. Len(w'.revs) /\ w'.revs[Len(w'.revs)].id = f.id
        BY <1>4, WrapperIs DEF OneMore
    <3> QED BY <3>1
  <2>2. f.addr \in DOMAIN w'.accessed /\ w'.accessed[f.addr] <= f.id
      BY <1>2, <1>4, Zenon DEF Alive, Ordered
  <2>3. \A n \in 1 .. Len(tx.frames) : tx.frames[n].id < f.id
      BY <1>1, <1>2, <1>4, FrameNumber, ZenonT(60) DEF Alive
  <2> QED BY ONLY <1>1, <1>4, <1>10, <1>11, <2>1, <2>2, <2>3, FramesPushed, ZenonT(30)
<1>13. Running(accts, tx', sumFee, w')
    BY <1>8, <1>10, <1>12, RunsOn, ZenonT(30)
<1>14. Within
    BY <1>10, NoneAssumption, ZenonT(60) DEF Within, SameTx
<1> QED BY <1>13, <1>14, StillRunning, Zenon

\* The frames are the same in what reverts use.
LEMMA FramesSame ==
    ASSUME NEW t, NEW s, FramesOK(t, s), NEW r, Len(r.frames) = Len(t.frames),
           \A n \in 1 .. Len(t.frames) :
              r.frames[n].id = t.frames[n].id /\ r.frames[n].addr = t.frames[n].addr
    PROVE  FramesOK(r, s)
    BY ZenonT(30) DEF FramesOK

(* What SELFDESTRUCT makes of wrapper s. *)
Given(s, from, b) == SetBalance(s, b, s.objs[b].Balance + s.objs[from].Balance)
Emptied(s, from) == SetSuicided(SetBalance(s, from, 0), from)
Destroyed(s, from, b) ==
    [Emptied(Given(s, from, b), from) EXCEPT
        !.burned = IF b = from THEN @ + s.objs[from].Balance ELSE @]

(* Only state objects differ and what was burned, which makes up for what they lost. *)
Burned(ledger, s, u) ==
    /\ SameList(s, u) /\ \A a \in Addrs : u.objs[a].Nonce = s.objs[a].Nonce
    /\ Worth(ledger, u.objs, u.accessed) + u.burned = Worth(ledger, s.objs, s.accessed) + s.burned

\* The contract's balance goes to the beneficiary and then the contract's is
\* gone: that of a contract which favours itself is burned.
LEMMA DestroyedIs ==
    ASSUME NEW s \in Wrappers, NEW ledger \in Ledgers, NEW from \in Addrs, NEW b \in Addrs,
           from \in DOMAIN s.accessed, b \in DOMAIN s.accessed,
           NEW u, u = Destroyed(s, from, b)
    PROVE  Burned(ledger, s, u)
<1> DEFINE bal == s.objs[from].Balance
           more == s.objs[b].Balance + bal
           g == Given(s, from, b)
           z == SetBalance(g, from, 0)
           e == SetSuicided(z, from)
           lost == IF b = from THEN bal ELSE 0
           acc == s.accessed
<1>1. s.objs \in Objects /\ s.burned \in Nat /\ bal \in Nat /\ s.objs[b].Balance \in Nat
    BY WrapperIs, HeldType, ZenonT(30)
<1>2. more \in Nat /\ lost \in Nat
    BY <1>1
<1>3. u = [e EXCEPT !.burned = IF b = from THEN @ + bal ELSE @]
    BY Zenon DEF Destroyed, Emptied
<1>4. g = SetBalance(s, b, more)
    BY DEF Given
<1> HIDE DEF g, more
<1>5. BalanceSet(s, b, more, g)
    BY <1>2, <1>4, SetBalanceIs, Zenon
<1>6. g \in Wrappers /\ g.objs \in Objects /\ g.accessed = acc /\ SameBut(s, g)
    BY <1>5, WrapperIs, Zenon DEF BalanceSet, SameBut
<1> HIDE DEF z
<1>7. BalanceSet(g, from, 0, z)
    BY <1>6, SetBalanceIs, 0 \in Nat, Zenon DEF z
<1>8. z \in Wrappers /\ z.objs \in Objects /\ z.accessed = acc /\ SameBut(g, z)
    BY <1>6, <1>7, WrapperIs, Zenon DEF BalanceSet, SameBut
<1> HIDE DEF e
<1>9. Marked(z, e)
    BY <1>8, SetSuicidedIs, Zenon DEF e
<1>10. e \in Wrappers /\ e.objs \in Objects /\ e.accessed = acc /\ SameBut(z, e)
    BY <1>8, <1>9, WrapperIs, Zenon DEF Marked, SameBut
<1>11. SameBut(s, e)
    BY <1>6, <1>8, <1>10, ZenonT(30) DEF SameBut
<1>12. \A a \in Addrs : e.objs[a].Nonce = s.objs[a].Nonce
    BY <1>5, <1>7, <1>9, Zenon DEF BalanceSet, Marked
<1> HIDE DEF bal, lost, acc
<1>13. u = [e EXCEPT !.burned = s.burned + lost]
  <2>1. e.burned = s.burned
      BY <1>11 DEF SameBut
  <2>2. CASE b = from
      BY <1>3, <2>1, <2>2, Zenon DEF lost, bal
  <2>3. CASE b # from
    <3>1. s.burned + lost = s.burned
        BY <1>1, <2>3 DEF lost
    <3> QED BY <1>3, <2>1, <2>3, <3>1, Zenon
  <2> QED BY <2>2, <2>3, Zenon
<1>14. /\ u \in Wrappers /\ u.burned = s.burned + lost /\ u.objs = e.objs /\ u.accessed = acc
       /\ u.acl = e.acl /\ u.revs = e.revs /\ u.nextId = e.nextId /\ u.snapshot = e.snapshot
  <2>1. s.burned + lost \in Nat
      BY <1>1, <1>2
  <2> QED BY ONLY <1>10, <1>13, <2>1, ZenonT(30) DEF Wrappers
<1>15. SameList(s, u)
    BY <1>11, <1>14, ZenonT(30) DEF SameBut, SameList, acc
<1>16. Worth(ledger, g.objs, acc) = Worth(ledger, s.objs, acc) + bal
  <2>1. b \in Addrs \intersect DOMAIN acc
      BY DEF acc
  <2>2. \A a \in Addrs \ {b} : g.objs[a].Balance = s.objs[a].Balance
      BY <1>5, Zenon DEF BalanceSet
  <2>3. Worth(ledger, g.objs, acc)
            = Worth(ledger, s.objs, acc) + (g.objs[b].Balance - s.objs[b].Balance)
      BY ONLY <1>1, <1>6, <2>1, <2>2, ledger \in Ledgers, WorthChange
  <2>4. g.objs[b].Balance = s.objs[b].Balance + bal
      BY <1>5, Zenon DEF BalanceSet, more, bal
  <2>5. Worth(ledger, s.objs, acc) \in Nat
      BY <1>1, HeldType, Zenon
  <2> QED BY ONLY <1>1, <2>3, <2>4, <2>5
<1>17. Worth(ledger, z.objs, acc) + bal + lost = Worth(ledger, g.objs, acc)
  <2>1. from \in Addrs \intersect DOMAIN acc
      BY DEF acc
  <2>2. \A a \in Addrs \ {from} : z.objs[a].Balance = g.objs[a].Balance
      BY <1>7, Zenon DEF BalanceSet
  <2>3. Worth(ledger, z.objs, acc)
            = Worth(ledger, g.objs, acc) + (z.objs[from].Balance - g.objs[from].Balance)
      BY ONLY <1>6, <1>8, <2>1, <2>2, ledger \in Ledgers, WorthChange
  <2>4. z.objs[from].Balance = 0
      BY <1>7 DEF BalanceSet
  <2>5. g.objs[from].Balance = bal + lost
    <3>1. CASE b = from
        BY <1>5, <3>1, Zenon DEF BalanceSet, more, lost, bal
    <3>2. CASE b # from
      <4>1. g.objs[from].Balance = bal /\ lost = 0
          BY <1>5, <3>2, Zenon DEF BalanceSet, lost, bal
      <4> QED BY ONLY <1>1, <4>1
    <3> QED BY <3>1, <3>2, Zenon
  <2>6. Worth(ledger, g.objs, acc) \in Nat
      BY <1>6, HeldType, Zenon
  <2> QED BY ONLY <1>1, <1>2, <2>3, <2>4, <2>5, <2>6
<1>18. Worth(ledger, e.objs, acc) = Worth(ledger, z.objs, acc)
  <2>1. \A a \in Addrs : Held(ledger, e.objs, acc)[a] = Held(ledger, z.objs, acc)[a]
      BY <1>9, ZenonT(30) DEF Held, Marked, SameBalances
  <2> QED BY ONLY <1>8, <1>10, <2>1, ledger \in Ledgers, WorthSame
<1>19. Worth(ledger, e.objs, acc) + (s.burned + lost) = Worth(ledger, s.objs, acc) + s.burned
  <2>1. Worth(ledger, s.objs, acc) \in Nat /\ Worth(ledger, z.objs, acc) \in Nat
      BY <1>1, <1>8, HeldType, Zenon
  <2> QED BY ONLY <1>1, <1>2, <1>16, <1>17, <1>18, <2>1
<1>20. \A a \in Addrs : u.objs[a].Nonce = s.objs[a].Nonce
    BY <1>12, <1>14, Zenon
<1>21. Worth(ledger, u.objs, u.accessed) + u.burned = Worth(ledger, s.objs, s.accessed) + s.burned
    BY <1>14, <1>19, Zenon DEF acc
<1> QED BY <1>15, <1>20, <1>21, Zenon DEF Burned

\* What is burned stays counted: the transaction is as sound as before.
LEMMA AliveBurned ==
    ASSUME NEW ledger \in Ledgers, NEW t \in Txs, NEW fees \in Nat, NEW s \in Wrappers,
           Alive(ledger, t, fees, s), NEW u, Burned(ledger, s, u)
    PROVE  Alive(ledger, t, fees, u)
<1>1. /\ SameList(s, u) /\ u \in Wrappers /\ u.accessed = s.accessed
      /\ DOMAIN s.accessed \subseteq Addrs /\ t.gas \in Nat
    BY WrapperIs, AccessIs, ZenonT(30) DEF Burned, SameList, Txs
<1>2. /\ Worth(ledger, s.objs, s.accessed) + t.gas + fees + s.burned = Supply
      /\ Worth(ledger, u.objs, u.accessed) + u.burned = Worth(ledger, s.objs, s.accessed) + s.burned
      /\ t.from \in DOMAIN s.accessed
      /\ \A a \in DOMAIN s.accessed : NonceOK(t, a, ledger[a].Nonce, s.objs[a].Nonce)
    BY Zenon DEF Alive, Sound, Burned
<1>3. /\ Worth(ledger, s.objs, s.accessed) \in Nat /\ s.burned \in Nat
      /\ Worth(ledger, u.objs, u.accessed) \in Nat /\ u.burned \in Nat
    BY <1>1, WrapperIs, HeldType, ZenonT(30)
<1>4. Worth(ledger, u.objs, u.accessed) + t.gas + fees + u.burned = Supply
    BY ONLY <1>1, <1>2, <1>3, fees \in Nat
<1>5. \A a \in DOMAIN s.accessed : NonceOK(t, a, ledger[a].Nonce, u.objs[a].Nonce)
    BY <1>1, <1>2, Zenon DEF Burned
<1>6. Sound(ledger, t, fees, u.objs, u.accessed, u.burned)
    BY <1>1, <1>2, <1>4, <1>5, Zenon DEF Sound
<1> QED BY <1>1, <1>6, AliveSound, Zenon

\* A contract destroys itself.
LEMMA SelfDestructOK ==
    ASSUME IInv, NEW b \in Addrs, SelfDestruct(b)
    PROVE  IInv' /\ tx' # None /\ accts' = accts
<1> DEFINE s == Listed(b)
           from == Top.addr
           k == Len(tx.frames)
<1> tx # None
    BY ZenonT(30) DEF SelfDestruct
<1>1. /\ tx \in Txs /\ tx.ops \in Nat /\ w \in Wrappers /\ accts \in Ledgers /\ sumFee \in Nat
      /\ Alive(accts, tx, sumFee, w) /\ FramesOK(tx, w) /\ k \in Nat \ {0}
      /\ tx.frames \in Seq(Frames) /\ from \in Addrs /\ from \in DOMAIN w.accessed
    BY RunningIs DEF Txs
<1>2. w' = Destroyed(s, from, b)
    BY ZenonT(30) DEF SelfDestruct, Destroyed, Emptied, Given, SetBalance, SetSuicided
<1>3. tx' = [tx EXCEPT !.frames[k].halted = TRUE, !.ops = @ + 1]
    BY ZenonT(30) DEF SelfDestruct
<1>4. UNCHANGED <<phase, accts, blockGasPool, sumFee, hist, txs, answer>>
    BY ZenonT(30) DEF SelfDestruct
<1> HIDE DEF s
<1>5. /\ s \in Wrappers /\ Alive(accts, tx, sumFee, s)
      /\ s.revs = w.revs /\ b \in DOMAIN s.accessed
      /\ DOMAIN w.accessed \subseteq DOMAIN s.accessed
      /\ \A a \in DOMAIN w.accessed : s.accessed[a] = w.accessed[a]
    BY ListedIs DEF s
<1> HIDE DEF from
<1>6. from \in DOMAIN s.accessed
    BY <1>1, <1>5
<1>7. Burned(accts, s, w')
    BY <1>1, <1>2, <1>5, <1>6, DestroyedIs, ZenonT(60)
<1> w' \in Wrappers /\ w'.accessed = s.accessed /\ w'.revs = w.revs
    BY <1>5, <1>7, ZenonT(60) DEF Burned, SameList
<1>13. Alive(accts, tx, sumFee, w')
    BY <1>1, <1>5, <1>7, AliveBurned, ZenonT(60)
<1> DEFINE fs == [tx.frames EXCEPT ![k].halted = TRUE]
<1>14. /\ fs \in Seq(Frames) /\ Len(fs) = k
       /\ \A n \in 1 .. k : fs[n].id = tx.frames[n].id /\ fs[n].addr = tx.frames[n].addr
  <2>1. DOMAIN tx.frames = 1 .. k /\ k \in 1 .. k /\ \A n \in 1 .. k : tx.frames[n] \in Frames
      BY <1>1
  <2>2. /\ DOMAIN fs = 1 .. k
        /\ \A n \in 1 .. k : fs[n].id = tx.frames[n].id /\ fs[n].addr = tx.frames[n].addr
      BY <2>1 DEF Frames
  <2>3. \A n \in 1 .. k : fs[n] \in Frames
      BY <2>1, ZenonT(30) DEF Frames
  <2>4. fs = [n \in 1 .. k |-> fs[n]]
      BY <2>1, ZenonT(30)
  <2> HIDE DEF fs
  <2>5. fs \in [1 .. k -> Frames]
      BY <2>3, <2>4
  <2>6. fs \in Seq(Frames) /\ Len(fs) = k
      BY <1>1, <2>5
  <2> QED BY <2>2, <2>6, ZenonT(60)
<1> SameTx(tx') /\ tx'.frames = fs
  <2>1. tx' = [tx EXCEPT !.frames = fs, !.ops = tx.ops + 1] /\ tx.ops + 1 \in Nat
      BY <1>1, <1>3
  <2> HIDE DEF fs
  <2> QED BY ONLY <1>1, <1>14, <2>1, ZenonT(30) DEF SameTx, Txs
<1> HIDE DEF fs
<1>16. FramesOK(tx, w')
  <2>1. Grown(w, w')
      BY <1>1, <1>5, WrapperIs DEF Grown
  <2> QED BY <1>1, <2>1, FramesKept, ZenonT(60)
<1>17. FramesOK(tx', w')
    BY <1>14, <1>16, FramesSame, ZenonT(60)
<1>18. Running(accts, tx', sumFee, w')
    BY <1>13, <1>17, RunsOn, ZenonT(60)
<1>19. Within
    BY <1>4, NoneAssumption, ZenonT(60) DEF Within, SameTx
<1> QED BY <1>18, <1>19, StillRunning, Zenon

\* A contract calls an address.
LEMMA CallOK ==
    ASSUME IInv, NEW b \in Addrs, NEW amt \in Amounts, Call(b, amt)
    PROVE  IInv' /\ tx' # None /\ accts' = accts
<1> DEFINE s == Listed(b)
<1> tx # None /\ UNCHANGED <<phase, accts, blockGasPool, sumFee, hist, txs, answer>>
    BY DEF Call
<1>2. amt \in Nat
    BY EVMAssumption
<1>3. CASE CanTransfer(s, Top.addr, amt)
  <2>1. /\ w' = Transfer(Snapshot(s), Top.addr, b, amt)
        /\ tx' = [tx EXCEPT !.frames = Append(@, Frame(b, s.nextId)), !.ops = @ + 1]
        /\ s.objs[Top.addr].Balance >= amt
      BY <1>3, Zenon DEF Call, CanTransfer
  <2> QED BY <1>2, <2>1, CallPaidOK, ZenonT(30)
<1>4. CASE ~CanTransfer(s, Top.addr, amt)
  <2>1. w' = Listed(b) /\ tx' = [tx EXCEPT !.ops = @ + 1]
      BY <1>4 DEF Call
  <2> QED BY <2>1, CallUnpaidOK
<1> QED BY <1>3, <1>4

(* The frames of r are those of t but the last. *)
AllButLast(t, r) ==
    /\ r.frames \in Seq(Frames) /\ Len(r.frames) = Len(t.frames) - 1
    /\ \A n \in 1 .. Len(r.frames) : r.frames[n] = t.frames[n]

\* A frame is left: the others stay.
LEMMA FramesPopped ==
    ASSUME NEW t, NEW u, FramesOK(t, u), t.frames \in Seq(Frames), Len(t.frames) > 1,
           NEW r, r.frames = Pop(t.frames)
    PROVE  FramesOK(r, u) /\ AllButLast(t, r)
<1> DEFINE k == Len(t.frames)
           j == k - 1
<1>1. k \in Nat /\ k > 1
    OBVIOUS
<1> HIDE DEF k
<1> j \in Nat \ {0} /\ j < k
    BY <1>1
<1>2. r.frames \in Seq(Frames) /\ Len(r.frames) = j /\ \A n \in 1 .. j : r.frames[n] = t.frames[n]
    BY DEF Pop, k
<1>3. \A n \in 1 .. j : n \in 1 .. k
    BY <1>1
<1> HIDE DEF j
<1>4. Len(r.frames) >= 1
    BY ONLY <1>2, j \in Nat \ {0}
<1>5. FramesOK(r, u)
    BY <1>2, <1>3, <1>4, ZenonT(30) DEF FramesOK, k
<1> QED BY <1>2, <1>5 DEF j, k, AllButLast

\* Other frames are the same transaction still.
LEMMA SameTxFrames ==
    ASSUME tx \in Txs, NEW fs \in Seq(Frames), NEW t, t = [tx EXCEPT !.frames = fs]
    PROVE  SameTx(t) /\ t.frames = fs
    BY Zenon DEF SameTx, Txs

\* A frame returns.
LEMMA ReturnOK == ASSUME IInv, Return PROVE IInv' /\ tx' # None /\ accts' = accts
<1> DEFINE fs == Pop(tx.frames)
<1> /\ tx # None /\ Len(tx.frames) > 1 /\ tx' = [tx EXCEPT !.frames = fs] /\ w' = w
    /\ UNCHANGED <<phase, accts, sumFee, hist, answer>>
    BY DEF Return
<1> /\ tx \in Txs /\ w \in Wrappers /\ Alive(accts, tx, sumFee, w) /\ FramesOK(tx, w)
    /\ tx.frames \in Seq(Frames)
    BY RunningIs
<1> DEFINE r == [frames |-> fs]
<1> FramesOK(r, w) /\ fs \in Seq(Frames)
  <2>1. r.frames = Pop(tx.frames)
      OBVIOUS
  <2> QED BY <2>1, FramesPopped DEF AllButLast
<1> HIDE DEF fs
<1> SameTx(tx') /\ tx'.frames = fs
    BY SameTxFrames
<1>5. FramesOK(tx', w)
    BY DEF FramesOK
<1>6. Running(accts, tx', sumFee, w')
    BY <1>5, RunsOn
<1>7. Within
    BY NoneAssumption, Zenon DEF Within, SameTx
<1> QED BY <1>6, <1>7, StillRunning, ZenonT(60)

\* The frames below one that is reverted outlive the revert.
LEMMA FramesReverted ==
    ASSUME NEW t, NEW s \in Wrappers, FramesOK(t, s), Ordered(s), t.frames \in Seq(Frames),
           NEW i \in 2 .. Len(s.revs), s.revs[i].id = t.frames[Len(t.frames)].id,
           NEW r, FramesOK(r, s), AllButLast(t, r), NEW u, CutBack(s, i, u)
    PROVE  FramesOK(r, u)
<1> /\ Len(r.frames) = Len(t.frames) - 1 /\ \A n \in 1 .. Len(r.frames) : r.frames[n] = t.frames[n]
    /\ u.accessed = Until(s.accessed, s.revs[i].id) /\ Len(u.revs) = i - 1
    /\ \A j \in 1 .. i - 1 : u.revs[j] = s.revs[j]
    BY ZenonT(60) DEF AllButLast, CutBack
<1> DEFINE k == Len(t.frames)
           id == s.revs[i].id
<1>1. /\ s.revs \in Seq(Revisions) /\ s.accessed \in Accesses /\ i \in 1 .. Len(s.revs)
      /\ Len(s.revs) \in Nat /\ \A j \in 1 .. Len(s.revs) : s.revs[j] \in Revisions
    BY WrapperIs
<1>2. \A j \in 1 .. Len(s.revs) : s.revs[j].id \in Nat
    BY <1>1, ZenonT(60) DEF Revisions
<1> id \in Nat /\ k \in Nat
    BY <1>1, <1>2
<1>4. ASSUME NEW n \in 1 .. Len(r.frames)
      PROVE  /\ \E j \in 2 .. Len(u.revs) : u.revs[j].id = r.frames[n].id
             /\ r.frames[n].addr \in DOMAIN u.accessed
             /\ u.accessed[r.frames[n].addr] <= r.frames[n].id
  <2> DEFINE a == r.frames[n].addr
             m == r.frames[n].id
  <2>1. PICK j \in 2 .. Len(s.revs) : s.revs[j].id = m
      BY Zenon DEF FramesOK
  <2> m < id
    <3>1. n \in 1 .. k /\ k \in 1 .. k /\ n < k
        OBVIOUS
    <3> QED BY <3>1, ZenonT(90) DEF FramesOK
  <2> m \in Nat /\ j \in 1 .. Len(s.revs)
      BY <1>1, <1>2, <2>1
  <2>4. j < i
    <3>1. CASE j > i
      <4>1. id < m
          BY <1>1, <2>1, <3>1, ZenonT(30) DEF Ordered
      <4> QED BY <4>1
    <3>2. CASE j = i
        BY <2>1, <3>2
    <3> QED BY <1>1, <3>1, <3>2
  <2>5. j \in 2 .. Len(u.revs) /\ u.revs[j].id = m
      BY <1>1, <2>1, <2>4
  <2>6. a \in DOMAIN s.accessed /\ s.accessed[a] <= m
      BY Zenon DEF FramesOK
  <2>7. s.accessed[a] \in Nat
      BY <1>1, <2>6, AccessIs, ZenonT(60)
  <2> HIDE DEF a, m, id
  <2>8. s.accessed[a] <= id
      BY <2>6, <2>7
  <2>9. a \in DOMAIN u.accessed /\ u.accessed[a] = s.accessed[a]
    <3>1. u.accessed = Until(s.accessed, id)
        BY DEF id
    <3>2. /\ DOMAIN Until(s.accessed, id) = {b \in DOMAIN s.accessed : s.accessed[b] <= id}
          /\ \A b \in DOMAIN Until(s.accessed, id) : Until(s.accessed, id)[b] = s.accessed[b]
        BY <1>1, UntilIs, ZenonT(30)
    <3> QED BY ONLY <2>6, <2>8, <3>1, <3>2, ZenonT(30)
  <2> QED BY <2>5, <2>6, <2>9, Zenon DEF a, m
<1> QED BY <1>4, ZenonT(60) DEF FramesOK

\* An inner frame is reverted.
LEMMA RevertOK == ASSUME IInv, Revert PROVE IInv' /\ tx' # None /\ accts' = accts
<1> DEFINE k == Len(tx.frames)
           fs == Pop(tx.frames)
           r == [frames |-> fs]
<1>1. /\ tx # None /\ k > 1 /\ w' = RevertToSnapshot(w, Top.id)
      /\ tx' = [tx EXCEPT !.frames = fs] /\ UNCHANGED <<phase, accts, sumFee, hist, answer>>
    BY DEF Revert
<1>2. /\ tx \in Txs /\ w \in Wrappers /\ accts \in Ledgers /\ sumFee \in Nat
      /\ Alive(accts, tx, sumFee, w) /\ FramesOK(tx, w) /\ tx.frames \in Seq(Frames)
      /\ k \in Nat \ {0} /\ Top = tx.frames[k]
    BY <1>1, RunningIs
<1>3. PICK i \in 2 .. Len(w.revs) : w.revs[i].id = tx.frames[k].id
    BY <1>2 DEF FramesOK
<1>4. w' \in Wrappers /\ Alive(accts, tx, sumFee, w') /\ CutBack(w, i, w')
  <2>1. w' = RevertToSnapshot(w, w.revs[i].id)
      BY <1>1, <1>2, <1>3, ZenonT(60)
  <2> QED BY <1>2, <2>1, AliveReverted, ZenonT(60)
<1>5. FramesOK(r, w) /\ AllButLast(tx, r) /\ fs \in Seq(Frames)
  <2>1. r.frames = Pop(tx.frames)
      OBVIOUS
  <2> HIDE DEF fs, r
  <2>2. FramesOK(r, w) /\ AllButLast(tx, r)
      BY ONLY <1>1, <1>2, <2>1, FramesPopped, ZenonT(30)
  <2> QED BY <2>1, <2>2, ZenonT(60) DEF fs, AllButLast
<1> r.frames = fs
    OBVIOUS
<1> HIDE DEF fs, r
<1>6. FramesOK(r, w')
  <2>1. Ordered(w)
      BY <1>2 DEF Alive
  <2> QED BY ONLY <1>2, <1>3, <1>4, <1>5, <2>1, FramesReverted, ZenonT(60)
<1>7. SameTx(tx') /\ tx'.frames = fs
    BY <1>1, <1>2, <1>5, SameTxFrames, ZenonT(30)
<1>8. FramesOK(tx', w')
    BY <1>6, <1>7, ZenonT(60) DEF FramesOK
<1>9. Running(accts, tx', sumFee, w')
    BY <1>1, <1>4, <1>7, <1>8, RunsOn, ZenonT(30)
<1>10. Within
    BY <1>1, <1>7, NoneAssumption, ZenonT(60) DEF Within, SameTx
<1> QED BY <1>4, <1>9, <1>10, StillRunning, ZenonT(60)

-----------------------------------------------------------------------------
(* The ends of a transaction. *)

\* A contract transaction is over: the wrapper is at rest again.
LEMMA Over ==
    ASSUME IInv, phase' = phase, phase = "executing", hist' = hist, tx' = None,
           answer' \in {None, answer}, w' \in Wrappers, w'.revs = << >>, w'.accessed = Nobody,
           accts' \in Ledgers, sumFee' \in Nat, Total(accts') + sumFee' + w'.burned = Supply,
           Unused(accts')
    PROVE  IInv'
<1>1. TypeOK'
    BY DEF IInv, TypeOK
<1>2. Resting'
    BY DEF Resting, Supply
<1>3. CallSeesCommitted' /\ HistoryOK'
    BY ZenonT(60) DEF IInv, CallSeesCommitted, Committed, HistoryOK, Supply
<1> QED BY <1>1, <1>2, <1>3, ZenonT(60) DEF IInv

\* A contract transaction is undone.
LEMMA UndoneOver ==
    ASSUME IInv, phase' = phase, phase = "executing", hist' = hist, tx' = None,
           answer' \in {None, answer}, NEW s, Undone(s, accts, w', accts'), sumFee' = sumFee,
           Total(accts) + sumFee + s.revs[1].burned = Supply
    PROVE  IInv'
<1>1. accts \in Ledgers /\ sumFee \in Nat /\ Unused(accts)
    BY DEF IInv, TypeOK
<1> QED BY <1>1, Over, ZenonT(60) DEF Undone

\* The oldest snapshot is the only one with its number.
LEMMA OldestSnapshot ==
    ASSUME NEW s \in Wrappers, Ordered(s), Len(s.revs) >= 1
    PROVE  IsSnapshot(s, 1, s.revs[1].id)
<1>1. Len(s.revs) \in Nat /\ \A j \in 1 .. Len(s.revs) : s.revs[j] \in Revisions
    BY WrapperIs
<1>2. 1 \in 1 .. Len(s.revs) /\ \A j \in 1 .. Len(s.revs) : s.revs[j].id \in Nat
    BY <1>1 DEF Revisions
<1>3. ASSUME NEW j \in 1 .. Len(s.revs), s.revs[j].id = s.revs[1].id PROVE j = 1
  <2>1. ~(1 < j)
      BY <1>2, <1>3 DEF Ordered
  <2> QED BY <1>1, <2>1
<1> QED BY <1>2, <1>3, ZenonT(60) DEF IsSnapshot

\* A contract that fails is undone, in the ledger and in the state objects.
LEMMA FailOK ==
    ASSUME IInv, NEW used, Fail(used)
    PROVE  IInv' /\ accts' = accts /\ accts' = tx.before.accts /\ w'.objs = tx.before.objs
<1> DEFINE s == RevertToSnapshot(w, Top.id)
<1>1. /\ tx # None /\ Len(tx.frames) = 1 /\ Failed(s, tx.snap) /\ tx' = None
      /\ UNCHANGED <<phase, sumFee, hist, txs, answer>> /\ phase = "executing"
    BY DEF Fail, IInv, TypeOK
<1>2. /\ tx \in Txs /\ w \in Wrappers /\ accts \in Ledgers /\ sumFee \in Nat
      /\ Alive(accts, tx, sumFee, w) /\ FramesOK(tx, w) /\ Running(accts, tx, sumFee, w)
      /\ Top = tx.frames[1] /\ Len(w.revs) \in Nat
    BY <1>1, RunningIs, WrapperIs
<1>3. PICK i \in 2 .. Len(w.revs) : w.revs[i].id = tx.frames[1].id
    BY <1>1, <1>2 DEF FramesOK
<1>4. s = RevertToSnapshot(w, w.revs[i].id)
    BY <1>2, <1>3, ZenonT(60)
<1> HIDE DEF s
<1>5. s \in Wrappers /\ Alive(accts, tx, sumFee, s)
    BY <1>2, <1>4, AliveReverted, ZenonT(30)
<1>6. /\ IsSnapshot(s, 1, tx.snap) /\ AllSince(s, tx.snap) /\ s.revs[1].objs = tx.before.objs
      /\ s.revs[1].burned = tx.before.burned
    BY <1>5, OldestSnapshot, ZenonT(60) DEF Alive, Outermost, AllSince
<1>7. Undone(s, accts, w', accts')
    BY <1>1, <1>2, <1>5, <1>6, FailedIs, ZenonT(60) DEF Failed
<1>8. Total(accts) + sumFee + s.revs[1].burned = Supply /\ tx.before.accts = accts
    BY <1>2, <1>6 DEF Running
<1>9. IInv'
    BY <1>1, <1>7, <1>8, UndoneOver, ZenonT(30)
<1> QED BY <1>6, <1>7, <1>8, <1>9, ZenonT(60) DEF Undone

\* When a contract is done, nonces have grown, and its address is taken.
LEMMA NoncesLeft ==
    ASSUME IInv, tx # None, NEW v \in Ledgers,
           \A a \in DOMAIN w.accessed : v[a].Nonce = w.objs[a].Nonce,
           \A a \in Addrs \ DOMAIN w.accessed : v[a].Nonce = accts[a].Nonce
    PROVE  Unused(v) /\ \A a \in Addrs : v[a].Nonce >= accts[a].Nonce
<1>1. /\ tx \in Txs /\ accts \in Ledgers /\ Running(accts, tx, sumFee, w) /\ Unused(accts)
      /\ \A a \in Addrs : accts[a].Nonce \in Nat
    BY RunningIs, Zenon DEF IInv, Ledgers
<1>2. /\ tx.from \in Senders /\ tx.from \in DOMAIN w.accessed
      /\ \A a \in DOMAIN w.accessed : NonceOK(tx, a, accts[a].Nonce, w.objs[a].Nonce)
    BY <1>1, ZenonT(60) DEF Running, Alive, Sound, Txs
<1>3. \A a \in Addrs : v[a].Nonce >= accts[a].Nonce
    BY <1>1, <1>2 DEF NonceOK
<1>4. ASSUME NEW x \in DOMAIN CreateAddress, x[2] >= v[x[1]].Nonce
      PROVE  v[CreateAddress[x]].Nonce = accts[CreateAddress[x]].Nonce
  <2> DEFINE c == CreateAddress[x]
             y == <<tx.from, accts[tx.from].Nonce>>
  <2>1. c \in Addrs /\ c # tx.from
      BY <1>2, CreateAssumption, ZenonT(60)
  <2>2. CASE Creates(tx) /\ c = tx.callee
    <3>1. y \in DOMAIN CreateAddress /\ c = CreateAddress[y]
        BY <1>1, <2>2, ZenonT(60) DEF Running
    <3>2. x = y
        BY <3>1, CreateAssumption, ZenonT(60)
    <3>3. x[1] = tx.from /\ x[2] = accts[tx.from].Nonce
        BY <3>2
    <3>4. v[tx.from].Nonce = accts[tx.from].Nonce + 1 /\ accts[tx.from].Nonce \in Nat
        BY <1>1, <1>2, EVMAssumption, ZenonT(60) DEF NonceOK
    <3> QED BY ONLY <1>4, <3>3, <3>4
  <2>3. CASE ~(Creates(tx) /\ c = tx.callee)
    <3> HIDE DEF c
    <3> QED BY <1>2, <2>1, <2>3, ZenonT(30) DEF NonceOK, c
  <2> QED BY <2>2, <2>3, ZenonT(60)
<1> QED BY ONLY <1>1, <1>3, <1>4, v \in Ledgers, UnusedKept, ZenonT(30)

(* Only balances differ, and u is worth the rest of the gas more than s. *)
Refunded(ledger, s, rest, u) ==
    /\ SameBut(s, u) /\ \A b \in Addrs : u.objs[b].Nonce = s.objs[b].Nonce
    /\ Worth(ledger, u.objs, u.accessed) = Worth(ledger, s.objs, s.accessed) + rest

\* The unused gas comes back and a new contract gets its code.
LEMMA RefundIs ==
    ASSUME NEW ledger \in Ledgers, NEW s \in Wrappers, NEW from \in Addrs, from \in DOMAIN s.accessed,
           NEW rest \in Nat, NEW c \in Addrs, NEW code \in BOOLEAN,
           NEW r, r = SetBalance(s, from, s.objs[from].Balance + rest), NEW u, u = SetCode(r, c, code)
    PROVE  Refunded(ledger, s, rest, u)
<1>1. s.objs \in Objects /\ s.objs[from].Balance \in Nat /\ s.objs[from].Balance + rest \in Nat
  <2>1. s.objs \in Objects
      BY WrapperIs
  <2>2. s.objs[from].Balance \in Nat
      BY <2>1 DEF Objects
  <2> QED BY <2>1, <2>2
<1>2. /\ SameBut(s, r) /\ r.objs[from].Balance = s.objs[from].Balance + rest
      /\ \A b \in Addrs : r.objs[b].Nonce = s.objs[b].Nonce
      /\ \A b \in Addrs \ {from} : r.objs[b] = s.objs[b]
  <2>1. BalanceSet(s, from, s.objs[from].Balance + rest, r)
      BY <1>1, SetBalanceIs, Zenon
  <2> QED BY <2>1, Zenon DEF BalanceSet
<1>3. r \in Wrappers /\ r.objs \in Objects /\ r.accessed = s.accessed
    BY <1>2, WrapperIs, ZenonT(60) DEF SameBut
<1>4. Worth(ledger, r.objs, s.accessed) = Worth(ledger, s.objs, s.accessed) + rest
  <2>1. Worth(ledger, r.objs, s.accessed)
            = Worth(ledger, s.objs, s.accessed) + (r.objs[from].Balance - s.objs[from].Balance)
    <3>1. from \in Addrs \intersect DOMAIN s.accessed
        OBVIOUS
    <3>2. \A b \in Addrs \ {from} : r.objs[b].Balance = s.objs[b].Balance
        BY <1>2, Zenon
    <3>3. s.objs \in Objects /\ r.objs \in Objects /\ ledger \in Ledgers
        BY ONLY <1>1, <1>3, ledger \in Ledgers, Zenon
    <3> QED BY ONLY <3>1, <3>2, <3>3, WorthChange
  <2>2. Worth(ledger, s.objs, s.accessed) \in Nat
      BY <1>1, HeldType, Zenon
  <2>3. r.objs[from].Balance = s.objs[from].Balance + rest /\ s.objs[from].Balance \in Nat
      BY ONLY <1>1, <1>2, Zenon
  <2> QED BY ONLY <2>1, <2>2, <2>3, rest \in Nat
<1>5. /\ SameBut(r, u) /\ SameBalances(r, u)
      /\ \A b \in Addrs : u.objs[b].Nonce = r.objs[b].Nonce
  <2>1. Marked(r, u)
      BY <1>3, SetCodeIs, ZenonT(60)
  <2> QED BY <2>1, Zenon DEF Marked
<1>6. u.objs \in Objects /\ u.accessed = s.accessed
    BY <1>3, <1>5, WrapperIs, ZenonT(30) DEF SameBut
<1>7. Worth(ledger, u.objs, u.accessed) = Worth(ledger, r.objs, s.accessed)
  <2>1. \A b \in Addrs :
            Held(ledger, u.objs, u.accessed)[b] = Held(ledger, r.objs, s.accessed)[b]
      BY <1>5, <1>6, ZenonT(30) DEF Held, SameBalances
  <2>2. r.objs \in Objects /\ u.objs \in Objects /\ ledger \in Ledgers
      BY ONLY <1>3, <1>6, ledger \in Ledgers, Zenon
  <2> QED BY ONLY <2>1, <2>2, WorthSame
<1>8. SameBut(s, u)
    BY <1>2, <1>5, ZenonT(30) DEF SameBut
<1> QED BY <1>2, <1>4, <1>5, <1>7, <1>8, ZenonT(30) DEF Refunded

(* The ledger v holds what wrapper s and, for unlisted addresses, the ledger held. *)
TakenOver(s, ledger, v) ==
    /\ v \in Ledgers /\ Total(v) = Worth(ledger, s.objs, s.accessed)
    /\ \A a \in DOMAIN s.accessed : v[a].Nonce = s.objs[a].Nonce
    /\ \A a \in Addrs \ DOMAIN s.accessed : v[a].Nonce = ledger[a].Nonce

\* The ledger after a contract that succeeded: a new contract has code there too.
LEMMA LedgerLeft ==
    ASSUME NEW s \in Wrappers, NEW ledger \in Ledgers, NEW back, back = WrittenBack(s, ledger),
           NEW c \in Addrs, NEW v, v \in {back, [back EXCEPT ![c].Code = TRUE]}
    PROVE  TakenOver(s, ledger, v)
<1>1. Leaves(s, ledger, back) /\ DOMAIN s.accessed \subseteq Addrs
    BY WrittenBackIs, WrapperIs, AccessIs, ZenonT(30)
<1>2. back \in Ledgers
    BY <1>1 DEF Leaves
<1>3. /\ v \in Ledgers
      /\ \A a \in Addrs : v[a].Nonce = back[a].Nonce /\ v[a].Balance = back[a].Balance
  <2>1. CASE v = back
      BY <1>2, <2>1
  <2>2. CASE v = [back EXCEPT ![c].Code = TRUE]
    <3>1. \A a \in Addrs : v[a].Nonce = back[a].Nonce /\ v[a].Balance = back[a].Balance
        BY <1>2, <2>2 DEF Ledgers
    <3>2. v \in Ledgers
        BY <1>2, <2>2, ZenonT(90) DEF Ledgers
    <3> QED BY <3>1, <3>2, Zenon
  <2> QED BY <2>1, <2>2, Zenon
<1>4. Total(v) = Total(back)
  <2>1. Total(v) = Total(back) + (v[c].Balance - back[c].Balance)
      BY <1>2, <1>3, TotalChange
  <2>2. Total(back) \in Nat /\ back[c].Balance \in Nat
      BY <1>2, GenesisIs, HeldType, Zenon
  <2> QED BY ONLY <1>3, <2>1, <2>2, c \in Addrs
<1> QED BY <1>1, <1>3, <1>4, ZenonT(30) DEF Leaves, TakenOver

\* A contract is done: what it did is written back and its gas is a fee.
LEMMA SucceedOK ==
    ASSUME IInv, NEW used, Succeed(used)
    PROVE  IInv' /\ sumFee' > sumFee /\ \A a \in Addrs : accts'[a].Nonce >= accts[a].Nonce
<1> DEFINE rest == tx.gas - used
           r == SetBalance(w, tx.from, w.objs[tx.from].Balance + rest)
           code == r.objs[tx.callee].Code \/ tx.to = ZeroAddress
           s == SetCode(r, tx.callee, code)
           back == WrittenBack(s, accts)
<1>1. /\ tx # None /\ Len(tx.frames) = 1 /\ used \in GasUsed /\ tx' = None
      /\ sumFee' = sumFee + used /\ UNCHANGED <<phase, hist, txs, answer>> /\ phase = "executing"
    BY ZenonT(30) DEF Succeed, IInv, TypeOK
<1>2. /\ tx \in Txs /\ w \in Wrappers /\ accts \in Ledgers /\ sumFee \in Nat
      /\ Alive(accts, tx, sumFee, w)
    BY <1>1, RunningIs, Zenon
<1>3. /\ tx.from \in Addrs /\ tx.callee \in Addrs /\ tx.from \in DOMAIN w.accessed /\ tx.gas \in Nat
      /\ Worth(accts, w.objs, w.accessed) + tx.gas + sumFee + w.burned = Supply
      /\ w.burned \in Nat
    BY <1>2, WrapperIs, EVMAssumption, ZenonT(60) DEF Txs, Alive, Sound
<1>4. used \in Nat \ {0} /\ rest \in Nat /\ rest + used = tx.gas
    BY <1>1, <1>3, EVMAssumption DEF GasUsed
<1>5. w.objs \in Objects /\ w.objs[tx.from].Balance \in Nat
    BY <1>2, <1>3, WrapperIs, HeldType, ZenonT(30)
<1>6. w' = Finalise(Forgotten(s)) /\ accts' \in {back, [back EXCEPT ![tx.callee].Code = TRUE]}
  <2>1. w.objs[tx.from].Balance + tx.gas - used = w.objs[tx.from].Balance + rest
      BY <1>1, <1>3, <1>4, <1>5, ZenonT(30)
  <2>2. r = [w EXCEPT !.objs[tx.from].Balance = @ + tx.gas - used]
      BY <2>1 DEF SetBalance
  <2> QED BY <2>2, ZenonT(30) DEF Succeed, SetCode
<1> HIDE DEF rest, r, s, back
<1>7. code \in BOOLEAN
    OBVIOUS
<1> HIDE DEF code
<1>8. /\ SameBut(w, s) /\ \A b \in Addrs : s.objs[b].Nonce = w.objs[b].Nonce
      /\ Worth(accts, s.objs, s.accessed) = Worth(accts, w.objs, w.accessed) + rest
  <2>1. r = SetBalance(w, tx.from, w.objs[tx.from].Balance + rest) /\ s = SetCode(r, tx.callee, code)
      BY Zenon DEF r, s
  <2>2. Refunded(accts, w, rest, s)
      BY ONLY <1>2, <1>3, <1>4, <1>7, <2>1, RefundIs, ZenonT(60)
  <2> QED BY <2>2, Zenon DEF Refunded
<1>9. s \in Wrappers /\ s.accessed = w.accessed /\ s.burned = w.burned
    BY <1>8 DEF SameBut
<1>10. /\ accts' \in Ledgers /\ Total(accts') = Worth(accts, s.objs, s.accessed)
       /\ \A a \in DOMAIN s.accessed : accts'[a].Nonce = s.objs[a].Nonce
       /\ \A a \in Addrs \ DOMAIN s.accessed : accts'[a].Nonce = accts[a].Nonce
  <2>1. back = WrittenBack(s, accts)
      BY DEF back
  <2>2. TakenOver(s, accts, accts')
    <3>1. s \in Wrappers /\ accts \in Ledgers /\ tx.callee \in Addrs
        BY ONLY <1>2, <1>3, <1>9, Zenon
    <3>2. accts' \in {back, [back EXCEPT ![tx.callee].Code = TRUE]}
        BY ONLY <1>6, Zenon
    <3> QED BY ONLY <2>1, <3>1, <3>2, LedgerLeft
  <2> QED BY <2>2, Zenon DEF TakenOver
<1>11. Unused(accts') /\ \A a \in Addrs : accts'[a].Nonce >= accts[a].Nonce
  <2>1. \A a \in DOMAIN w.accessed : a \in Addrs
      BY <1>2, WrapperIs, AccessIs, ZenonT(60)
  <2>2. \A a \in DOMAIN w.accessed : accts'[a].Nonce = w.objs[a].Nonce
      BY <1>8, <1>9, <1>10, <2>1, ZenonT(30)
  <2> QED BY <1>1, <1>9, <1>10, <2>2, NoncesLeft, ZenonT(30)
<1>12. sumFee' \in Nat /\ sumFee' > sumFee
  <2>1. sumFee' = sumFee + used /\ sumFee \in Nat /\ used \in Nat \ {0}
      BY ONLY <1>1, <1>2, <1>4, Zenon
  <2> QED BY ONLY <2>1
<1>13. Total(accts') + sumFee' + w.burned = Supply
  <2>1. Worth(accts, w.objs, w.accessed) \in Nat
      BY <1>2, <1>5, HeldType, ZenonT(30)
  <2>2. /\ Total(accts') = Worth(accts, w.objs, w.accessed) + rest
        /\ Worth(accts, w.objs, w.accessed) + tx.gas + sumFee + w.burned = Supply
        /\ w.burned \in Nat
        /\ tx.gas \in Nat /\ sumFee \in Nat /\ sumFee' = sumFee + used
        /\ used \in Nat /\ rest \in Nat /\ rest + used = tx.gas
      BY ONLY <1>1, <1>2, <1>3, <1>4, <1>8, <1>10, Zenon
  <2> QED BY ONLY <2>1, <2>2
<1>14. w' \in Wrappers /\ w'.revs = << >> /\ w'.accessed = Nobody /\ w'.burned = w.burned
    BY <1>6, <1>9, ForgottenIs, FinaliseIs
<1>15. IInv'
    BY <1>1, <1>10, <1>11, <1>12, <1>13, <1>14, Over, ZenonT(30)
<1> QED BY <1>11, <1>12, <1>15, ZenonT(60)

-----------------------------------------------------------------------------
(* The beginning of a transaction, and queries. *)

\* The three ways a contract transaction begins: the block has too little gas
\* left, the gas does not cover what every transaction costs, or it runs.
LEMMA ExecuteTrxOK ==
    ASSUME IInv, NEW from \in Senders, NEW to \in Addrs \union {ZeroAddress},
           NEW amt \in Amounts, NEW gas \in Gases, ExecuteTrx(from, to, amt, gas)
    PROVE  IInv' /\ accts' = accts
<1> DEFINE s == Prepared(from, to)
           bought == Paid(s, from, gas)
           callee == IF to = ZeroAddress THEN CreateAddress[<<from, accts[from].Nonce>>] ELSE to
           t == [from |-> from, to |-> to, amount |-> amt, gas |-> gas, snap |-> w.nextId,
                 callee |-> callee, frames |-> << >>, ops |-> 0,
                 before |-> [accts |-> accts, objs |-> w.objs, burned |-> w.burned]]
           entered == Enter(bought, t)
<1>1. /\ phase = "executing" /\ phase' = phase /\ tx = None /\ answer' = None
      /\ UNCHANGED <<sumFee, hist>>
      /\ to = ZeroAddress => <<from, accts[from].Nonce>> \in DOMAIN CreateAddress
      /\ accts[from].Balance >= gas + amt
    BY Zenon DEF ExecuteTrx
<1>2. \/ Failed(s, w.nextId) /\ tx' = tx
      \/ Failed(bought, w.nextId) /\ tx' = tx
      \/ /\ w' = entered /\ accts' = accts
         /\ tx' = [t EXCEPT !.frames = <<Frame(t.callee, entered.snapshot)>>]
    BY Zenon DEF ExecuteTrx, Paid, SetBalance
<1>3. /\ w \in Wrappers /\ w.revs = << >> /\ w.accessed = Nobody /\ accts \in Ledgers
      /\ sumFee \in Nat /\ Total(accts) + sumFee + w.burned = Supply /\ Unused(accts)
      /\ w.nextId \in Nat /\ w.objs \in Objects /\ w.burned \in Nat
    BY <1>1, WrapperIs, ZenonT(60) DEF IInv, TypeOK, Resting
<1>4. amt \in Nat /\ gas \in Nat /\ from \in Addrs
    BY EVMAssumption
<1> HIDE DEF s
<1>5. Begun(s, from, to)
    BY <1>3, PreparedIs, Zenon DEF s
<1> HIDE DEF bought
<1>6. HasPaid(s, from, gas, amt, bought)
    BY <1>1, <1>3, <1>4, <1>5, BoughtIs, ZenonT(30) DEF bought
<1>7. CASE Failed(s, w.nextId) /\ tx' = tx
  <2>1. Undone(s, accts, w', accts')
      BY <1>3, <1>5, <1>7, FailedIs, ZenonT(60) DEF Failed, Begun
  <2>2. s.revs[1].burned = w.burned
      BY <1>5 DEF Begun
  <2> QED BY <1>1, <1>3, <1>7, <2>1, <2>2, UndoneOver, ZenonT(30) DEF Undone
<1>8. CASE Failed(bought, w.nextId) /\ tx' = tx
  <2>1. bought \in Wrappers /\ IsSnapshot(bought, 1, w.nextId) /\ AllSince(bought, w.nextId)
      BY <1>6 DEF HasPaid, SameBut
  <2>2. Undone(bought, accts, w', accts')
      BY <1>3, <1>8, <2>1, FailedIs, ZenonT(60) DEF Failed
  <2>3. bought.revs[1].burned = w.burned
      BY <1>5, <1>6, Zenon DEF Begun, HasPaid, SameBut
  <2> QED BY <1>1, <1>3, <1>8, <2>2, <2>3, UndoneOver, ZenonT(30) DEF Undone
<1>9. CASE /\ w' = entered /\ accts' = accts
           /\ tx' = [t EXCEPT !.frames = <<Frame(t.callee, entered.snapshot)>>]
  <2> DEFINE f == Frame(callee, w.nextId + 1)
             r == [t EXCEPT !.frames = <<f>>]
  <2>1. callee \in Addrs
      BY <1>1, CreateAssumption, Zenon
  <2>2. f \in Frames
    <3>1. w.nextId + 1 \in Nat
        BY <1>3
    <3> QED BY ONLY <2>1, <3>1, ZenonT(60) DEF Frame, Frames
  <2> HIDE DEF callee
  <2>3. Enter(bought, t) = Enter(bought, r)
      BY ZenonT(30) DEF Enter
  <2>4. /\ r.from = from /\ r.to = to /\ r.gas = gas /\ r.amount = amt /\ r.callee = callee
        /\ r.snap = w.nextId /\ r.frames = <<f>>
        /\ r.before = [accts |-> accts, objs |-> w.objs, burned |-> w.burned]
      OBVIOUS
  <2> HIDE DEF f
  <2>5. r \in Txs
    <3> DEFINE fs == <<f>>
               bef == [accts |-> accts, objs |-> w.objs, burned |-> w.burned]
    <3>1. fs \in Seq(Frames) /\ bef \in States
        BY <1>3, <2>2 DEF States
    <3>2. r = [from |-> from, to |-> to, amount |-> amt, gas |-> gas, snap |-> w.nextId,
               callee |-> callee, frames |-> fs, ops |-> 0, before |-> bef]
        OBVIOUS
    <3> HIDE DEF fs, bef, r
    <3> QED BY <1>3, <1>4, <2>1, <3>1, <3>2, ZenonT(30) DEF Txs
  <2> HIDE DEF t, r
  <2>6. Starts(r)
      BY <1>1, <2>4, <2>5, ZenonT(60) DEF Starts, Creates, callee, f
  <2>7. bought = Paid(Prepared(r.from, r.to), r.from, r.gas)
      BY <2>4 DEF bought, s
  <2>8. accts[r.from].Balance >= r.gas + r.amount
      BY <1>1, <2>4, ZenonT(60)
  <2>9. /\ entered \in Wrappers /\ Running(accts, r, sumFee, entered)
        /\ entered.snapshot = w.nextId + 1
      BY <1>3, <2>3, <2>6, <2>7, <2>8, EnterIs, ZenonT(30)
  <2>10. tx' = r
      BY <1>9, <2>9, ZenonT(60) DEF r, t, f
  <2>11. Within
      BY <1>1, <1>9, <2>5, <2>10, NoneAssumption, ZenonT(30) DEF Within
  <2> QED BY <1>9, <2>9, <2>10, <2>11, StillRunning, ZenonT(30)
<1> QED BY <1>2, <1>7, <1>8, <1>9, ZenonT(30)

\* A contract called by a query finds the balance that was committed, because
\* the address it reads was copied from the accounts of the same height.
LEMMA CallVMIs ==
    ASSUME IInv, NEW from \in Senders, NEW to \in Addrs, NEW b \in Addrs, NEW h \in 0 .. Len(hist)
    PROVE  callVM(from, to, b, h) = Committed(h).accts[b].Balance
<1> DEFINE ledger == Committed(h).accts
           n == OpenedAt(h)
           p == Prepare(n, ledger, from, to, 0)
           s == AddAddressToAccessList(p, ledger, b)
<1>1. callVM(from, to, b, h) = s.objs[b].Balance
    BY DEF callVM, ImmutableStateAt
<1>2. ledger \in Ledgers /\ n \in Wrappers /\ n.accessed = Nobody /\ from \in Addrs
    BY CommittedIs, OpenedIs, EVMAssumption, ZenonT(30)
<1> HIDE DEF n, ledger
<1>3. Ready(n, ledger, from, to, 0, p)
    BY <1>2, PrepareIs, ZenonT(60)
<1> HIDE DEF p
<1>4. p \in Wrappers /\ Copied(p, ledger)
    BY <1>3 DEF Ready
<1>5. Copied(s, ledger) /\ b \in DOMAIN s.accessed
    BY <1>2, <1>4, CopiedListed, ZenonT(60)
<1> HIDE DEF s
<1> QED BY <1>1, <1>5, ZenonT(60) DEF Copied, ledger

\* A query changes its answer only.
LEMMA QueryOK ==
    ASSUME IInv, NEW from \in Senders, NEW to \in Addrs, NEW b \in Addrs,
           NEW height \in 0 .. lastBlockHeight, Query(from, to, b, height)
    PROVE  IInv' /\ tx' = tx /\ accts' = accts
<1> DEFINE h == IF height <= 0 THEN lastBlockHeight ELSE height
<1>1. UNCHANGED <<phase, accts, w, blockGasPool, sumFee, tx, hist, txs>>
    BY DEF Query
<1>2. answer' = [height |-> h, addr |-> b, balance |-> callVM(from, to, b, h)]
    BY DEF Query
<1>3. h \in 0 .. Len(hist)
    BY DEF IInv, TypeOK, lastBlockHeight
<1> HIDE DEF h
<1>4. callVM(from, to, b, h) = Committed(h).accts[b].Balance
    BY <1>3, CallVMIs, Zenon
<1>5. CallSeesCommitted'
    BY <1>1, <1>2, <1>4, ZenonT(30) DEF CallSeesCommitted, Committed
<1>6. TypeOK' /\ HistoryOK' /\ Unused(accts')
    BY <1>1, ZenonT(60) DEF IInv, TypeOK, HistoryOK, Supply
<1>7. (tx = None => Resting)'
    BY <1>1 DEF IInv, Resting, Supply
<1>8. (tx # None => Running(accts, tx, sumFee, w))' /\ phase' # "idle"
    BY <1>1 DEF IInv, Query
<1> QED BY <1>1, <1>5, <1>6, <1>7, <1>8, ZenonT(30) DEF IInv

-----------------------------------------------------------------------------
(* The theorems. *)

FailLeaves ==
    tx # None /\ tx' = None /\ sumFee' = sumFee =>
        accts' = tx.before.accts /\ w'.objs = tx.before.objs

NonceRises ==
    phase = "executing" /\ phase' = "executing" =>
        \A a \in Addrs : accts'[a].Nonce >= accts[a].Nonce

\* A step that leaves the ledger alone.
LEMMA SameLedger == ASSUME IInv, accts' = accts PROVE NonceRises
<1>1. \A a \in Addrs : accts[a].Nonce \in Nat
    BY DEF IInv, TypeOK, Ledgers
<1> QED BY <1>1 DEF NonceRises

\* Every step keeps the invariant, leaves nothing of a failure and lowers no nonce.
LEMMA EVMStep == ASSUME IInv, [Next]_vars PROVE IInv' /\ FailLeaves /\ NonceRises
<1>1. CASE BeginBlock
  <2>1. tx' = tx /\ phase # "executing"
      BY <1>1 DEF BeginBlock
  <2> QED BY <1>1, <2>1, BeginBlockOK, ZenonT(60) DEF FailLeaves, NonceRises
<1>2. CASE Commit
  <2>1. tx = None /\ phase' # "executing"
      BY <1>2 DEF Commit
  <2> QED BY <1>2, <2>1, CommitOK, ZenonT(60) DEF FailLeaves, NonceRises
<1>3. CASE Restart
  <2>1. tx = None /\ phase' # "executing"
      BY <1>3 DEF Restart
  <2> QED BY <1>3, <2>1, RestartOK, Zenon DEF FailLeaves, NonceRises
<1>4. ASSUME NEW from \in Senders, NEW to \in Addrs, NEW amt \in Amounts, NEW gas \in Gases,
             TransferTrx(from, to, amt, gas)
      PROVE  IInv' /\ FailLeaves /\ NonceRises
  <2>1. tx = None
      BY <1>4, Zenon DEF TransferTrx
  <2> QED BY <1>4, <2>1, TransferTrxOK, ZenonT(60) DEF FailLeaves, NonceRises
<1>5. ASSUME NEW from \in Senders, NEW to \in Addrs \union {ZeroAddress}, NEW amt \in Amounts,
             NEW gas \in Gases, ExecuteTrx(from, to, amt, gas)
      PROVE  IInv' /\ FailLeaves /\ NonceRises
  <2>1. tx = None
      BY <1>5, Zenon DEF ExecuteTrx
  <2> QED BY <1>5, <2>1, ExecuteTrxOK, SameLedger, ZenonT(60) DEF FailLeaves
<1>6. ASSUME NEW b \in Addrs, NEW amt \in Amounts, Call(b, amt)
      PROVE  IInv' /\ FailLeaves /\ NonceRises
    BY <1>6, CallOK, SameLedger, ZenonT(60) DEF FailLeaves
<1>7. ASSUME NEW b \in Addrs, SelfDestruct(b)
      PROVE  IInv' /\ FailLeaves /\ NonceRises
    BY <1>7, SelfDestructOK, SameLedger, ZenonT(60) DEF FailLeaves
<1>8. CASE Return
    BY <1>8, ReturnOK, SameLedger, ZenonT(60) DEF FailLeaves
<1>9. CASE Revert
    BY <1>9, RevertOK, SameLedger, ZenonT(60) DEF FailLeaves
<1>10. ASSUME NEW used, Succeed(used)
       PROVE  IInv' /\ FailLeaves /\ NonceRises
  <2>1. sumFee \in Nat /\ sumFee' \in Nat
      BY <1>10, SucceedOK, Zenon DEF IInv, TypeOK
  <2> QED BY <1>10, <2>1, SucceedOK DEF FailLeaves, NonceRises
<1>11. ASSUME NEW used, Fail(used)
       PROVE  IInv' /\ FailLeaves /\ NonceRises
    BY <1>11, FailOK, SameLedger, Zenon DEF FailLeaves
<1>12. ASSUME NEW from \in Senders, NEW to \in Addrs, NEW b \in Addrs,
              NEW h \in 0 .. lastBlockHeight, Query(from, to, b, h)
       PROVE  IInv' /\ FailLeaves /\ NonceRises
    BY <1>12, QueryOK, SameLedger, ZenonT(60) DEF FailLeaves
<1>13. CASE UNCHANGED vars
  <2>1. UNCHANGED <<phase, accts, w, sumFee, tx, hist, answer>>
      BY <1>13 DEF vars
  <2>2. IInv'
      BY <2>1, Zenon DEF IInv, TypeOK, HistoryOK, Resting, Supply, CallSeesCommitted, Committed,
                         Settled, lastBlockHeight
  <2> QED BY <2>1, <2>2, SameLedger, ZenonT(60) DEF FailLeaves
<1> QED BY <1>1, <1>2, <1>3, <1>4, <1>5, <1>6, <1>7, <1>8, <1>9, <1>10, <1>11, <1>12, <1>13, ZenonT(30) DEF Next

\* The invariant holds for any number of transactions, calls and reverts.
THEOREM EVMInductive == Spec => []IInv
<1>1. Init => IInv
    BY InitOK
<1>2. IInv /\ [Next]_vars => IInv'
    BY EVMStep
<1> QED BY <1>1, <1>2, PTL DEF Spec

\* Contracts and transfers move money, make none and lose none but what a
\* contract leaves to itself when it destroys itself, and no balance goes below
\* zero, in the ledger or in a state object.
THEOREM EVMMoneyKept == Spec => []MoneyKept
<1>1. ASSUME IInv PROVE MoneyKept
  <2>1. accts \in Ledgers /\ w.objs \in Objects
      BY <1>1, WrapperIs, ZenonT(60) DEF IInv, TypeOK
  <2>2. \A a \in Addrs : accts[a].Balance >= 0 /\ w.objs[a].Balance >= 0
    <3>1. \A a \in Addrs : accts[a].Balance \in Nat /\ w.objs[a].Balance \in Nat
        BY <2>1, HeldType, ZenonT(60)
    <3> QED BY ONLY <3>1
  <2>3. tx = None => Total(accts) + sumFee + w.burned = Total(Genesis)
      BY <1>1 DEF IInv, Resting, Supply
  <2> QED BY <2>2, <2>3, Zenon DEF MoneyKept
<1>2. IInv => MoneyKept
    BY <1>1
<1> QED BY <1>2, EVMInductive, PTL

\* What Finish will write back is what the EVM's access list holds, whatever
\* frames were entered, left and reverted.
THEOREM EVMAccessedAreListed == Spec => []AccessedAreListed
<1>1. IInv => AccessedAreListed
    BY DEF IInv, Running, Alive, AccessedAreListed
<1> QED BY <1>1, EVMInductive, PTL

\* A query's contract reads what was committed at the height asked for.
THEOREM EVMCallSeesCommitted == Spec => []CallSeesCommitted
<1>1. IInv => CallSeesCommitted
    BY DEF IInv
<1> QED BY <1>1, EVMInductive, PTL

\* A contract transaction that fails leaves no trace.
THEOREM EVMFailedLeavesNothing == Spec => FailedLeavesNothing
<1>1. IInv /\ [Next]_vars => FailLeaves
    BY EVMStep
<1> QED BY <1>1, EVMInductive, PTL DEF Spec, FailedLeavesNothing, FailLeaves

\* Within a block no nonce is ever lowered.
THEOREM EVMNoncesGrow == Spec => NoncesGrow
<1>1. IInv /\ [Next]_vars => NonceRises
    BY EVMStep
<1> QED BY <1>1, EVMInductive, PTL DEF Spec, NoncesGrow, NonceRises
=============================================================================
