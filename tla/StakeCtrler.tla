---------------------------- MODULE StakeCtrler ----------------------------
(***************************************************************************)
(* The stake controller (ctrlers/stake/ctrler.go) over the blocks of a     *)
(* chain: slashing, rewards and the signing check of BeginBlock, the three *)
(* kinds of staking transaction, the refunds and the validator updates of  *)
(* EndBlock, Commit, and a restart of the node between two blocks.         *)
(*                                                                         *)
(* The consensus engine (Tendermint, external) is the variable engine: the *)
(* validators that signed the last block, those of this block and those of *)
(* the next.  It chooses which validators have not signed and which were   *)
(* caught misbehaving, and applies the updates of EndBlock two blocks on.  *)
(*                                                                         *)
(* The governance parameters are constants here.  Transactions come in     *)
(* already past the common checks of the executor; fees are not counted.   *)
(* The stake limiter is consulted only from three validators on, so it     *)
(* plays no part while MaxValidatorCnt < 3.                                *)
(***************************************************************************)
EXTENDS LedgerOps, Delegatee, FiniteSets, TLC
LOCAL Seqs == INSTANCE SequencesExt
LOCAL Sets == INSTANCE FiniteSetsExt

CONSTANTS
    Addrs,                \* accounts, a set of numbers
    Genesis,              \* genesis validators: [address -> power]
    Wealth,               \* what every account owns beside
    MaxValidatorCnt, MinValidatorPower, MinDelegatorPower, MinSelfStakeRatio,
    LazyRewardBlocks, RewardPerPower, SlashRatio,
    SignedBlocksWindow, MinSignedBlocks,
    Amounts,              \* amounts a transaction may carry
    MaxHeight, FirstTxHeight, MaxTxs, MaxEvidence, MaxMissed    \* bounds

ASSUME StakeAssumption ==
    /\ Addrs \subseteq Nat
    /\ DOMAIN Genesis \subseteq Addrs
    /\ MaxValidatorCnt \in {1, 2}
    /\ MinValidatorPower \in Nat \ {0}
    /\ LazyRewardBlocks \in Nat \ {0}

VARIABLES
    phase,                \* idle, executing, ended or halted
    height,               \* the block being executed, or the last one
    delegatees, frozen, rewards,   \* ledgers: [tree, o]
    history,              \* the last four versions of delegatees' tree
    allDelegatees,        \* candidates read in BeginBlock, most power first
    lastValidators,       \* [address -> power] as last reported
    balance,              \* the accounts
    engine,               \* external: [signed, now, next], each [Addrs -> power]
    txs, evidence, missed,         \* how much of each bound is used
    issued, slashed, restaked      \* history variables

ledgers == <<delegatees, frozen, rewards>>
vars == <<phase, height, ledgers, history, allDelegatees, lastValidators, balance,
          engine, txs, evidence, missed, issued, slashed, restaked>>

Hashes == 0 .. MaxTxs
NoValidators == [a \in {} |-> 0]
Max0(n) == IF n < 0 THEN 0 ELSE n

Found(l, k) == Lookup(l.o, l.tree, k)
View(l) == Merge(l.o, l.tree)
Set(l, k, v) == [l EXCEPT !.o = Put(@, k, v)]
Del(l, k) == [l EXCEPT !.o = Remove(@, l.tree, k)]
Saved(l) == [tree |-> View(l), o |-> NewOverlay(DOMAIN l.tree)]
Empty(K) == [tree |-> NewTree(K), o |-> NewOverlay(K)]

(* InitLedger: one stake for each genesis validator, all under the hash 0, *)
(* not committed before the first block is.                                *)
GenesisDelegatee(a) ==
    addStake(NewDelegatee, a, NewStakeWithPower(a, 0, Genesis[a]))

InitLedger ==
    [Empty(Addrs) EXCEPT !.o.upd =
        [a \in Addrs |-> IF a \in DOMAIN Genesis THEN GenesisDelegatee(a) ELSE None]]

EngineSet(f) == [a \in Addrs |-> IF a \in DOMAIN f THEN f[a] ELSE 0]

Init ==
    /\ phase = "idle"
    /\ height = 0
    /\ delegatees = InitLedger
    /\ frozen = Empty(Hashes)
    /\ rewards = Empty(Addrs)
    /\ history = << >>
    /\ allDelegatees = << >>
    /\ lastValidators = NoValidators
    /\ balance = [a \in Addrs |-> Wealth]
    /\ engine = [signed |-> EngineSet(NoValidators), now |-> EngineSet(Genesis),
                 next |-> EngineSet(Genesis)]
    /\ txs = 0 /\ evidence = 0 /\ missed = 0
    /\ issued = 0 /\ slashed = 0 /\ restaked = FALSE
-----------------------------------------------------------------------------
(* BeginBlock *)

Candidates ==
    {a \in Addrs : /\ delegatees.tree[a] # None
                   /\ delegatees.tree[a].SelfPower >= MinValidatorPower}

(* PowerOrderDelegatees: total power, then number of stakes, then address. *)
PowerOrder(a, b) ==
    LET x == delegatees.tree[a]
        y == delegatees.tree[b]
    IN  \/ x.TotalPower > y.TotalPower
        \/ x.TotalPower = y.TotalPower /\ Len(x.Stakes) > Len(y.Stakes)
        \/ x.TotalPower = y.TotalPower /\ Len(x.Stakes) = Len(y.Stakes) /\ a > b

Ordered ==
    LET order == Seqs!SetToSortSeq(Candidates, PowerOrder)
    IN  [i \in DOMAIN order |->
            [Addr |-> order[i], TotalPower |-> delegatees.tree[order[i]].TotalPower]]

(* A punishment for an address without a delegatee is an error that is only logged. *)
doPunish(ds, a) ==
    LET d == Found(ds, a)
    IN  IF d = None THEN ds ELSE Set(ds, a, doSlashAll(d, a, SlashRatio))

\* A bug: one block too recent.
HeightOfPowerLate(h) == IF h - 3 < 0 THEN 1 ELSE h - 3

(* The version that holds the powers the votes of block h stand for. *)
HeightOfPower(h) == IF h - 4 < 0 THEN 1 ELSE h - 4

(* Version 0 is the latest one; height is that of the last block here. *)
ImmutableLedgerAt(v) ==
    history[Len(history) - (IF v = 0 THEN 0 ELSE height - v)]

(* The signers rewarded in block h; the others are logged as unknown, or as *)
(* having another power.                                                    *)
RewardedVoters(voters, h) ==
    LET immu == ImmutableLedgerAt(HeightOfPower(h))
    IN  {a \in voters : immu[a] # None /\ immu[a].TotalPower = engine.signed[a]}

(* doRewardTo over the rewarded delegatees: what a staker gets. *)
RewardOf(x, voters, h) ==
    LET immu == ImmutableLedgerAt(HeightOfPower(h))
    IN  RewardPerPower * Sets!MapThenSumSet(
            LAMBDA a : sumPowerOf(immu[a].Stakes, x), RewardedVoters(voters, h))

Issue(rw, x, amount, h) ==
    LET old == Found(rw, x)
        before == IF old = None THEN 0 ELSE old.cumulated
    IN  IF amount = 0 THEN rw
        ELSE Set(rw, x, [cumulated |-> before + amount, height |-> h])

(* The rewards of all stakers, each in a Reward of its own. *)
doReward(rw, voters, h) ==
    Sets!FoldSet(LAMBDA x, r : Issue(r, x, RewardOf(x, voters, h), h), rw, Addrs)

Freeze(fr, stakes, h) ==
    Seqs!FoldLeft(
        LAMBDA f, s : Set(f, s.TxHash, [s EXCEPT !.RefundHeight = h + LazyRewardBlocks]),
        fr, stakes)

\* A bug: one missed block too many is forgiven.
NotSignedLenient(st, a, h) ==
    LET d == Found(st.ds, a)
        from == Max0(h - 1 - SignedBlocksWindow)
        heights == Mark(d.NotSigned, h - 1)
        marked == Set(st.ds, a, [d EXCEPT !.NotSigned = Rewound(heights, from)])
        signed == SignedBlocksWindow - CountInWindow(heights, from, h - 1)
    IN  IF d = None THEN st
        ELSE IF signed + 1 >= MinSignedBlocks THEN [st EXCEPT !.ds = marked]
        ELSE [ds |-> Del(marked, a), fr |-> Freeze(st.fr, d.Stakes, h)]

(* A validator that did not sign block h - 1. *)
NotSigned(st, a, h) ==
    LET d == Found(st.ds, a)
        from == Max0(h - 1 - SignedBlocksWindow)
        heights == Mark(d.NotSigned, h - 1)
        marked == Set(st.ds, a, [d EXCEPT !.NotSigned = Rewound(heights, from)])
        signed == SignedBlocksWindow - CountInWindow(heights, from, h - 1)
    IN  IF d = None THEN st
        ELSE IF signed >= MinSignedBlocks THEN [st EXCEPT !.ds = marked]
        ELSE [ds |-> Del(marked, a), fr |-> Freeze(st.fr, d.Stakes, h)]

SumOf(f, S) == Sets!MapThenSumSet(LAMBDA a : f[a], S)

Voters == {a \in Addrs : engine.signed[a] > 0}

(* External: a block is committed by more than two thirds of the power. *)
Absences ==
    {absent \in SUBSET Voters :
        absent # {} => 3 * SumOf(engine.signed, absent) < SumOf(engine.signed, Voters)}

TotalOf(ds, S) ==
    Sets!MapThenSumSet(
        LAMBDA a : IF Found(ds, a) = None THEN 0 ELSE Found(ds, a).TotalPower, S)

BeginBlock(byzantine, absent) ==
    LET h == height + 1
        punished == Sets!FoldSet(LAMBDA a, ds : doPunish(ds, a), delegatees, byzantine)
        order == Seqs!SetToSortSeq(absent, LAMBDA a, b : engine.signed[a] > engine.signed[b])
        checked == Seqs!FoldLeft(LAMBDA st, a : NotSigned(st, a, h),
                                 [ds |-> punished, fr |-> frozen], order)
        present == Voters \ absent
    IN  /\ phase = "idle" /\ height < MaxHeight
        /\ evidence + Cardinality(byzantine) <= MaxEvidence
        /\ missed + Cardinality(absent) <= MaxMissed
        /\ phase' = "executing"
        /\ height' = h
        /\ allDelegatees' = Ordered
        /\ delegatees' = checked.ds
        /\ frozen' = checked.fr
        /\ rewards' = IF Voters = {} THEN rewards ELSE doReward(rewards, present, h)
        /\ evidence' = evidence + Cardinality(byzantine)
        /\ missed' = missed + Cardinality(absent)
        /\ slashed' = slashed + TotalOf(delegatees, byzantine) - TotalOf(punished, byzantine)
        /\ issued' = issued + (IF Voters = {} THEN 0
                               ELSE Sets!MapThenSumSet(LAMBDA x : RewardOf(x, present, h), Addrs))
        /\ UNCHANGED <<history, lastValidators, balance, engine, txs, restaked>>
-----------------------------------------------------------------------------
(* DeliverTx: ValidateTrx, then ExecuteTrx.  A transaction that is refused *)
(* changes nothing here and is not a step.                                 *)

Deliver == phase = "executing" /\ height >= FirstTxHeight /\ txs < MaxTxs /\ txs' = txs + 1

ValidStaking(d, from, to, amount) ==
    /\ amount > 0
    /\ from = to => amount + (IF d = None THEN 0 ELSE d.SelfPower) >= MinValidatorPower
    /\ from # to => /\ d # None
                    /\ amount >= MinDelegatorPower
                    /\ SelfStakeRatio(d, amount) >= MinSelfStakeRatio

exeStaking(from, to, amount) ==
    LET d == Found(delegatees, to)
        s0 == NewStakeWithPower(from, txs + 1, amount)
    IN  /\ Deliver
        /\ ValidStaking(d, from, to, amount)
        /\ balance[from] >= amount
        /\ balance' = [balance EXCEPT ![from] = @ - amount]
        /\ delegatees' = Set(delegatees, to,
                             addStake(IF d = None THEN NewDelegatee ELSE d, to, s0))
        /\ restaked' = (restaked \/ (d = None /\ delegatees.o.upd[to] # None))
        /\ UNCHANGED <<phase, height, frozen, rewards, history, allDelegatees,
                       lastValidators, engine, evidence, missed, issued, slashed>>

Unstaked(d, to, hash) ==
    LET left == DelStake(d, to, hash)
    IN  IF left.SelfPower = 0 THEN DelAllStakes(left) ELSE left

Leaving(d, to, hash) ==
    LET left == DelStake(d, to, hash)
    IN  <<FindStake(d, hash)>> \o (IF left.SelfPower = 0 THEN left.Stakes ELSE << >>)

\* A bug: the validator's last own stake leaves and the delegators' stay frozen nowhere.
exeUnstakingForgetsDelegators(from, to, hash) ==
    LET d == Found(delegatees, to)
        left == Unstaked(d, to, hash)
    IN  /\ Deliver
        /\ d # None /\ HasStake(d, hash) /\ FindStake(d, hash).From = from
        /\ frozen' = Freeze(frozen, <<FindStake(d, hash)>>, height)
        /\ delegatees' = IF left.TotalPower = 0 THEN Del(delegatees, to)
                                                ELSE Set(delegatees, to, left)
        /\ UNCHANGED <<phase, height, rewards, history, allDelegatees, lastValidators,
                       balance, engine, evidence, missed, issued, slashed, restaked>>

(* When the validator's own stake is gone the delegators' stakes leave too, *)
(* and a delegatee without power is deleted.                                *)
exeUnstaking(from, to, hash) ==
    LET d == Found(delegatees, to)
        left == Unstaked(d, to, hash)
    IN  /\ Deliver
        /\ d # None /\ HasStake(d, hash) /\ FindStake(d, hash).From = from
        /\ frozen' = Freeze(frozen, Leaving(d, to, hash), height)
        /\ delegatees' = IF left.TotalPower = 0 THEN Del(delegatees, to)
                                                ELSE Set(delegatees, to, left)
        /\ UNCHANGED <<phase, height, rewards, history, allDelegatees, lastValidators,
                       balance, engine, evidence, missed, issued, slashed, restaked>>

(* AcctHandler.Reward fails only for an account that does not exist; that  *)
(* of the sender does, so the reward is never put back (CancelSet).        *)
exeWithdraw(from, amount) ==
    LET rwd == Found(rewards, from)
    IN  /\ Deliver
        /\ rwd # None /\ amount <= rwd.cumulated
        /\ rewards' = Set(rewards, from,
                          [cumulated |-> rwd.cumulated - amount, height |-> height])
        /\ balance' = [balance EXCEPT ![from] = @ + amount]
        /\ UNCHANGED <<phase, height, delegatees, frozen, history, allDelegatees,
                       lastValidators, engine, evidence, missed, issued, slashed, restaked>>

-----------------------------------------------------------------------------
(* EndBlock, Commit, restart *)

\* Bugs: one block late, one block early.
DueLate == {k \in Hashes : frozen.tree[k] # None /\ frozen.tree[k].RefundHeight < height}
DueEarly == {k \in Hashes : frozen.tree[k] # None /\ frozen.tree[k].RefundHeight <= height + 1}

Due == {k \in Hashes : frozen.tree[k] # None /\ frozen.tree[k].RefundHeight <= height}

(* unfreezingStakes reads the committed stakes and deletes what is under their hashes. *)
unfreezingStakes(due) == Sets!FoldSet(LAMBDA k, fr : Del(fr, k), frozen, due)

Refund(a, due) ==
    Sets!MapThenSumSet(LAMBDA k : frozen.tree[k].Power,
                       {k \in due : frozen.tree[k].From = a})

selectValidators ==
    LET n == IF Len(allDelegatees) < MaxValidatorCnt THEN Len(allDelegatees)
                                                     ELSE MaxValidatorCnt
        top == SubSeq(allDelegatees, 1, n)
        at(a) == CHOOSE d \in Seqs!ToSet(top) : d.Addr = a
    IN  [a \in {d.Addr : d \in Seqs!ToSet(top)} |-> at(a).TotalPower]

\* A bug: the validators that left are not reported.
validatorUpdatesKeepGone(existing, newers) ==
    [a \in {b \in DOMAIN newers : b \in DOMAIN existing => existing[b] # newers[b]} |->
        newers[a]]

(* What is reported: 0 for one that left, the power of one that is new or changed. *)
validatorUpdates(existing, newers) ==
    LET gone == DOMAIN existing \ DOMAIN newers
        changed == {a \in DOMAIN newers : a \in DOMAIN existing => existing[a] # newers[a]}
    IN  [a \in gone \union changed |-> IF a \in gone THEN 0 ELSE newers[a]]

(* External: Tendermint's UpdateWithChangeSet. *)
Applied(set, updates) == [a \in Addrs |-> IF a \in DOMAIN updates THEN updates[a] ELSE set[a]]

(* The engine stops for good when an update would leave it without validators. *)
EndBlock ==
    LET updates == validatorUpdates(lastValidators, selectValidators)
        next == Applied(engine.next, updates)
    IN  /\ phase = "executing"
        /\ balance' = [a \in Addrs |-> balance[a] + Refund(a, Due)]
        /\ frozen' = unfreezingStakes(Due)
        /\ lastValidators' = selectValidators
        /\ engine' = [signed |-> engine.now, now |-> engine.next, next |-> next]
        /\ phase' = IF \A a \in Addrs : next[a] = 0 THEN "halted" ELSE "ended"
        /\ UNCHANGED <<height, delegatees, rewards, history, allDelegatees, txs,
                       evidence, missed, issued, slashed, restaked>>

LastFour(s) == IF Len(s) > 4 THEN Tail(s) ELSE s

Commit ==
    /\ phase = "ended"
    /\ phase' = "idle"
    /\ delegatees' = Saved(delegatees)
    /\ frozen' = Saved(frozen)
    /\ rewards' = Saved(rewards)
    /\ history' = LastFour(Append(history, View(delegatees)))
    /\ UNCHANGED <<height, allDelegatees, lastValidators, balance, engine, txs,
                   evidence, missed, issued, slashed, restaked>>

(* NewStakeCtrler on the committed ledgers: UpdateValidators is called while *)
(* allDelegatees is still nil.                                               *)
Restart ==
    /\ phase = "idle" /\ height > 0
    /\ allDelegatees' = << >>
    /\ lastValidators' = NoValidators
    /\ UNCHANGED <<phase, height, ledgers, history, balance, engine, txs, evidence,
                   missed, issued, slashed, restaked>>

Next ==
    \/ \E byzantine \in SUBSET Voters, absent \in Absences : BeginBlock(byzantine, absent)
    \/ \E from, to \in Addrs, amount \in Amounts : exeStaking(from, to, amount)
    \/ \E from, to \in Addrs, hash \in Hashes : exeUnstaking(from, to, hash)
    \/ \E from \in Addrs, amount \in Amounts : exeWithdraw(from, amount)
    \/ EndBlock
    \/ Commit

Spec == Init /\ [][Next]_vars

RestartSpec == Init /\ [][Next \/ Restart]_vars

-----------------------------------------------------------------------------
Staked == SumOf([a \in Addrs |-> IF View(delegatees)[a] = None THEN 0
                                 ELSE SumPower(View(delegatees)[a].Stakes)], Addrs)
Frozen == SumOf([k \in Hashes |-> IF View(frozen)[k] = None THEN 0
                                  ELSE View(frozen)[k].Power], Hashes)
Pending == SumOf([a \in Addrs |-> IF View(rewards)[a] = None THEN 0
                                  ELSE View(rewards)[a].cumulated], Addrs)

(* Every unit that is not slashed is in exactly one place: an account, a   *)
(* stake, the frozen ledger or a reward not yet withdrawn.                 *)
AllAccounted ==
    SumOf(balance, Addrs) + Staked + Frozen + Pending + slashed =
        Cardinality(Addrs) * Wealth + SumOf(Genesis, DOMAIN Genesis) + issued

(* No stake, refund or reward is lost or paid twice over any sequence of   *)
(* staking, unstaking, slashing, rewarding and refunding                   *)
(* (exeStaking, exeUnstaking, BeginBlock, unfreezingStakes), as long as a  *)
(* delegatee deleted and created again in a block gets no second stake in  *)
(* that block; and no balance or reward goes below zero.                   *)
Conserved ==
    /\ restaked \/ AllAccounted
    /\ \A a \in Addrs : balance[a] >= 0
    /\ \A a \in Addrs : View(rewards)[a] # None => View(rewards)[a].cumulated >= 0

(* The counters a delegatee carries (SelfPower, TotalPower) are the sums   *)
(* over its stakes after any mix of staking, unstaking and slashing.  They *)
(* decide who is a validator and with what power.                          *)
PowersAddUp ==
    \A a \in Addrs : View(delegatees)[a] # None =>
        /\ View(delegatees)[a].TotalPower = SumPower(View(delegatees)[a].Stakes)
        /\ View(delegatees)[a].SelfPower = sumPowerOf(View(delegatees)[a].Stakes, a)

(* A frozen stake leaves the frozen ledger only at the EndBlock of its     *)
(* RefundHeight, LazyRewardBlocks after it was unstaked, and its owner is  *)
(* paid in the same step (unfreezingStakes).                               *)
RefundedWhenDue ==
    [][\A k \in Hashes : View(frozen)[k] # None /\ View(frozen)'[k] = None =>
            /\ View(frozen)[k].RefundHeight = height
            /\ balance'[View(frozen)[k].From] >=
                    balance[View(frozen)[k].From] + View(frozen)[k].Power]_vars

(* No frozen stake is forgotten: at the end of a block everything due by   *)
(* then has been refunded.                                                 *)
NoneOverdue ==
    phase = "ended" => \A k \in Hashes :
        View(frozen)[k] # None => View(frozen)[k].RefundHeight > height

-----------------------------------------------------------------------------
(* Who should validate, by definition: the candidates with fewer than      *)
(* MaxValidatorCnt candidates ahead of them.                               *)
Chosen == {a \in Candidates :
            Cardinality({b \in Candidates : PowerOrder(b, a)}) < MaxValidatorCnt}

(* The differences EndBlock reports (updateValidators) keep the engine's   *)
(* next validator set equal to the best candidates of the committed        *)
(* ledger, at their committed powers.  The first block reports nothing.    *)
EngineFollows ==
    phase = "ended" /\ height > 1 =>
        engine.next = [a \in Addrs |->
            IF a \in Chosen THEN delegatees.tree[a].TotalPower ELSE 0]

VotesMatchAt(h) ==
    LET immu == ImmutableLedgerAt(HeightOfPower(h))
    IN  \A a \in Voters : immu[a] # None /\ immu[a].TotalPower = engine.signed[a]

(* The version of the delegatee ledger that BeginBlock reads for rewards,  *)
(* four blocks back, holds every voter with the power it voted with, so no *)
(* signer goes without its reward.  Block 4 is left out: version 0 is read *)
(* for it, which is the latest one (ImmutableLedgerAt).                    *)
VotesMatchLater ==
    phase = "idle" /\ height > 0 /\ height + 1 # 4 => VotesMatchAt(height + 1)

(* No delegatee stays that has missed more blocks of its window than       *)
(* SignedBlocksWindow - MinSignedBlocks (the signing check of BeginBlock). *)
AbsentAreStopped ==
    \A a \in Addrs : View(delegatees)[a] # None =>
        SignedBlocksWindow - MinSignedBlocks >=
            CountInWindow(View(delegatees)[a].NotSigned,
                          height - 1 - SignedBlocksWindow, height - 1)
=============================================================================
