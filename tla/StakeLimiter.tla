---------------------------- MODULE StakeLimiter ----------------------------
(***************************************************************************)
(* The limiter of ctrlers/stake/limiter.go, which refuses a staking or     *)
(* unstaking transaction that would move too much of the validators' power *)
(* in one block, with the part of the stake controller that uses it: the   *)
(* powers seen by DeliverTx and those seen by CheckTx, and one limiter for *)
(* both.  Three validators at least: below that it is not consulted.  A    *)
(* delegatee's stakes are all its own and MinValidatorStake is one unit of *)
(* power, so that whoever has power is a candidate.                        *)
(***************************************************************************)
EXTENDS Integers, Sequences
LOCAL Seqs == INSTANCE SequencesExt
LOCAL Sets == INSTANCE FiniteSetsExt

CONSTANTS
    Addrs,                                \* delegatees, a set of numbers
    InitialPower,                         \* [Addrs -> power]
    MaxValidatorCnt, IndividualLimitRatio, UpdatableLimitRatio,
    Changes,                              \* power added or taken by a transaction
    MaxHeight, MaxPower                   \* bounds

VARIABLES
    height, executing,
    committed, power, checkPower,         \* [Addrs -> power]: tree, DeliverTx, CheckTx
    powerObjs, baseTotalPower, updatedPower

limiter == <<powerObjs, baseTotalPower, updatedPower>>
vars == <<height, executing, committed, power, checkPower, limiter>>

orderedPowerObj(x, y) == x.Power > y.Power \/ (x.Power = y.Power /\ x.Addr > y.Addr)
Sorted(objs) == Seqs!SetToSortSeq(Seqs!ToSet(objs), orderedPowerObj)

PowerObjs(pow) ==
    Seqs!SetToSortSeq({[Addr |-> a, Power |-> pow[a]] : a \in {b \in Addrs : pow[b] > 0}},
                      orderedPowerObj)

Smaller(m, n) == IF m < n THEN m ELSE n
BasePower(objs) ==
    Seqs!FoldSeq(LAMBDA o, sum : o.Power + sum, 0,
                 SubSeq(objs, 1, Smaller(Len(objs), MaxValidatorCnt)))

Init ==
    /\ height = 0 /\ executing = FALSE
    /\ committed = InitialPower /\ power = InitialPower /\ checkPower = InitialPower
    /\ powerObjs = PowerObjs(InitialPower)
    /\ baseTotalPower = BasePower(powerObjs)
    /\ updatedPower = 0

(* Reset, from the committed delegatees. *)
BeginBlock ==
    /\ ~executing /\ height < MaxHeight
    /\ executing' = TRUE /\ height' = height + 1
    /\ powerObjs' = PowerObjs(committed)
    /\ baseTotalPower' = BasePower(powerObjs')
    /\ updatedPower' = 0
    /\ UNCHANGED <<committed, power, checkPower>>

-----------------------------------------------------------------------------
Position(a) ==
    IF \E i \in DOMAIN powerObjs : powerObjs[i].Addr = a
    THEN CHOOSE i \in DOMAIN powerObjs : powerObjs[i].Addr = a
    ELSE 0

IsValidator(a) == Position(a) \in 1 .. MaxValidatorCnt

(* A new face stands for itself. *)
PowerObj(a, total) ==
    IF Position(a) = 0 THEN [Addr |-> a, Power |-> total] ELSE powerObjs[Position(a)]

checkIndividualPowerLimit(total, diff) ==
    diff <= 0 \/ ((total + diff) * 100) \div (baseTotalPower + diff) <= IndividualLimitRatio

(* An unstaking validator: all of its power moves when it falls behind the *)
(* first candidate, else what it takes away.                               *)
FallsOut(obj, diff) ==
    /\ Len(powerObjs) > MaxValidatorCnt
    /\ obj.Power + diff < powerObjs[MaxValidatorCnt + 1].Power

(* A candidate or new face that passes the last validator moves its power. *)
Enters(obj, diff) ==
    /\ Len(powerObjs) >= MaxValidatorCnt
    /\ obj.Power + diff > powerObjs[MaxValidatorCnt].Power

Moved(a, obj, diff) ==
    CASE IsValidator(a) /\ diff < 0 /\ FallsOut(obj, diff) -> obj.Power
      [] IsValidator(a) /\ diff < 0 /\ ~FallsOut(obj, diff) -> - diff
      [] ~IsValidator(a) /\ diff > 0 /\ Enters(obj, diff) -> powerObjs[MaxValidatorCnt].Power
      [] OTHER -> 0

(* CheckLimit passes a change of a delegatee whose power is total, and     *)
(* takes it into the limiter.                                              *)
CheckLimit(a, total, diff) ==
    LET obj == PowerObj(a, total)
        updated == updatedPower + Moved(a, obj, diff)
    IN  /\ checkIndividualPowerLimit(total, diff)
        /\ obj.Power = total
        /\ (updated * 100) \div baseTotalPower <= UpdatableLimitRatio
        /\ updatedPower' = updated
        /\ powerObjs' = Sorted([i \in DOMAIN powerObjs |->
                IF i = Position(a) THEN [powerObjs[i] EXCEPT !.Power = @ + diff]
                                   ELSE powerObjs[i]])
        /\ UNCHANGED baseTotalPower

(* ValidateTrx and ExecuteTrx of one transaction in a block. *)
DeliverTx(a, diff) ==
    /\ executing
    /\ power[a] + diff \in 0 .. MaxPower
    /\ CheckLimit(a, power[a], diff)
    /\ power' = [power EXCEPT ![a] = @ + diff]
    /\ UNCHANGED <<height, executing, committed, checkPower>>

(* The same for the mempool: other powers, the same limiter. *)
CheckTx(a, diff) ==
    /\ checkPower[a] + diff \in 0 .. MaxPower
    /\ CheckLimit(a, checkPower[a], diff)
    /\ checkPower' = [checkPower EXCEPT ![a] = @ + diff]
    /\ UNCHANGED <<height, executing, committed, power>>

Commit ==
    /\ executing
    /\ executing' = FALSE
    /\ committed' = power
    /\ checkPower' = power
    /\ UNCHANGED <<height, power, limiter>>

Deliver == BeginBlock \/ Commit \/ \E a \in Addrs, diff \in Changes : DeliverTx(a, diff)

Spec == Init /\ [][Deliver]_vars

MempoolSpec == Init /\ [][Deliver \/ \E a \in Addrs, diff \in Changes : CheckTx(a, diff)]_vars

-----------------------------------------------------------------------------
(* The powers the limiter keeps for the candidates are those of the ledger *)
(* the block is executed on: checkUpdatablePowerLimit refuses a            *)
(* transaction otherwise ("StakeLimiter's power object is not equal to     *)
(* delegatee's power").  What CheckTx did to the limiter must not show.    *)
LimiterFollowsLedger ==
    executing => \A i \in DOMAIN powerObjs : powerObjs[i].Power = power[powerObjs[i].Addr]
=============================================================================
