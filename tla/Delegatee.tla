----------------------------- MODULE Delegatee -----------------------------
(***************************************************************************)
(* A delegatee of ctrlers/stake/delegatee.go: the stakes deposited with    *)
(* one validator candidate, the two power counters kept beside them, and   *)
(* the heights of the blocks it did not sign (block_marker.go).            *)
(*                                                                         *)
(* An amount is counted in units of AmountPerPower, so a stake's power is  *)
(* also its amount.  Addresses are numbers, compared as the code compares  *)
(* the bytes of an address.                                                *)
(***************************************************************************)
EXTENDS Integers, Sequences
LOCAL INSTANCE SequencesExt

NewStakeWithPower(from, hash, power) ==
    [From |-> from, TxHash |-> hash, Power |-> power, RefundHeight |-> 0]

NewDelegatee ==
    [SelfPower |-> 0, TotalPower |-> 0, Stakes |-> << >>, NotSigned |-> << >>]

-----------------------------------------------------------------------------
(* The power that matching stakes add up to. *)
SumPower(stakes) == FoldSeq(LAMBDA s, sum : s.Power + sum, 0, stakes)

sumPowerOf(stakes, addr) ==
    SumPower(SelectSeq(stakes, LAMBDA s : s.From = addr))

addStake(d, addr, s) ==
    [d EXCEPT !.Stakes = Append(@, s),
              !.SelfPower = IF s.From = addr THEN @ + s.Power ELSE @,
              !.TotalPower = @ + s.Power]

(* The first stake with this hash, when there is one. *)
HasStake(d, hash) == \E i \in DOMAIN d.Stakes : d.Stakes[i].TxHash = hash

FindStake(d, hash) ==
    d.Stakes[SelectInSeq(d.Stakes, LAMBDA s : s.TxHash = hash)]

delStakeByHash(stakes, hash) ==
    RemoveFirstMatch(stakes, LAMBDA s : s.TxHash = hash)

DelStake(d, addr, hash) ==
    LET s == FindStake(d, hash)
    IN  [d EXCEPT !.Stakes = delStakeByHash(@, hash),
                  !.SelfPower = IF s.From = addr THEN @ - s.Power ELSE @,
                  !.TotalPower = @ - s.Power]

(* The delegatee keeps its SelfPower; the caller takes the stakes. *)
DelAllStakes(d) ==
    [d EXCEPT !.Stakes = << >>, !.TotalPower = @ - SumPower(d.Stakes)]

(* Integer division: the ratio is in percent. *)
SelfStakeRatio(d, added) == (d.SelfPower * 100) \div (d.TotalPower + added)

-----------------------------------------------------------------------------
Cut(s, ratio) == (s.Power * ratio) \div 100

SlashedStakes(d, ratio) ==
    LET cut(s) == [s EXCEPT !.Power = @ - Cut(s, ratio)]
        small == SelectSeq(d.Stakes, LAMBDA s : Cut(s, ratio) < 1)
        reduced == [i \in DOMAIN d.Stakes |->
                        IF Cut(d.Stakes[i], ratio) < 1 THEN d.Stakes[i]
                                                       ELSE cut(d.Stakes[i])]
    IN  FoldLeft(LAMBDA left, s : delStakeByHash(left, s.TxHash), reduced, small)

\* A bug: the stakes are cut and the counters are left as they were.
doSlashAllKeepsPower(d, addr, ratio) ==
    [d EXCEPT !.Stakes = SlashedStakes(d, ratio)]

(* Every stake loses ratio percent, rounded down; a stake that would lose  *)
(* less than one unit of power is taken away whole.  Both counters are     *)
(* computed again from the stakes that are left.                           *)
doSlashAll(d, addr, ratio) ==
    LET left == SlashedStakes(d, ratio)
    IN  [d EXCEPT !.Stakes = left,
                  !.SelfPower = sumPowerOf(left, addr),
                  !.TotalPower = SumPower(left)]

-----------------------------------------------------------------------------
(* BlockMarker: an increasing sequence of heights. *)
Mark(heights, h) ==
    IF heights # << >> /\ Last(heights) >= h THEN heights ELSE Append(heights, h)

InWindow(heights, h0, h1) == SelectSeq(heights, LAMBDA h : h0 <= h /\ h <= h1)

CountInWindow(heights, h0, h1) == Len(InWindow(heights, h0, h1))

(* What CountInWindow leaves when it rewinds: it drops the heights before   *)
(* the window only when there are two of them or more (preIdx > 0).         *)
Rewound(heights, h0) ==
    LET before == SelectSeq(heights, LAMBDA h : h < h0)
    IN  IF Len(before) > 1 THEN SubSeq(heights, Len(before) + 1, Len(heights))
                           ELSE heights
=============================================================================
