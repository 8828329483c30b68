----------------------------- MODULE GovCtrler -----------------------------
(***************************************************************************)
(* Governance (ctrlers/gov): validators propose changes of the governance  *)
(* parameters and vote on them; a proposal with a majority is frozen when  *)
(* its voting ends and applied later.  The controller works on three       *)
(* ledgers (proposals, frozen proposals, parameters) and keeps the         *)
(* parameters in force in memory.                                          *)
(*                                                                         *)
(* The parameters are a record of a few fields; 0 is "not given", which is *)
(* how MergeGovParams reads an option.  The validators and their powers    *)
(* come from the stake controller and are constants here.                  *)
(***************************************************************************)
EXTENDS LedgerOps, Folding, FiniteSets

CONSTANTS
    Powers,               \* [validator -> power], from StakeHandler.Validators
    Fields,               \* the governance parameters
    Ballots,              \* [type, options]: what may be proposed
    Unreadable,           \* options that parse when proposed and not when applied
    GenesisParams,
    SlashRatio, VotingPeriods, LazyApplyingBlocks,
    Delays,               \* how much later than the minimum to apply
    MaxProposals, MaxVotes, MaxEvidence, MaxHeight    \* bounds

Params == [Fields -> Nat]

(* The votes of a proposal, and what may be proposed. *)
Validators == DOMAIN Powers
Voter == [Power : Nat \ {0}, Choice : Nat]
Texts == UNION {{b.options[i] : i \in DOMAIN b.options} : b \in Ballots}
Option == [option : Texts, votes : Int]

Proposal ==
    [StartVotingHeight : Nat, EndVotingHeight : Nat, ApplyingHeight : Nat,
     TotalVotingPower : Int, MajorityPower : Int,
     Voters : UNION {[S -> Voter] : S \in SUBSET Validators},
     OptType : {b.type : b \in Ballots},
     Options : Seq(Option), MajorOption : Option \union {None}]

ASSUME GovAssumption ==
    /\ IsFiniteSet(Validators) /\ \A v \in Validators : Powers[v] \in Nat \ {0}
    /\ GenesisParams \in Params
    /\ SlashRatio \in 0 .. 100
    /\ LazyApplyingBlocks \in Nat /\ VotingPeriods \subseteq Nat /\ Delays \subseteq Nat
    /\ \A bound \in {MaxProposals, MaxVotes, MaxEvidence, MaxHeight} : bound \in Nat

(* ValidateTrx wants at least one option; those of a change of the         *)
(* parameters have to parse.                                               *)
ASSUME BallotAssumption ==
    \A b \in Ballots : /\ b.options # << >> /\ b.options \in Seq(Texts)
                       /\ b.type = "govparams" => b.options \in Seq(Params)

ASSUME NoneAssumption == None \notin Params /\ None \notin Option /\ None \notin Proposal

VARIABLES
    phase, height,        \* idle, executing, ended or panicked
    proposals, frozen,    \* ledgers of proposals: [tree, o]
    params,               \* ledger of the parameters: [tree, upd]
    govParams,            \* the parameters in force
    newGovParams,         \* those in force from the next Commit, or None
    proposed, votes, evidence,    \* how much of each bound is used
    expected, clashed     \* history variables: the parameters if no change is
                          \* lost, and whether one block applied two

vars == <<phase, height, proposals, frozen, params, govParams, newGovParams,
          proposed, votes, evidence, expected, clashed>>

Ids == 1 .. MaxProposals
Choices == UNION {DOMAIN b.options : b \in Ballots}

Found(l, k) == Lookup(l.o, l.tree, k)
View(l) == Merge(l.o, l.tree)
Set(l, k, v) == [l EXCEPT !.o = Put(@, k, v)]

\* SetFinality of each item of g, and DelFinality of each key in S, in any order.
SetEach(l, g) ==
    [l EXCEPT !.o.upd = [k \in DOMAIN @ |-> IF k \in DOMAIN g THEN g[k] ELSE @[k]]]
DelEach(l, S) ==
    LET found == {k \in S : Found(l, k) # None}
    IN  [l EXCEPT !.o.upd = [k \in DOMAIN @ |-> IF k \in found THEN None ELSE @[k]],
                  !.o.rem = @ \union found]

Saved(l) == [tree |-> View(l), o |-> NewOverlay(DOMAIN l.tree)]
Empty(K) == [tree |-> NewTree(K), o |-> NewOverlay(K)]
Present(t) == {k \in DOMAIN t : t[k] # None}
Last(S) == CHOOSE k \in S : \A j \in S : j <= k

Init ==
    /\ phase = "idle" /\ height = 0
    /\ proposals = Empty(Ids) /\ frozen = Empty(Ids)
    /\ params = [tree |-> None, upd |-> GenesisParams]
    /\ govParams = GenesisParams /\ newGovParams = None
    /\ proposed = 0 /\ votes = 0 /\ evidence = 0
    /\ expected = GenesisParams /\ clashed = FALSE

-----------------------------------------------------------------------------
(* proposal.go *)

\* A bug: one third is enough.
MajorityPowerThird(total) == total \div 3

MajorityPower(total) == (total * 2) \div 3

NewGovProposal(ballot, start, period, applying) ==
    LET total == SumOf(Powers, Validators)
    IN  [StartVotingHeight |-> start, EndVotingHeight |-> start + period,
         ApplyingHeight |-> applying, TotalVotingPower |-> total,
         MajorityPower |-> MajorityPower(total),
         Voters |-> [v \in Validators |-> [Power |-> Powers[v], Choice |-> 0]],
         OptType |-> ballot.type,
         Options |-> [i \in DOMAIN ballot.options |->
                        [option |-> ballot.options[i], votes |-> 0]],
         MajorOption |-> None]

(* Choice 0 is NOT_CHOICE; the code counts options from 0. *)
cancelVote(p, v) ==
    LET voter == p.Voters[v]
    IN  IF voter.Choice = 0 THEN p
        ELSE [p EXCEPT !.Options[voter.Choice].votes = @ - voter.Power,
                       !.Voters[v].Choice = 0]

doVote(p, v, choice) ==
    IF choice = 0 THEN p
    ELSE [p EXCEPT !.Options[choice].votes = @ + p.Voters[v].Power,
                   !.Voters[v].Choice = choice]

DoVote(p, v, choice) == doVote(cancelVote(p, v), v, choice)

\* A bug: the punished voter's vote is not taken back first.
DoPunishKeepsVote(p, v) ==
    LET cut == (p.Voters[v].Power * SlashRatio) \div 100
        total == p.TotalVotingPower - cut
    IN  [p EXCEPT !.Voters[v].Power = @ - cut,
                  !.TotalVotingPower = total, !.MajorityPower = MajorityPower(total)]

(* What a voter loses, and the proposal with v's vote taken back and its   *)
(* power cut.                                                              *)
Cut(p, v) == (p.Voters[v].Power * SlashRatio) \div 100
Weaker(p, v) == [cancelVote(p, v) EXCEPT !.Voters[v].Power = @ - Cut(p, v)]

(* A voter that was punished votes on with the power it has left; without  *)
(* power it is no voter any more.  Nothing happens to one who is none.     *)
DoPunish(p, v) ==
    LET counted == IF Weaker(p, v).Voters[v].Power <= 0
                   THEN [Weaker(p, v) EXCEPT !.Voters =
                            [w \in DOMAIN p.Voters \ {v} |-> p.Voters[w]]]
                   ELSE doVote(Weaker(p, v), v, p.Voters[v].Choice)
        total == p.TotalVotingPower - Cut(p, v)
    IN  IF v \notin DOMAIN p.Voters THEN p
        ELSE [counted EXCEPT !.TotalVotingPower = total, !.MajorityPower = MajorityPower(total)]

(* The options are sorted by votes; the first of the best stays first. *)
Best(p) == CHOOSE i \in DOMAIN p.Options :
    /\ \A j \in DOMAIN p.Options : p.Options[j].votes <= p.Options[i].votes
    /\ \A j \in 1 .. (i - 1) : p.Options[j].votes < p.Options[i].votes

updateMajorOption(p) ==
    IF p.Options[Best(p)].votes >= p.MajorityPower
    THEN [p EXCEPT !.MajorOption = p.Options[Best(p)]]
    ELSE p
-----------------------------------------------------------------------------
(* ctrler.go *)

(* doPunish looks for the voter in the committed proposals, and punishes   *)
(* it in the proposals of this block.                                      *)
doPunish(ps, v) ==
    SetEach(ps, [k \in {j \in Present(ps.tree) : v \in DOMAIN ps.tree[j].Voters} |->
                    DoPunish(Found(ps, k), v)])

(* byzantines is the list of evidence in the block; it may name a          *)
(* validator more than once.                                               *)
BeginBlock(byzantines) ==
    /\ phase = "idle" /\ height < MaxHeight
    /\ evidence + Len(byzantines) <= MaxEvidence
    /\ phase' = "executing" /\ height' = height + 1
    /\ evidence' = evidence + Len(byzantines)
    /\ proposals' = FoldLeft(doPunish, proposals, byzantines)
    /\ UNCHANGED <<frozen, params, govParams, newGovParams, proposed, votes, expected, clashed>>

(* The smallest height a proposal may ask to be applied at. *)
MinApplyingHeight(end) == end + LazyApplyingBlocks

execProposing(ballot, start, period, applying) ==
    /\ phase = "executing" /\ proposed < MaxProposals
    /\ start > height
    /\ applying >= MinApplyingHeight(start + period)
    /\ proposed' = proposed + 1
    /\ proposals' = Set(proposals, proposed + 1,
                        NewGovProposal(ballot, start, period, applying))
    /\ UNCHANGED <<phase, height, frozen, params, govParams, newGovParams, votes,
                   evidence, expected, clashed>>

\* A bug: no end of voting.
execVotingLate(v, k, choice) ==
    LET p == Found(proposals, k)
    IN  /\ phase = "executing" /\ votes < MaxVotes
        /\ p # None /\ v \in DOMAIN p.Voters /\ choice \in DOMAIN p.Options
        /\ height >= p.StartVotingHeight
        /\ votes' = votes + 1
        /\ proposals' = Set(proposals, k, DoVote(p, v, choice))
        /\ UNCHANGED <<phase, height, frozen, params, govParams, newGovParams, proposed,
                       evidence, expected, clashed>>

execVoting(v, k, choice) ==
    LET p == Found(proposals, k)
    IN  /\ phase = "executing" /\ votes < MaxVotes
        /\ p # None /\ v \in DOMAIN p.Voters /\ choice \in DOMAIN p.Options
        /\ p.StartVotingHeight <= height /\ height <= p.EndVotingHeight
        /\ votes' = votes + 1
        /\ proposals' = Set(proposals, k, DoVote(p, v, choice))
        /\ UNCHANGED <<phase, height, frozen, params, govParams, newGovParams, proposed,
                       evidence, expected, clashed>>

-----------------------------------------------------------------------------
(* EndBlock reads the committed proposals, in the order of their keys. *)

Ended == {k \in Present(proposals.tree) : proposals.tree[k].EndVotingHeight < height}

(* Those of them with a majority, as frozenLedger takes them. *)
Agreed == {k \in Ended : updateMajorOption(proposals.tree[k]).MajorOption # None}

freezeProposals == SetEach(frozen, [k \in Agreed |-> updateMajorOption(proposals.tree[k])])

\* A bug: one block late.
DueLate == {k \in Present(frozen.tree) : frozen.tree[k].ApplyingHeight < height}

Due == {k \in Present(frozen.tree) : frozen.tree[k].ApplyingHeight <= height}

\* A bug: a field that is not given is cleared.
MergeGovParamsClears(old, new) == new

MergeGovParams(old, new) == [f \in Fields |-> IF new[f] = 0 THEN old[f] ELSE new[f]]

Changing == {k \in Due : frozen.tree[k].OptType = "govparams"}

Change(k) == frozen.tree[k].MajorOption.option

(* ValidateTrx parses an option as it is; applyProposals first rewrites    *)
(* one that ends in an empty string, and then parses it.                   *)
Readable == \A k \in Changing : Change(k) \notin Unreadable

(* Each field from the last change that gives it. *)
AllChanges(old) ==
    LET giving(f) == {k \in Changing : Change(k)[f] # 0}
    IN  [f \in Fields |-> IF giving(f) = {} THEN old[f] ELSE Change(Last(giving(f)))[f]]

(* Each change is merged into the parameters in force; the last one, in    *)
(* the order of the keys, is kept.                                         *)
applyProposals ==
    IF Changing = {}
    THEN UNCHANGED <<params, newGovParams>>
    ELSE LET new == MergeGovParams(govParams, Change(Last(Changing)))
         IN  params' = [params EXCEPT !.upd = new] /\ newGovParams' = new

(* Freezing adds to frozen before applyProposals deletes from it; a        *)
(* proposal is never in both steps of one block.                           *)
EndBlock ==
    /\ phase = "executing" /\ Readable
    /\ phase' = "ended"
    /\ proposals' = DelEach(proposals, Ended)
    /\ frozen' = DelEach(freezeProposals, Due)
    /\ applyProposals
    /\ expected' = AllChanges(expected)
    /\ clashed' = (clashed \/ \E j, k \in Changing : j # k)
    /\ UNCHANGED <<height, govParams, proposed, votes, evidence>>

(* The error of an option that does not parse is returned by EndBlock, and *)
(* RigoApp.EndBlock panics with it: what the block did in memory is gone.  *)
EndBlockFails ==
    /\ phase = "executing" /\ ~Readable
    /\ phase' = "panicked"
    /\ UNCHANGED <<height, proposals, frozen, params, govParams, newGovParams, proposed, votes,
                   evidence, expected, clashed>>

SavedParams == IF params.upd = None THEN params.tree ELSE params.upd

\* A bug: the parameters in force are left as they were.
CommitKeepsParams ==
    /\ phase = "ended"
    /\ phase' = "idle"
    /\ params' = [tree |-> SavedParams, upd |-> None]
    /\ proposals' = Saved(proposals)
    /\ frozen' = Saved(frozen)
    /\ newGovParams' = None
    /\ UNCHANGED <<height, govParams, proposed, votes, evidence, expected, clashed>>

Commit ==
    /\ phase = "ended"
    /\ phase' = "idle"
    /\ params' = [tree |-> SavedParams, upd |-> None]
    /\ proposals' = Saved(proposals)
    /\ frozen' = Saved(frozen)
    /\ govParams' = IF newGovParams = None THEN govParams ELSE newGovParams
    /\ newGovParams' = None
    /\ UNCHANGED <<height, proposed, votes, evidence, expected, clashed>>

(* NewGovCtrler on the committed ledgers. *)
Restart ==
    /\ phase = "idle" /\ height > 0
    /\ govParams' = params.tree
    /\ newGovParams' = None
    /\ UNCHANGED <<phase, height, proposals, frozen, params, proposed, votes, evidence,
                   expected, clashed>>

Next ==
    \/ \E n \in 0 .. MaxEvidence : \E byzantines \in [1 .. n -> Validators] :
            BeginBlock(byzantines)
    \/ \E ballot \in Ballots, period \in VotingPeriods, wait \in Delays :
            execProposing(ballot, height + 1, period,
                          MinApplyingHeight(height + 1 + period) + wait)
    \/ \E v \in Validators, k \in Ids, choice \in Choices : execVoting(v, k, choice)
    \/ EndBlock
    \/ EndBlockFails
    \/ Commit
    \/ Restart

Spec == Init /\ [][Next]_vars

-----------------------------------------------------------------------------
Later(m, n) == IF m < n THEN n ELSE m

(* An option has the powers of those who chose it, and the total is that   *)
(* of all voters.                                                          *)
Tallies(p) ==
    LET power == [v \in DOMAIN p.Voters |-> p.Voters[v].Power]
    IN  /\ \A i \in DOMAIN p.Options :
                p.Options[i].votes =
                    SumOf(power, {v \in DOMAIN p.Voters : p.Voters[v].Choice = i})
        /\ p.TotalVotingPower = SumOf(power, DOMAIN p.Voters)

(* The counts a proposal carries agree with its voters through votes,      *)
(* changed votes and punishments (DoVote, DoPunish).                       *)
TallyMatches == \A k \in Present(View(proposals)) : Tallies(View(proposals)[k])

(* A proposal waits to be applied only if more than half of the voting     *)
(* power chose its option (updateMajorOption), from a total of 5 on: below *)
(* that, rounding two thirds down lets a half, or nobody, be a majority.   *)
AgreedByMajority ==
    \A k \in Present(View(frozen)) :
        LET p == View(frozen)[k]
        IN  p.TotalVotingPower >= 5 => 2 * p.MajorOption.votes > p.TotalVotingPower

(* What is frozen is the final tally: the copy that freezeProposals takes  *)
(* from the committed tree has the votes of the block's own state, unless  *)
(* a voter was punished in that very block.                                *)
FrozenAsVoted ==
    [][\A k \in Ids :
        (/\ View(proposals)[k] # None /\ View(frozen)[k] = None /\ View(frozen)'[k] # None
         /\ View(frozen)'[k].TotalVotingPower = View(proposals)[k].TotalVotingPower)
        => View(frozen)'[k] = updateMajorOption(View(proposals)[k])]_vars

(* A frozen proposal is applied in one block and no other: the later of    *)
(* its ApplyingHeight and the second block after its voting (EndBlock      *)
(* reads the frozen proposals committed before).                           *)
AppliedOnTime ==
    [][phase = "executing" /\ phase' = "ended" => \A k \in Present(View(frozen)) :
            LET p == View(frozen)[k]
            IN  View(frozen)'[k] = None <=>
                    height = Later(p.ApplyingHeight, p.EndVotingHeight + 2)]_vars

(* Between blocks the parameters in force are the committed ones, so a     *)
(* node that restarts goes on with the same (Commit, NewGovCtrler).        *)
ParamsInForce == phase = "idle" /\ height > 0 => govParams = params.tree

(* No agreed change is lost, as long as no two are applied in one block:   *)
(* each is merged into the parameters all earlier ones left.               *)
EachChangeKept == phase = "idle" => clashed \/ govParams = expected
=============================================================================
