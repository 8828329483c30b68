-------------------------- MODULE GovCtrlerProofs --------------------------
(***************************************************************************)
(* The tallies of GovCtrler are right, what is frozen is what was voted    *)
(* for by a majority and is applied in one block, and no change of the     *)
(* parameters is lost, for any validators, powers, ballots and bounds.     *)
(*                                                                         *)
(* The invariant says of a proposal that is open (Open) that its counts    *)
(* are right, of one that is frozen (Settled) that it has a majority, and  *)
(* for each phase of a block how the committed proposals, those of the     *)
(* block and the height belong together.                                   *)
(***************************************************************************)
EXTENDS GovCtrler, FoldTheorems

(* A proposal that can be voted on. *)
Open ==
    {p \in Proposal :
        /\ Tallies(p)
        /\ p.MajorityPower = MajorityPower(p.TotalVotingPower)
        /\ p.MajorOption = None /\ p.Options # << >>
        /\ p.OptType = "govparams" => \A i \in DOMAIN p.Options : p.Options[i].option \in Params
        /\ \A v \in DOMAIN p.Voters : p.Voters[v].Choice \in {0} \union DOMAIN p.Options}

(* A proposal that has a majority. *)
Settled ==
    {p \in Proposal :
        /\ p.MajorOption \in Option
        /\ p.MajorOption.votes >= MajorityPower(p.TotalVotingPower)
        /\ p.OptType = "govparams" => p.MajorOption.option \in Params}

ProposalTree == [Ids -> Proposal \union {None}]
ProposalLedger == [tree : ProposalTree, o : [upd : ProposalTree, rem : SUBSET Ids]]

Types ==
    /\ phase \in {"idle", "executing", "ended", "panicked"} /\ height \in Nat
    /\ proposals \in ProposalLedger /\ frozen \in ProposalLedger
    /\ params \in [tree : Params \union {None}, upd : Params \union {None}]
    /\ govParams \in Params /\ newGovParams \in Params \union {None}
    /\ proposed \in Nat /\ expected \in Params

(* What a block has changed so far. *)
Overlays ==
    /\ phase = "idle" => proposals.o = NewOverlay(Ids)
    /\ phase = "executing" => proposals.o.rem = {}
    /\ phase # "ended" => frozen.o = NewOverlay(Ids)

(* How far the end of a proposal's voting lies back at most: one block     *)
(* more before EndBlock.                                                   *)
Slack == IF phase = "executing" \/ phase = "panicked" THEN 1 ELSE 0

OpenOnes ==
    \A k \in Ids : View(proposals)[k] # None =>
        /\ View(proposals)[k] \in Open /\ k <= proposed
        /\ View(frozen)[k] = None
        /\ View(proposals)[k].EndVotingHeight + Slack >= height

(* A committed proposal whose voting is over differs from that of the      *)
(* block only by punishments; the voting on a new one is not over.         *)
Committed ==
    phase = "executing" => \A k \in Ids :
        LET old == proposals.tree[k]
            new == View(proposals)[k]
        IN  /\ old = None /\ new # None => new.EndVotingHeight >= height
            /\ old # None =>
                   /\ old \in Open /\ new.EndVotingHeight = old.EndVotingHeight
                   /\ old.EndVotingHeight < height =>
                          new = old \/ new.TotalVotingPower < old.TotalVotingPower

FrozenOnes ==
    \A k \in Ids : View(frozen)[k] # None =>
        LET p == View(frozen)[k]
        IN  /\ p \in Settled /\ k <= proposed
            /\ p.EndVotingHeight + 1 + Slack <= height
            /\ Later(p.ApplyingHeight, p.EndVotingHeight + 2) + Slack > height

ParamsKept ==
    /\ SavedParams = IF newGovParams = None THEN govParams ELSE newGovParams
    /\ phase # "ended" => newGovParams = None
    /\ phase = "idle" /\ height > 0 => params.upd = None
    /\ clashed \/ expected = SavedParams

IInv == Types /\ Overlays /\ OpenOnes /\ Committed /\ FrozenOnes /\ ParamsKept

-----------------------------------------------------------------------------
(* Tallies, as sums over all validators. *)

WeightIn(p, i) ==
    [v \in Validators |-> IF v \in DOMAIN p.Voters /\ p.Voters[v].Choice = i
                          THEN p.Voters[v].Power ELSE 0]

WeightOf(p) == [v \in Validators |-> IF v \in DOMAIN p.Voters THEN p.Voters[v].Power ELSE 0]

\* The voters of a proposal are validators, and its options a sequence.
LEMMA ProposalIs ==
    ASSUME NEW p \in Proposal
    PROVE  /\ DOMAIN p.Voters \subseteq Validators
           /\ p.Voters \in [DOMAIN p.Voters -> Voter]
           /\ \A v \in DOMAIN p.Voters :
                p.Voters[v].Power \in Nat \ {0} /\ p.Voters[v].Choice \in Nat
           /\ p.Options \in Seq(Option)
           /\ \A i \in DOMAIN p.Options : p.Options[i] \in Option /\ p.Options[i].votes \in Int
           /\ p.TotalVotingPower \in Int /\ p.MajorityPower \in Int
           /\ p.EndVotingHeight \in Nat /\ p.ApplyingHeight \in Nat
<1>1. PICK S \in SUBSET Validators : p.Voters \in [S -> Voter]
    BY Zenon DEF Proposal
<1>2. \A v \in S : p.Voters[v].Power \in Nat \ {0} /\ p.Voters[v].Choice \in Nat
    BY <1>1, Zenon DEF Voter
<1>3. p.Options \in Seq(Option)
    BY DEF Proposal
<1>4. ASSUME NEW i \in DOMAIN p.Options PROVE p.Options[i] \in Option /\ p.Options[i].votes \in Int
  <2>1. p.Options[i] \in Option
      BY <1>3
  <2> QED BY <2>1, Zenon DEF Option
<1>5. /\ p.TotalVotingPower \in Int /\ p.MajorityPower \in Int
      /\ p.EndVotingHeight \in Nat /\ p.ApplyingHeight \in Nat
    BY DEF Proposal
<1> QED BY <1>1, <1>2, <1>3, <1>4, <1>5, Zenon

\* The weights are numbers.
LEMMA WeightsAre ==
    ASSUME NEW p \in Proposal, NEW i
    PROVE  \A v \in Validators : WeightIn(p, i)[v] \in Int /\ WeightOf(p)[v] \in Int
    BY ProposalIs DEF WeightIn, WeightOf

\* Tallies in terms of the weights.
LEMMA TalliesAre ==
    ASSUME NEW p \in Proposal
    PROVE  Tallies(p) <=>
               /\ \A i \in DOMAIN p.Options : p.Options[i].votes = SumOf(WeightIn(p, i), Validators)
               /\ p.TotalVotingPower = SumOf(WeightOf(p), Validators)
<1> DEFINE D == DOMAIN p.Voters
           power == [v \in D |-> p.Voters[v].Power]
           Of(i) == {v \in D : p.Voters[v].Choice = i}
<1>1. IsFiniteSet(Validators) /\ D \subseteq Validators /\ \A v \in D : p.Voters[v].Power \in Int
    BY GovAssumption, ProposalIs
<1>2. ASSUME NEW i PROVE SumOf(power, Of(i)) = SumOf(WeightIn(p, i), Validators)
  <2> DEFINE f == WeightIn(p, i)
             C == Of(i)
  <2>1. C \subseteq Validators /\ IsFiniteSet(C)
      BY <1>1, FiniteSubset, Zenon
  <2>2. \A v \in C : power[v] \in Int /\ power[v] = f[v]
      BY <1>1, Zenon DEF WeightIn
  <2>3. \A v \in Validators \ C : f[v] = 0
      BY Zenon DEF WeightIn
  <2>4. \A v \in Validators : f[v] \in Int
      BY WeightsAre
  <2> HIDE DEF f, C, power
  <2>5. SumOf(power, C) = SumOf(f, C)
      BY <2>1, <2>2, SumSame, Zenon
  <2>6. SumOf(f, Validators) = SumOf(f, C)
      BY <1>1, <2>1, <2>3, <2>4, SumSupport, Zenon
  <2> QED BY <2>5, <2>6, Zenon DEF C, f
<1>3. SumOf(power, D) = SumOf(WeightOf(p), Validators)
  <2> DEFINE f == WeightOf(p)
  <2>1. IsFiniteSet(D)
      BY <1>1, FiniteSubset, Zenon
  <2>2. \A v \in D : power[v] \in Int /\ power[v] = f[v]
      BY <1>1, Zenon DEF WeightOf
  <2>3. \A v \in Validators \ D : f[v] = 0
      BY DEF WeightOf
  <2>4. \A v \in Validators : f[v] \in Int
      BY WeightsAre
  <2> HIDE DEF f, D, power
  <2>5. SumOf(power, D) = SumOf(f, D)
      BY <2>1, <2>2, SumSame, Zenon
  <2>6. SumOf(f, Validators) = SumOf(f, D)
      BY <1>1, <2>3, <2>4, SumSupport, Zenon
  <2> QED BY <2>5, <2>6, Zenon DEF f
<1>4. Tallies(p) <=> /\ \A i \in DOMAIN p.Options : p.Options[i].votes = SumOf(power, Of(i))
                     /\ p.TotalVotingPower = SumOf(power, D)
    BY Zenon DEF Tallies
<1> HIDE DEF D, power, Of
<1> QED BY <1>2, <1>3, <1>4, Zenon

(* Only v's weight differs between p and q. *)
Others(p, q, v) ==
    /\ DOMAIN q.Options = DOMAIN p.Options
    /\ \A w \in Validators \ {v} :
          /\ w \in DOMAIN p.Voters <=> w \in DOMAIN q.Voters
          /\ w \in DOMAIN p.Voters => q.Voters[w] = p.Voters[w]

(* Each count has moved by what v's weight has. *)
MovedBy(p, q, v) ==
    /\ \A i \in DOMAIN p.Options :
          q.Options[i].votes = p.Options[i].votes + (WeightIn(q, i)[v] - WeightIn(p, i)[v])
    /\ q.TotalVotingPower = p.TotalVotingPower + (WeightOf(q)[v] - WeightOf(p)[v])

\* When one voter's weight changes and the counts follow, they stay right.
LEMMA OneVoter ==
    ASSUME NEW p \in Proposal, NEW q \in Proposal, NEW v \in Validators,
           Tallies(p), Others(p, q, v), MovedBy(p, q, v)
    PROVE  Tallies(q)
<1>1. IsFiniteSet(Validators)
    BY GovAssumption, Zenon
<1>2. /\ \A i \in DOMAIN p.Options : p.Options[i].votes = SumOf(WeightIn(p, i), Validators)
      /\ p.TotalVotingPower = SumOf(WeightOf(p), Validators)
    BY TalliesAre, Zenon
<1>3. ASSUME NEW i \in DOMAIN q.Options PROVE q.Options[i].votes = SumOf(WeightIn(q, i), Validators)
  <2> DEFINE f == WeightIn(p, i)
             g == WeightIn(q, i)
  <2>1. \A w \in Validators : f[w] \in Int /\ g[w] \in Int
      BY WeightsAre, Zenon
  <2>2. \A w \in Validators \ {v} : f[w] = g[w]
      BY Zenon DEF Others, WeightIn
  <2>3. q.Options[i].votes = SumOf(f, Validators) + (g[v] - f[v])
      BY <1>2, Zenon DEF MovedBy, Others
  <2> HIDE DEF f, g
  <2>4. SumOf(g, Validators) = SumOf(f, Validators) + (g[v] - f[v])
      BY <1>1, <2>1, <2>2, SumChange
  <2> QED BY <2>3, <2>4, Zenon DEF g
<1>4. q.TotalVotingPower = SumOf(WeightOf(q), Validators)
  <2> DEFINE f == WeightOf(p)
             g == WeightOf(q)
  <2>1. \A w \in Validators : f[w] \in Int /\ g[w] \in Int
      BY WeightsAre, Zenon
  <2>2. \A w \in Validators \ {v} : f[w] = g[w]
      BY Zenon DEF Others, WeightOf
  <2>3. q.TotalVotingPower = SumOf(f, Validators) + (g[v] - f[v])
      BY <1>2, Zenon DEF MovedBy
  <2> HIDE DEF f, g
  <2>4. SumOf(g, Validators) = SumOf(f, Validators) + (g[v] - f[v])
      BY <1>1, <2>1, <2>2, SumChange
  <2> QED BY <2>3, <2>4, Zenon DEF g
<1> QED BY <1>3, <1>4, TalliesAre, Zenon

-----------------------------------------------------------------------------
(* What voting and punishing do to a proposal. *)

SameHead(p, q) ==
    /\ q.StartVotingHeight = p.StartVotingHeight
    /\ q.EndVotingHeight = p.EndVotingHeight
    /\ q.ApplyingHeight = p.ApplyingHeight
    /\ q.OptType = p.OptType /\ q.MajorOption = p.MajorOption

(* q is p with other voters, and change[i] more votes for option i. *)
Recounted(p, q, voters, change) ==
    /\ q \in Proposal /\ SameHead(p, q)
    /\ q.TotalVotingPower = p.TotalVotingPower /\ q.MajorityPower = p.MajorityPower
    /\ q.Voters = voters
    /\ DOMAIN q.Options = DOMAIN p.Options
    /\ \A i \in DOMAIN p.Options :
          /\ q.Options[i].option = p.Options[i].option
          /\ q.Options[i].votes = p.Options[i].votes + change[i]

VoterMaps == UNION {[S -> Voter] : S \in SUBSET Validators}

Having(p, options, voters) == [p EXCEPT !.Options = options, !.Voters = voters]

\* Other voters and votes leave a proposal one.
LEMMA Replaced ==
    ASSUME NEW p \in Proposal, NEW voters \in VoterMaps, NEW options \in Seq(Option)
    PROVE  LET q == Having(p, options, voters)
           IN  /\ q \in Proposal /\ SameHead(p, q)
               /\ q.TotalVotingPower = p.TotalVotingPower /\ q.MajorityPower = p.MajorityPower
               /\ q.Voters = voters /\ q.Options = options
    BY Zenon DEF Having, Proposal, VoterMaps, SameHead

\* Other voters alone.
LEMMA OtherVoters ==
    ASSUME NEW p \in Proposal, NEW a, NEW b
    PROVE  /\ [p EXCEPT !.Voters = a] = Having(p, p.Options, a)
           /\ [[p EXCEPT !.Voters = a] EXCEPT !.Voters = b] = Having(p, p.Options, b)
    BY Zenon DEF Having, Proposal

\* The voters stay validators when one of them changes or goes.
LEMMA VotersStay ==
    ASSUME NEW p \in Proposal, NEW v \in DOMAIN p.Voters
    PROVE  /\ p.Voters \in VoterMaps
           /\ \A x \in Voter : [p.Voters EXCEPT ![v] = x] \in VoterMaps
           /\ [w \in DOMAIN p.Voters \ {v} |-> p.Voters[w]] \in VoterMaps
<1> DEFINE D == DOMAIN p.Voters
<1>1. D \in SUBSET Validators /\ D \ {v} \in SUBSET Validators /\ p.Voters \in [D -> Voter]
    BY ProposalIs, Zenon
<1>2. \A x \in Voter : [p.Voters EXCEPT ![v] = x] \in [D -> Voter]
    BY <1>1, Zenon
<1>3. [w \in D \ {v} |-> p.Voters[w]] \in [D \ {v} -> Voter]
    BY <1>1, Zenon
<1> HIDE DEF D
<1> QED BY <1>1, <1>2, <1>3, Zenon DEF VoterMaps, D

\* The votes for one option change.
LEMMA VotesMove ==
    ASSUME NEW p \in Proposal, NEW c \in DOMAIN p.Options, NEW n \in Int
    PROVE  LET options == [p.Options EXCEPT ![c] = [p.Options[c] EXCEPT !.votes = n]]
           IN  /\ options \in Seq(Option) /\ DOMAIN options = DOMAIN p.Options
               /\ \A i \in DOMAIN p.Options :
                    /\ options[i].option = p.Options[i].option
                    /\ options[i].votes = IF i = c THEN n ELSE p.Options[i].votes
<1> DEFINE x == [p.Options[c] EXCEPT !.votes = n]
<1>1. p.Options \in Seq(Option) /\ p.Options[c] \in Option
    BY ProposalIs, Zenon
<1>2. x \in Option /\ x.option = p.Options[c].option /\ x.votes = n
    BY <1>1, Zenon DEF Option
<1> HIDE DEF x
<1>3. [p.Options EXCEPT ![c] = x] \in Seq(Option)
    BY <1>1, <1>2
<1> QED BY <1>1, <1>2, <1>3, Zenon DEF x

Voted(p, v, choice) ==
    [p.Voters EXCEPT ![v] = [Power |-> p.Voters[v].Power, Choice |-> choice]]

\* n for option c; nothing for no option.
Votes(c, n) == [i \in Nat \ {0} |-> IF i = c THEN n ELSE 0]

\* Nothing changes when nothing is counted.
LEMMA NoRecount ==
    ASSUME NEW p \in Proposal, NEW n
    PROVE  Recounted(p, p, p.Voters, Votes(0, n))
<1>1. \A i \in DOMAIN p.Options : p.Options[i].votes \in Int /\ Votes(0, n)[i] = 0
    BY ProposalIs DEF Votes
<1> QED BY <1>1 DEF Recounted, SameHead

\* A vote that is taken back leaves the count of its option.
LEMMA Cancelled ==
    ASSUME NEW p \in Proposal, NEW v \in DOMAIN p.Voters,
           p.Voters[v].Choice \in {0} \union DOMAIN p.Options
    PROVE  Recounted(p, cancelVote(p, v), Voted(p, v, 0),
                     Votes(p.Voters[v].Choice, 0 - p.Voters[v].Power))
<1> DEFINE c == p.Voters[v].Choice
           n == p.Voters[v].Power
<1>1. /\ c \in Nat /\ n \in Int /\ p.Voters[v] \in Voter
      /\ p.Voters[v] = [Power |-> n, Choice |-> c] /\ [Power |-> n, Choice |-> 0] \in Voter
    BY ProposalIs DEF Voter
<1>2. CASE c = 0
  <2>1. Voted(p, v, 0) = p.Voters
      BY <1>1, <1>2, ProposalIs, Zenon DEF Voted
  <2>2. cancelVote(p, v) = p
      BY <1>2, Zenon DEF cancelVote
  <2> HIDE DEF n
  <2> QED BY <1>2, <2>1, <2>2, NoRecount, Zenon DEF n
<1>3. CASE c # 0
  <2> DEFINE m == p.Options[c].votes - n
             options == [p.Options EXCEPT ![c] = [p.Options[c] EXCEPT !.votes = m]]
             voters == Voted(p, v, 0)
             q == Having(p, options, voters)
  <2>1. c \in DOMAIN p.Options /\ p.Options[c].votes \in Int /\ m \in Int
      BY <1>1, <1>3, ProposalIs
  <2>2. /\ options \in Seq(Option) /\ DOMAIN options = DOMAIN p.Options
        /\ \A i \in DOMAIN p.Options :
               /\ options[i].option = p.Options[i].option
               /\ options[i].votes = IF i = c THEN m ELSE p.Options[i].votes
    <3> HIDE DEF c, m
    <3> QED BY <2>1, VotesMove
  <2>3. voters \in VoterMaps
      BY <1>1, VotersStay, Zenon DEF Voted
  <2>4. voters = [p.Voters EXCEPT ![v] = [p.Voters[v] EXCEPT !.Choice = 0]]
      BY <1>1, Zenon DEF Voted
  <2>5. cancelVote(p, v) = q
      BY <1>3, <2>4, Zenon DEF cancelVote, Having
  <2>6. /\ q \in Proposal /\ SameHead(p, q) /\ q.Voters = voters /\ q.Options = options
        /\ q.TotalVotingPower = p.TotalVotingPower /\ q.MajorityPower = p.MajorityPower
    <3> HIDE DEF options, voters
    <3> QED BY <2>2, <2>3, Replaced
  <2>7. \A i \in DOMAIN p.Options : options[i].votes = p.Options[i].votes + Votes(c, 0 - n)[i]
    <3>1. \A i \in DOMAIN p.Options : i \in Nat \ {0} /\ p.Options[i].votes \in Int
        BY ProposalIs
    <3>2. \A i \in DOMAIN p.Options : Votes(c, 0 - n)[i] = IF i = c THEN 0 - n ELSE 0
        BY <3>1, Zenon DEF Votes
    <3> HIDE DEF options, c, n
    <3> QED BY <1>1, <2>2, <3>1, <3>2
  <2> HIDE DEF q, options, voters, c, n
  <2> QED BY <2>2, <2>5, <2>6, <2>7, ZenonT(60) DEF Recounted, voters, c, n
<1> QED BY <1>2, <1>3, Zenon

\* A vote is counted for the option it is for.
LEMMA Counted ==
    ASSUME NEW p \in Proposal, NEW v \in DOMAIN p.Voters, p.Voters[v].Choice = 0,
           NEW c \in {0} \union DOMAIN p.Options
    PROVE  Recounted(p, doVote(p, v, c), Voted(p, v, c), Votes(c, p.Voters[v].Power))
<1> DEFINE n == p.Voters[v].Power
<1>1. /\ c \in Nat /\ n \in Int /\ p.Voters[v] \in Voter
      /\ p.Voters[v] = [Power |-> n, Choice |-> 0] /\ [Power |-> n, Choice |-> c] \in Voter
    BY ProposalIs DEF Voter
<1>2. CASE c = 0
  <2>1. Voted(p, v, 0) = p.Voters
      BY <1>1, <1>2, ProposalIs, Zenon DEF Voted
  <2>2. doVote(p, v, c) = p
      BY <1>2, Zenon DEF doVote
  <2> HIDE DEF n
  <2> QED BY <1>2, <2>1, <2>2, NoRecount, Zenon DEF n
<1>3. CASE c # 0
  <2> DEFINE m == p.Options[c].votes + n
             options == [p.Options EXCEPT ![c] = [p.Options[c] EXCEPT !.votes = m]]
             voters == Voted(p, v, c)
             q == Having(p, options, voters)
  <2>1. c \in DOMAIN p.Options /\ p.Options[c].votes \in Int /\ m \in Int
      BY <1>1, <1>3, ProposalIs
  <2>2. /\ options \in Seq(Option) /\ DOMAIN options = DOMAIN p.Options
        /\ \A i \in DOMAIN p.Options :
               /\ options[i].option = p.Options[i].option
               /\ options[i].votes = IF i = c THEN m ELSE p.Options[i].votes
    <3> HIDE DEF m
    <3> QED BY <2>1, VotesMove
  <2>3. voters \in VoterMaps
      BY <1>1, VotersStay, Zenon DEF Voted
  <2>4. voters = [p.Voters EXCEPT ![v] = [p.Voters[v] EXCEPT !.Choice = c]]
      BY <1>1, Zenon DEF Voted
  <2>5. doVote(p, v, c) = q
      BY <1>3, <2>4, Zenon DEF doVote, Having
  <2>6. /\ q \in Proposal /\ SameHead(p, q) /\ q.Voters = voters /\ q.Options = options
        /\ q.TotalVotingPower = p.TotalVotingPower /\ q.MajorityPower = p.MajorityPower
    <3> HIDE DEF options, voters
    <3> QED BY <2>2, <2>3, Replaced
  <2>7. \A i \in DOMAIN p.Options : options[i].votes = p.Options[i].votes + Votes(c, n)[i]
    <3>1. \A i \in DOMAIN p.Options : i \in Nat \ {0} /\ p.Options[i].votes \in Int
        BY ProposalIs
    <3> HIDE DEF options, n
    <3> QED BY <1>1, <2>2, <3>1 DEF Votes
  <2> HIDE DEF q, options, voters, n
  <2> QED BY <2>2, <2>5, <2>6, <2>7, Zenon DEF Recounted, voters, n
<1> QED BY <1>2, <1>3, Zenon

SameTexts(p, q) ==
    /\ DOMAIN q.Options = DOMAIN p.Options
    /\ \A i \in DOMAIN p.Options : q.Options[i].option = p.Options[i].option

\* A proposal stays open when the counts follow what one voter does.
LEMMA StaysOpen ==
    ASSUME NEW p \in Open, NEW q \in Proposal, NEW v \in DOMAIN p.Voters,
           SameHead(p, q), SameTexts(p, q), Others(p, q, v), MovedBy(p, q, v),
           q.MajorityPower = MajorityPower(q.TotalVotingPower),
           v \in DOMAIN q.Voters => q.Voters[v].Choice \in {0} \union DOMAIN p.Options
    PROVE  q \in Open
<1>1. p \in Proposal /\ Tallies(p) /\ p.MajorOption = None /\ p.Options # << >>
    BY Zenon DEF Open
<1>2. p.OptType = "govparams" => \A i \in DOMAIN p.Options : p.Options[i].option \in Params
    BY Zenon DEF Open
<1>3. \A w \in DOMAIN p.Voters : p.Voters[w].Choice \in {0} \union DOMAIN p.Options
    BY Zenon DEF Open
<1>4. DOMAIN p.Voters \subseteq Validators /\ DOMAIN q.Voters \subseteq Validators
    BY <1>1, ProposalIs, Zenon
<1>5. Tallies(q)
    BY <1>1, <1>4, OneVoter, Zenon
<1>6. q.Options # << >>
  <2>1. p.Options \in Seq(Option) /\ q.Options \in Seq(Option)
      BY <1>1, ProposalIs, Zenon
  <2>2. 1 \in DOMAIN p.Options
      BY <1>1, <2>1
  <2>3. 1 \in DOMAIN q.Options
      BY <2>2, Zenon DEF SameTexts
  <2> QED BY <2>1, <2>3
<1>7. q.MajorOption = None /\ q.OptType = p.OptType
    BY <1>1, Zenon DEF SameHead
<1>8. q.OptType = "govparams" => \A i \in DOMAIN q.Options : q.Options[i].option \in Params
    BY <1>2, <1>7, Zenon DEF SameTexts
<1>9. \A w \in DOMAIN q.Voters : q.Voters[w].Choice \in {0} \union DOMAIN q.Options
    BY <1>3, <1>4, Zenon DEF Others
<1> QED BY <1>5, <1>6, <1>7, <1>8, <1>9, Zenon DEF Open

\* A voter may change their vote.
LEMMA DoVoteKeeps ==
    ASSUME NEW p \in Open, NEW v \in DOMAIN p.Voters, NEW c \in DOMAIN p.Options
    PROVE  DoVote(p, v, c) \in Open /\ SameHead(p, DoVote(p, v, c))
<1> DEFINE old == p.Voters[v].Choice
           n == p.Voters[v].Power
           r == cancelVote(p, v)
           q == DoVote(p, v, c)
<1>1. p \in Proposal /\ old \in {0} \union DOMAIN p.Options
    BY Zenon DEF Open
<1>2. Recounted(p, r, Voted(p, v, 0), Votes(old, 0 - n))
    BY <1>1, Cancelled, Zenon
<1>3. /\ v \in Validators /\ n \in Int /\ p.Voters[v] = [Power |-> n, Choice |-> old]
      /\ \A i \in DOMAIN p.Options : i \in Nat \ {0} /\ p.Options[i].votes \in Int
    BY <1>1, ProposalIs DEF Voter
<1>4. /\ r \in Proposal /\ DOMAIN r.Options = DOMAIN p.Options /\ r.Voters = Voted(p, v, 0)
      /\ v \in DOMAIN r.Voters /\ r.Voters[v] = [Power |-> n, Choice |-> 0]
    BY <1>2, Zenon DEF Recounted, Voted
<1>5. q = doVote(r, v, c)
    BY DEF DoVote
<1>6. Recounted(r, q, Voted(r, v, c), Votes(c, n))
  <2>1. r.Voters[v].Choice = 0 /\ r.Voters[v].Power = n /\ c \in {0} \union DOMAIN r.Options
      BY <1>4
  <2> HIDE DEF r, q, n
  <2> QED BY <1>4, <1>5, <2>1, Counted, Zenon
<1>7. q.Voters = Voted(p, v, c)
    BY <1>4, <1>6 DEF Recounted, Voted
<1> HIDE DEF r, q, n, old
<1>8. q \in Proposal /\ SameHead(p, q) /\ SameTexts(p, q)
    BY <1>2, <1>6, Zenon DEF Recounted, SameHead, SameTexts
<1>9. Others(p, q, v) /\ v \in DOMAIN q.Voters /\ q.Voters[v] = [Power |-> n, Choice |-> c]
    BY <1>3, <1>7, <1>8, Zenon DEF Others, SameTexts, Voted, n
<1>10. MovedBy(p, q, v)
  <2>1. \A i \in DOMAIN p.Options :
            /\ WeightIn(p, i)[v] = (IF i = old THEN n ELSE 0)
            /\ WeightIn(q, i)[v] = (IF i = c THEN n ELSE 0)
      BY <1>3, <1>9 DEF WeightIn
  <2>2. WeightOf(p)[v] = n /\ WeightOf(q)[v] = n
      BY <1>3, <1>9 DEF WeightOf
  <2>3. q.TotalVotingPower = p.TotalVotingPower /\ p.TotalVotingPower \in Int
      BY <1>1, <1>2, <1>6, ProposalIs, Zenon DEF Recounted
  <2>4. ASSUME NEW i \in DOMAIN p.Options
        PROVE  q.Options[i].votes = (p.Options[i].votes + (IF i = old THEN 0 - n ELSE 0))
                                        + (IF i = c THEN n ELSE 0)
    <3>1. r.Options[i].votes = p.Options[i].votes + Votes(old, 0 - n)[i]
        BY <1>2, Zenon DEF Recounted
    <3>2. q.Options[i].votes = r.Options[i].votes + Votes(c, n)[i]
        BY <1>4, <1>6, Zenon DEF Recounted
    <3> QED BY <1>3, <3>1, <3>2, Zenon DEF Votes
  <2> QED BY <1>3, <2>1, <2>2, <2>3, <2>4 DEF MovedBy
<1>11. q.MajorityPower = MajorityPower(q.TotalVotingPower)
    BY <1>2, <1>6, Zenon DEF Recounted, Open
<1>12. v \in DOMAIN q.Voters => q.Voters[v].Choice \in {0} \union DOMAIN p.Options
    BY <1>9
<1> QED BY <1>8, <1>9, <1>10, <1>11, <1>12, StaysOpen, Zenon DEF q

\* A cut is a part of the power.
LEMMA CutIs ==
    ASSUME NEW p \in Proposal, NEW v \in DOMAIN p.Voters
    PROVE  Cut(p, v) \in Nat /\ Cut(p, v) <= p.Voters[v].Power
<1> DEFINE n == p.Voters[v].Power
<1>1. n \in Nat /\ SlashRatio \in Nat /\ SlashRatio <= 100
    BY ProposalIs, GovAssumption
<1>2. n * SlashRatio \in Nat /\ n * SlashRatio <= n * 100
    BY <1>1
<1>3. (n * SlashRatio) \div 100 \in Nat /\ (n * SlashRatio) \div 100 <= n
    BY <1>1, <1>2
<1> QED BY <1>3, Zenon DEF Cut

Retotalled(p, t) == [p EXCEPT !.TotalVotingPower = t, !.MajorityPower = MajorityPower(t)]

\* Another total leaves a proposal one.
LEMMA RetotalledIs ==
    ASSUME NEW p \in Proposal, NEW t \in Int
    PROVE  LET q == Retotalled(p, t)
           IN  /\ q \in Proposal /\ SameHead(p, q)
               /\ q.TotalVotingPower = t /\ q.MajorityPower = MajorityPower(t)
               /\ q.Voters = p.Voters /\ q.Options = p.Options
<1>1. MajorityPower(t) \in Int
    BY DEF MajorityPower
<1> QED BY <1>1, Zenon DEF Retotalled, Proposal, SameHead

\* A proposal is its fields.
LEMMA SameFields ==
    ASSUME NEW p \in Proposal, NEW q \in Proposal, SameHead(p, q), SameTexts(p, q),
           p.TotalVotingPower = q.TotalVotingPower, p.MajorityPower = q.MajorityPower,
           p.Voters = q.Voters, \A i \in DOMAIN p.Options : p.Options[i].votes = q.Options[i].votes
    PROVE  p = q
<1>1. p.Options \in Seq(Option) /\ q.Options \in Seq(Option)
    BY ProposalIs, Zenon
<1>2. ASSUME NEW i \in DOMAIN p.Options PROVE p.Options[i] = q.Options[i]
  <2>1. p.Options[i] \in Option /\ q.Options[i] \in Option
      BY ProposalIs, Zenon DEF SameTexts
  <2>2. p.Options[i].option = q.Options[i].option /\ p.Options[i].votes = q.Options[i].votes
      BY Zenon DEF SameTexts
  <2> QED BY <2>1, <2>2 DEF Option
<1>3. p.Options = q.Options
  <2>1. Len(p.Options) = Len(q.Options)
      BY <1>1 DEF SameTexts
  <2> QED BY <1>1, <1>2, <2>1
<1> QED BY <1>3 DEF Proposal, SameHead

(* The voter v keeps what a cut leaves of the power; without power v goes. *)
Punished(p, v) ==
    IF p.Voters[v].Power - Cut(p, v) = 0
    THEN [w \in DOMAIN p.Voters \ {v} |-> p.Voters[w]]
    ELSE [p.Voters EXCEPT ![v] = [Power |-> p.Voters[v].Power - Cut(p, v),
                                  Choice |-> p.Voters[v].Choice]]

\* What DoPunish leaves of a proposal.
LEMMA DoPunishIs ==
    ASSUME NEW p \in Open, NEW v \in DOMAIN p.Voters
    PROVE  LET q == DoPunish(p, v)
               n == p.Voters[v].Power
               c == p.Voters[v].Choice
               left == n - Cut(p, v)
               total == p.TotalVotingPower - Cut(p, v)
           IN  /\ q \in Proposal /\ SameHead(p, q) /\ SameTexts(p, q)
               /\ q.Voters = Punished(p, v)
               /\ q.TotalVotingPower = total /\ q.MajorityPower = MajorityPower(total)
               /\ \A i \in DOMAIN p.Options :
                    q.Options[i].votes = (p.Options[i].votes + (IF i = c THEN 0 - n ELSE 0))
                                            + (IF i = c THEN left ELSE 0)
<1> DEFINE n == p.Voters[v].Power
           c == p.Voters[v].Choice
           left == n - Cut(p, v)
           total == p.TotalVotingPower - Cut(p, v)
           r == cancelVote(p, v)
           w == Weaker(p, v)
           q == DoPunish(p, v)
<1>1. p \in Proposal /\ c \in {0} \union DOMAIN p.Options
    BY Zenon DEF Open
<1>2. Recounted(p, r, Voted(p, v, 0), Votes(c, 0 - n))
    BY <1>1, Cancelled, Zenon
<1>3. /\ v \in Validators /\ n \in Nat \ {0} /\ c \in Nat /\ p.TotalVotingPower \in Int
      /\ p.Voters[v] = [Power |-> n, Choice |-> c] /\ Cut(p, v) \in Nat /\ left \in Nat
      /\ total \in Int
      /\ \A i \in DOMAIN p.Options : i \in Nat \ {0} /\ p.Options[i].votes \in Int
    BY <1>1, ProposalIs, CutIs DEF Voter
<1>4. /\ r \in Proposal /\ DOMAIN r.Options = DOMAIN p.Options /\ r.Voters = Voted(p, v, 0)
      /\ DOMAIN r.Voters = DOMAIN p.Voters /\ r.Voters[v] = [Power |-> n, Choice |-> 0]
    BY <1>2, Zenon DEF Recounted, Voted
<1>5. w = [r EXCEPT !.Voters = [r.Voters EXCEPT ![v] = [Power |-> left, Choice |-> 0]]]
    BY <1>4 DEF Weaker
<1> HIDE DEF r
<1>6. w.Voters = [r.Voters EXCEPT ![v] = [Power |-> left, Choice |-> 0]] /\ w.Voters[v].Power = left
    BY <1>4, <1>5 DEF Proposal
<1> DEFINE rest == [x \in DOMAIN p.Voters \ {v} |-> p.Voters[x]]
           counted == IF left <= 0 THEN [w EXCEPT !.Voters = rest] ELSE doVote(w, v, c)
<1>7. q = Retotalled(counted, total)
  <2>1. Weaker(p, v).Voters[v].Power = left
      BY <1>6, Zenon
  <2> QED BY <2>1, Zenon DEF DoPunish, Retotalled
<1>8. r.TotalVotingPower = p.TotalVotingPower /\ SameHead(p, r) /\ SameTexts(p, r)
    BY <1>2, Zenon DEF Recounted, SameTexts
<1>9. \A i \in DOMAIN p.Options : r.Options[i].votes = p.Options[i].votes + (IF i = c THEN 0 - n ELSE 0)
  <2>1. \A i \in DOMAIN p.Options : r.Options[i].votes = p.Options[i].votes + Votes(c, 0 - n)[i]
      BY <1>2, Zenon DEF Recounted
  <2> HIDE DEF n, c
  <2> QED BY <1>3, <2>1, Zenon DEF Votes
<1>10. /\ counted \in Proposal /\ SameHead(r, counted) /\ SameTexts(r, counted)
       /\ counted.Voters = Punished(p, v)
       /\ \A i \in DOMAIN p.Options :
            counted.Options[i].votes = r.Options[i].votes + (IF i = c THEN left ELSE 0)
  <2>1. CASE left = 0
    <3>1. counted = Having(r, r.Options, rest)
      <4> DEFINE cut == [r.Voters EXCEPT ![v] = [Power |-> left, Choice |-> 0]]
      <4>1. counted = [w EXCEPT !.Voters = rest]
          BY <2>1
      <4>2. [[r EXCEPT !.Voters = cut] EXCEPT !.Voters = rest] = Having(r, r.Options, rest)
        <5> HIDE DEF cut, rest
        <5> QED BY <1>4, OtherVoters, ZenonT(90)
      <4> HIDE DEF w, rest
      <4> QED BY <1>5, <4>1, <4>2, Zenon
    <3>2. rest \in VoterMaps /\ r.Options \in Seq(Option)
        BY <1>1, <1>4, VotersStay, ProposalIs, Zenon
    <3> DEFINE h == Having(r, r.Options, rest)
    <3>3. h \in Proposal /\ SameHead(r, h) /\ h.Voters = rest /\ h.Options = r.Options
      <4> HIDE DEF rest
      <4> QED BY <1>4, <3>2, Replaced
    <3>4. rest = Punished(p, v)
        BY <2>1, Zenon DEF Punished
    <3>5. \A i \in DOMAIN p.Options : r.Options[i].votes \in Int
        BY <1>4, ProposalIs, Zenon
    <3>6. \A i \in DOMAIN p.Options : h.Options[i].votes = r.Options[i].votes + (IF i = c THEN left ELSE 0)
      <4> HIDE DEF h, left, c
      <4> QED BY <2>1, <3>3, <3>5
    <3> HIDE DEF h, counted, rest
    <3> QED BY <3>1, <3>3, <3>4, <3>6, Zenon DEF SameTexts, h
  <2>2. CASE left # 0
    <3> DEFINE voters == [r.Voters EXCEPT ![v] = [Power |-> left, Choice |-> 0]]
    <3>1. w = Having(r, r.Options, voters)
        BY <1>4, <1>5, OtherVoters, ZenonT(90)
    <3>2. voters \in VoterMaps /\ r.Options \in Seq(Option)
      <4>1. [Power |-> left, Choice |-> 0] \in Voter
          BY <1>3, <2>2, Zenon DEF Voter
      <4> HIDE DEF left
      <4> QED BY <1>4, <4>1, VotersStay, ProposalIs, Zenon
    <3> HIDE DEF voters
    <3>3. w \in Proposal /\ SameHead(r, w) /\ w.Voters = voters /\ w.Options = r.Options
        BY <1>4, <3>1, <3>2, Replaced
    <3>4. v \in DOMAIN w.Voters /\ w.Voters[v] = [Power |-> left, Choice |-> 0]
        BY <1>4, <3>3, Zenon DEF voters
    <3>5. Recounted(w, doVote(w, v, c), Voted(w, v, c), Votes(c, left))
      <4>1. /\ w.Voters[v].Choice = 0 /\ w.Voters[v].Power = left
            /\ c \in {0} \union DOMAIN w.Options
          BY <1>1, <1>4, <3>3, <3>4
      <4> HIDE DEF w, c, left
      <4> QED BY <3>3, <3>4, <4>1, Counted, Zenon
    <3>6. counted = doVote(w, v, c)
        BY <1>3, <2>2
    <3>7. Voted(w, v, c) = Punished(p, v)
        BY <1>3, <1>4, <2>2, <3>3, <3>4 DEF Voted, Punished, voters
    <3>8. \A i \in DOMAIN p.Options : counted.Options[i].votes = r.Options[i].votes + Votes(c, left)[i]
        BY <1>4, <3>3, <3>5, <3>6, Zenon DEF Recounted
    <3>9. \A i \in DOMAIN p.Options : counted.Options[i].votes = r.Options[i].votes + (IF i = c THEN left ELSE 0)
      <4> HIDE DEF counted, c, left
      <4> QED BY <1>3, <3>8, Zenon DEF Votes
    <3> HIDE DEF counted, w, c, left
    <3>10. SameHead(r, counted) /\ SameTexts(r, counted)
        BY <3>3, <3>5, <3>6, Zenon DEF Recounted, SameHead, SameTexts
    <3> QED BY <3>5, <3>6, <3>7, <3>9, <3>10, Zenon DEF Recounted
  <2> QED BY <2>1, <2>2, Zenon
<1> HIDE DEF counted, q, total, left, n, c
<1>11. /\ q \in Proposal /\ SameHead(counted, q)
       /\ q.TotalVotingPower = total /\ q.MajorityPower = MajorityPower(total)
       /\ q.Voters = counted.Voters /\ q.Options = counted.Options
    BY <1>3, <1>7, <1>10, RetotalledIs, Zenon
<1>12. SameHead(p, q) /\ SameTexts(p, q)
    BY <1>8, <1>10, <1>11, Zenon DEF SameHead, SameTexts
<1>13. \A i \in DOMAIN p.Options :
           q.Options[i].votes = (p.Options[i].votes + (IF i = c THEN 0 - n ELSE 0))
                                    + (IF i = c THEN left ELSE 0)
    BY <1>9, <1>10, <1>11, Zenon
<1> QED BY <1>10, <1>11, <1>12, <1>13, Zenon DEF q, total, left, n, c

\* Punishing a voter keeps the tally; it changes nothing or costs power.
LEMMA DoPunishKeeps ==
    ASSUME NEW p \in Open, NEW v
    PROVE  LET q == DoPunish(p, v)
           IN  /\ q \in Open /\ SameHead(p, q)
               /\ q = p \/ q.TotalVotingPower < p.TotalVotingPower
<1>1. CASE v \notin DOMAIN p.Voters
  <2>1. DoPunish(p, v) = p
      BY <1>1, Zenon DEF DoPunish
  <2> QED BY <2>1, Zenon DEF SameHead
<1>2. CASE v \in DOMAIN p.Voters
  <2> DEFINE n == p.Voters[v].Power
             c == p.Voters[v].Choice
             cut == Cut(p, v)
             left == n - cut
             total == p.TotalVotingPower - cut
             q == DoPunish(p, v)
  <2>1. /\ q \in Proposal /\ SameHead(p, q) /\ SameTexts(p, q)
        /\ q.Voters = Punished(p, v)
        /\ q.TotalVotingPower = total /\ q.MajorityPower = MajorityPower(total)
    <3> HIDE DEF q
    <3> QED BY <1>2, DoPunishIs, Zenon DEF q
  <2>2. \A i \in DOMAIN p.Options :
            q.Options[i].votes = (p.Options[i].votes + (IF i = c THEN 0 - n ELSE 0))
                                    + (IF i = c THEN left ELSE 0)
      BY <1>2, DoPunishIs, Zenon
  <2>3. p \in Proposal /\ c \in {0} \union DOMAIN p.Options
      BY <1>2, Zenon DEF Open
  <2>4. /\ v \in Validators /\ n \in Nat \ {0} /\ p.TotalVotingPower \in Int
        /\ p.Voters[v] = [Power |-> n, Choice |-> c] /\ cut \in Nat /\ left \in Nat
        /\ \A i \in DOMAIN p.Options : i \in Nat \ {0} /\ p.Options[i].votes \in Int
      BY <1>2, <2>3, ProposalIs, CutIs DEF Voter
  <2> HIDE DEF q
  <2>5. /\ Others(p, q, v) /\ (v \in DOMAIN q.Voters <=> left # 0)
        /\ left # 0 => q.Voters[v] = [Power |-> left, Choice |-> c]
      BY <1>2, <2>1, Zenon DEF Others, SameTexts, Punished
  <2> HIDE DEF n, c, cut, total, left
  <2>6. MovedBy(p, q, v)
    <3>1. WeightOf(p)[v] = n /\ WeightOf(q)[v] = left
        BY <1>2, <2>4, <2>5 DEF WeightOf
    <3>2. \A i \in DOMAIN p.Options :
              /\ WeightIn(p, i)[v] = (IF i = c THEN n ELSE 0)
              /\ WeightIn(q, i)[v] = (IF i = c THEN left ELSE 0)
        BY <1>2, <2>4, <2>5 DEF WeightIn
    <3>3. q.TotalVotingPower = p.TotalVotingPower + (left - n)
        BY <2>1, <2>4 DEF left, total
    <3> QED BY <2>2, <2>4, <3>1, <3>2, <3>3 DEF MovedBy
  <2>7. v \in DOMAIN q.Voters => q.Voters[v].Choice \in {0} \union DOMAIN p.Options
      BY <2>3, <2>5
  <2>8. q.MajorityPower = MajorityPower(q.TotalVotingPower)
      BY <2>1, Zenon
  <2>9. q \in Open
      BY <1>2, <2>1, <2>5, <2>6, <2>7, <2>8, StaysOpen, Zenon
  <2>10. CASE cut = 0
    <3>1. left = n /\ total = p.TotalVotingPower
        BY <2>4, <2>10 DEF left, total
    <3>2. Punished(p, v) = p.Voters
        BY <1>2, <2>3, <2>4, <3>1, ProposalIs, Zenon DEF Punished, left, n, c, cut
    <3>3. \A i \in DOMAIN p.Options : p.Options[i].votes = q.Options[i].votes
        BY <2>2, <2>4, <3>1
    <3>4. p.MajorityPower = MajorityPower(p.TotalVotingPower)
        BY Zenon DEF Open
    <3>5. p = q
        BY <2>1, <2>3, <3>1, <3>2, <3>3, <3>4, SameFields, Zenon
    <3> QED BY <2>1, <2>9, <3>5, Zenon DEF q
  <2>11. CASE cut # 0
    <3>1. q.TotalVotingPower < p.TotalVotingPower
        BY <2>1, <2>4, <2>11 DEF total
    <3> QED BY <2>1, <2>9, <3>1, Zenon DEF q
  <2> QED BY <2>10, <2>11, Zenon
<1> QED BY <1>1, <1>2, Zenon

-----------------------------------------------------------------------------
(* Majorities. *)

\* Some option has the most votes, and is the first of those that do.
LEMMA BestIs ==
    ASSUME NEW p \in Open PROVE Best(p) \in DOMAIN p.Options
<1> DEFINE N == Len(p.Options)
           f == [i \in 1 .. N |-> p.Options[i].votes]
           IsBest(i, n) == /\ \A j \in 1 .. n : f[j] <= f[i]
                           /\ \A j \in 1 .. (i - 1) : f[j] < f[i]
           Good == {n \in Nat : n \in 1 .. N => \E i \in 1 .. n : IsBest(i, n)}
<1>1. /\ p.Options \in Seq(Option) /\ p.Options # << >>
      /\ \A i \in DOMAIN p.Options : p.Options[i].votes \in Int
    BY ProposalIs, Zenon DEF Open
<1>2. N \in Nat /\ DOMAIN p.Options = 1 .. N /\ N \in 1 .. N
    BY <1>1
<1>3. \A i \in 1 .. N : f[i] \in Int
    BY <1>1, <1>2, Zenon
<1> HIDE DEF N, f
<1>4. ASSUME NEW n \in Nat, \A m \in 0 .. n - 1 : m \in Good PROVE n \in Good
  <2> SUFFICES ASSUME n \in 1 .. N PROVE \E i \in 1 .. n : IsBest(i, n)
      BY Zenon
  <2>1. CASE n = 1
    <3>1. IsBest(1, n)
        BY <1>2, <1>3, <2>1
    <3> QED BY <2>1, <3>1
  <2>2. CASE n # 1
    <3>1. n - 1 \in 0 .. n - 1 /\ n - 1 \in 1 .. N
        BY <1>2, <2>2
    <3>2. PICK i \in 1 .. n - 1 : IsBest(i, n - 1)
        BY <1>4, <3>1, Zenon
    <3>3. CASE f[n] > f[i]
      <4>1. IsBest(n, n)
          BY <1>2, <1>3, <3>2, <3>3
      <4> QED BY <4>1
    <3>4. CASE ~(f[n] > f[i])
      <4>1. IsBest(i, n)
          BY <1>2, <1>3, <3>2, <3>4
      <4> QED BY <4>1
    <3> QED BY <3>3, <3>4, Zenon
  <2> QED BY <2>1, <2>2, Zenon
<1>5. N \in Good
  <2> HIDE DEF Good
  <2> QED BY <1>2, <1>4, NatInductionFor, Zenon
<1>6. PICK i \in 1 .. N : IsBest(i, N)
    BY <1>2, <1>5, Zenon
<1>7. /\ \A j \in DOMAIN p.Options : p.Options[j].votes <= p.Options[i].votes
      /\ \A j \in 1 .. (i - 1) : p.Options[j].votes < p.Options[i].votes
  <2>1. \A j \in 1 .. N : f[j] = p.Options[j].votes
      BY DEF f
  <2>2. \A j \in 1 .. (i - 1) : j \in 1 .. N
      BY <1>2
  <2> QED BY <1>2, <1>6, <2>1, <2>2, Zenon
<1> QED BY <1>2, <1>7, Zenon DEF Best

\* A proposal that gets a major option has a majority for it.
LEMMA MajorIs ==
    ASSUME NEW p \in Open
    PROVE  LET u == updateMajorOption(p)
           IN  /\ u.MajorOption # None => u \in Settled
               /\ u.EndVotingHeight = p.EndVotingHeight /\ u.ApplyingHeight = p.ApplyingHeight
               /\ u.TotalVotingPower = p.TotalVotingPower
<1> DEFINE b == p.Options[Best(p)]
           u == updateMajorOption(p)
<1>1. /\ p \in Proposal /\ p.MajorOption = None /\ Best(p) \in DOMAIN p.Options
      /\ p.MajorityPower = MajorityPower(p.TotalVotingPower)
    BY BestIs, Zenon DEF Open
<1>2. b \in Option /\ b.votes \in Int
    BY <1>1, ProposalIs, Zenon
<1>3. p.OptType = "govparams" => b.option \in Params
    BY <1>1, Zenon DEF Open
<1> HIDE DEF b
<1>4. CASE b.votes >= p.MajorityPower
  <2>1. u = [p EXCEPT !.MajorOption = b]
      BY <1>4, Zenon DEF updateMajorOption, b
  <2>2. /\ u \in Proposal /\ u.MajorOption = b /\ u.OptType = p.OptType
        /\ u.EndVotingHeight = p.EndVotingHeight /\ u.ApplyingHeight = p.ApplyingHeight
        /\ u.TotalVotingPower = p.TotalVotingPower
      BY <1>1, <1>2, <2>1, Zenon DEF Proposal
  <2> HIDE DEF u
  <2>3. u \in Settled
      BY <1>1, <1>2, <1>3, <1>4, <2>2, Zenon DEF Settled
  <2> QED BY <2>2, <2>3, Zenon DEF u
<1>5. CASE ~(b.votes >= p.MajorityPower)
  <2>1. u = p
      BY <1>5, Zenon DEF updateMajorOption, b
  <2> QED BY <1>1, <2>1, Zenon
<1> QED BY <1>4, <1>5, Zenon

\* A new proposal is open, without votes.
LEMMA NewIs ==
    ASSUME NEW ballot \in Ballots, NEW start \in Nat, NEW period \in Nat, NEW applying \in Nat
    PROVE  LET p == NewGovProposal(ballot, start, period, applying)
           IN  p \in Open /\ p.EndVotingHeight = start + period
<1> DEFINE p == NewGovProposal(ballot, start, period, applying)
           total == SumOf(Powers, Validators)
           voters == [v \in Validators |-> [Power |-> Powers[v], Choice |-> 0]]
           options == [i \in DOMAIN ballot.options |-> [option |-> ballot.options[i], votes |-> 0]]
<1>1. /\ ballot.options \in Seq(Texts) /\ ballot.options # << >>
      /\ ballot.type = "govparams" => ballot.options \in Seq(Params)
    BY BallotAssumption, Zenon
<1>2. IsFiniteSet(Validators) /\ \A v \in Validators : Powers[v] \in Nat \ {0}
    BY GovAssumption, Zenon
<1>3. total \in Int /\ MajorityPower(total) \in Int
  <2>1. total \in Int
      BY <1>2, SumType
  <2> QED BY <2>1 DEF MajorityPower
<1>4. voters \in UNION {[S -> Voter] : S \in SUBSET Validators}
  <2>1. voters \in [Validators -> Voter]
      BY <1>2, Zenon DEF Voter
  <2> HIDE DEF voters
  <2> QED BY <2>1, Zenon
<1>5. options \in Seq(Option) /\ options # << >> /\ DOMAIN options = DOMAIN ballot.options
  <2>1. PICK n \in Nat : DOMAIN ballot.options = 1 .. n
      BY <1>1
  <2>2. \A i \in 1 .. n : [option |-> ballot.options[i], votes |-> 0] \in Option
      BY <1>1, <2>1 DEF Option
  <2>3. options \in [1 .. n -> Option]
      BY <2>1, <2>2, Zenon
  <2>4. n # 0
      BY <1>1, <2>1
  <2>5. DOMAIN options = DOMAIN ballot.options
      OBVIOUS
  <2> HIDE DEF options
  <2> QED BY <2>1, <2>3, <2>4, <2>5
<1>6. /\ p.StartVotingHeight = start /\ p.EndVotingHeight = start + period
      /\ p.ApplyingHeight = applying /\ p.TotalVotingPower = total
      /\ p.MajorityPower = MajorityPower(total) /\ p.Voters = voters
      /\ p.OptType = ballot.type /\ p.Options = options /\ p.MajorOption = None
    BY Zenon DEF NewGovProposal
<1>7. p \in Proposal
  <2> HIDE DEF total, voters, options
  <2> QED BY <1>3, <1>4, <1>5 DEF NewGovProposal, Proposal, total, voters, options
<1>8. Tallies(p)
  <2> DEFINE power == [v \in DOMAIN p.Voters |-> p.Voters[v].Power]
             Of(i) == {v \in DOMAIN p.Voters : p.Voters[v].Choice = i}
  <2>1. DOMAIN p.Voters = Validators /\ \A v \in Validators : power[v] \in Int /\ power[v] = Powers[v]
      BY <1>2, <1>6
  <2>2. SumOf(power, Validators) = SumOf(Powers, Validators)
    <3> HIDE DEF power
    <3> QED BY <1>2, <2>1, SumSame, Zenon
  <2>3. ASSUME NEW i \in DOMAIN p.Options PROVE p.Options[i].votes = SumOf(power, Of(i))
    <3>1. i \in DOMAIN options /\ i # 0
        BY <1>1, <1>6
    <3>2. Of(i) = {}
        BY <1>6, <3>1
    <3>3. p.Options[i].votes = 0
        BY <1>6, <3>1
    <3> HIDE DEF power, Of
    <3> QED BY <3>2, <3>3, SumEmpty, Zenon
  <2> HIDE DEF p
  <2> QED BY <1>6, <2>1, <2>2, <2>3, Zenon DEF Tallies
<1>9. p.OptType = "govparams" => \A i \in DOMAIN p.Options : p.Options[i].option \in Params
    BY <1>1, <1>6
<1>10. \A v \in DOMAIN p.Voters : p.Voters[v].Choice \in {0} \union DOMAIN p.Options
    BY <1>6
<1>11. p.Options # << >>
  <2> HIDE DEF p, options
  <2> QED BY <1>5, <1>6, Zenon
<1> HIDE DEF p, options, voters, total
<1> QED BY <1>6, <1>7, <1>8, <1>9, <1>10, <1>11, Zenon DEF Open, p

-----------------------------------------------------------------------------
(* The ledgers of proposals. *)

\* What a block sees of one key.
LEMMA ViewIs ==
    ASSUME NEW l \in ProposalLedger, NEW k \in Ids
    PROVE  /\ View(l)[k] = IF l.o.upd[k] # None THEN l.o.upd[k]
                           ELSE IF k \in l.o.rem THEN None ELSE l.tree[k]
           /\ View(l)[k] \in Proposal \union {None}
           /\ l.o.rem = {} => Found(l, k) = View(l)[k]
<1>1. /\ DOMAIN l.tree = Ids /\ l.tree[k] \in Proposal \union {None}
      /\ l.o.upd[k] \in Proposal \union {None}
    BY Zenon DEF ProposalLedger, ProposalTree
<1> QED BY <1>1, Zenon DEF View, Merge, Found, Lookup

\* A ledger at the start of a block.
LEMMA CleanIs ==
    ASSUME NEW l \in ProposalLedger, l.o = NewOverlay(Ids)
    PROVE  \A k \in Ids : l.o.upd[k] = None /\ View(l)[k] = l.tree[k]
    BY ViewIs DEF NewOverlay

\* Several items set.
LEMMA SetEachIs ==
    ASSUME NEW l \in ProposalLedger, NEW S \in SUBSET Ids, NEW g \in [S -> Proposal]
    PROVE  /\ SetEach(l, g) \in ProposalLedger
           /\ SetEach(l, g).tree = l.tree /\ SetEach(l, g).o.rem = l.o.rem
           /\ \A k \in Ids : SetEach(l, g).o.upd[k] = IF k \in S THEN g[k] ELSE l.o.upd[k]
           /\ \A k \in Ids : View(SetEach(l, g))[k] = IF k \in S THEN g[k] ELSE View(l)[k]
<1> DEFINE m == SetEach(l, g)
           upd == [k \in Ids |-> IF k \in S THEN g[k] ELSE l.o.upd[k]]
<1>1. l.o.upd \in ProposalTree /\ DOMAIN l.o.upd = Ids
    BY DEF ProposalLedger, ProposalTree
<1>2. upd \in ProposalTree
    BY <1>1, Zenon DEF ProposalTree
<1>3. m = [l EXCEPT !.o = [l.o EXCEPT !.upd = upd]]
    BY <1>1, Zenon DEF SetEach
<1> HIDE DEF upd, m
<1>4. m \in ProposalLedger /\ m.tree = l.tree /\ m.o.rem = l.o.rem /\ m.o.upd = upd
    BY <1>2, <1>3, Zenon DEF ProposalLedger
<1>5. \A k \in Ids : m.o.upd[k] = IF k \in S THEN g[k] ELSE l.o.upd[k]
    BY <1>4, Zenon DEF upd
<1>6. ASSUME NEW k \in Ids PROVE View(m)[k] = IF k \in S THEN g[k] ELSE View(l)[k]
  <2>1. k \in S => g[k] # None
      BY NoneAssumption, Zenon
  <2> QED BY <1>4, <1>5, <2>1, ViewIs
<1> QED BY <1>4, <1>5, <1>6, Zenon DEF m

\* One item set.
LEMMA SetIs ==
    ASSUME NEW l \in ProposalLedger, NEW j \in Ids, NEW p \in Proposal
    PROVE  /\ Set(l, j, p) \in ProposalLedger
           /\ Set(l, j, p).tree = l.tree /\ Set(l, j, p).o.rem = l.o.rem
           /\ \A k \in Ids : View(Set(l, j, p))[k] = IF k = j THEN p ELSE View(l)[k]
<1> DEFINE m == Set(l, j, p)
           upd == [l.o.upd EXCEPT ![j] = p]
<1>1. l.o.upd \in ProposalTree
    BY DEF ProposalLedger
<1>2. upd \in ProposalTree /\ \A k \in Ids : upd[k] = IF k = j THEN p ELSE l.o.upd[k]
    BY <1>1, Zenon DEF ProposalTree
<1>3. m = [l EXCEPT !.o = [l.o EXCEPT !.upd = upd]]
    BY DEF Set, Put
<1> HIDE DEF upd, m
<1>4. m \in ProposalLedger /\ m.tree = l.tree /\ m.o.rem = l.o.rem /\ m.o.upd = upd
    BY <1>2, <1>3, Zenon DEF ProposalLedger
<1>5. ASSUME NEW k \in Ids PROVE View(m)[k] = IF k = j THEN p ELSE View(l)[k]
    BY <1>2, <1>4, NoneAssumption, ViewIs
<1> QED BY <1>4, <1>5, Zenon DEF m

\* Several items deleted, from a ledger without deletions.
LEMMA DelEachIs ==
    ASSUME NEW l \in ProposalLedger, l.o.rem = {}, NEW S \in SUBSET Ids
    PROVE  /\ DelEach(l, S) \in ProposalLedger
           /\ \A k \in Ids : View(DelEach(l, S))[k] = IF k \in S THEN None ELSE View(l)[k]
<1> DEFINE m == DelEach(l, S)
           found == {k \in S : Found(l, k) # None}
           upd == [k \in Ids |-> IF k \in found THEN None ELSE l.o.upd[k]]
<1>1. l.o.upd \in ProposalTree /\ DOMAIN l.o.upd = Ids
    BY Zenon DEF ProposalLedger, ProposalTree
<1>2. upd \in ProposalTree
    BY <1>1, Zenon DEF ProposalTree
<1>3. found \in SUBSET Ids
    OBVIOUS
<1>4. m = [l EXCEPT !.o = [l.o EXCEPT !.upd = upd, !.rem = l.o.rem \union found]]
    BY <1>1, Zenon DEF DelEach
<1> HIDE DEF upd, m, found
<1>5. m \in ProposalLedger /\ m.tree = l.tree /\ m.o.rem = found /\ m.o.upd = upd
    BY <1>2, <1>3, <1>4, Zenon DEF ProposalLedger
<1>6. ASSUME NEW k \in Ids PROVE View(m)[k] = IF k \in S THEN None ELSE View(l)[k]
  <2>1. k \in found <=> k \in S /\ View(l)[k] # None
      BY ViewIs, Zenon DEF found
  <2>2. upd[k] = IF k \in found THEN None ELSE l.o.upd[k]
      BY DEF upd
  <2> QED BY <1>5, <2>1, <2>2, ViewIs
<1> QED BY <1>5, <1>6, Zenon DEF m

\* What is committed.
LEMMA SavedIs ==
    ASSUME NEW l \in ProposalLedger
    PROVE  /\ Saved(l) \in ProposalLedger /\ Saved(l).o = NewOverlay(Ids)
           /\ \A k \in Ids : View(Saved(l))[k] = View(l)[k]
<1>1. DOMAIN l.tree = Ids /\ DOMAIN View(l) = Ids
    BY Zenon DEF ProposalLedger, ProposalTree, View, Merge
<1>2. View(l) \in ProposalTree
  <2>1. View(l) = [k \in Ids |-> View(l)[k]]
      BY <1>1, Zenon DEF View, Merge
  <2> QED BY <2>1, ViewIs, Zenon DEF ProposalTree
<1>3. NewOverlay(Ids) \in [upd : ProposalTree, rem : SUBSET Ids]
    BY DEF NewOverlay, ProposalTree
<1>4. Saved(l) \in ProposalLedger /\ Saved(l).o = NewOverlay(Ids) /\ Saved(l).tree = View(l)
    BY <1>1, <1>2, <1>3, Zenon DEF Saved, ProposalLedger
<1> QED BY <1>4, CleanIs, Zenon

-----------------------------------------------------------------------------
(* The punishments of a block. *)

Punishes(p, q) ==
    q \in Open /\ SameHead(p, q) /\ (q = p \/ q.TotalVotingPower < p.TotalVotingPower)

(* The ledgers that punishments lead to from the committed proposals t. *)
PunishedFrom(t) ==
    {l \in ProposalLedger :
        /\ l.tree = t /\ l.o.rem = {}
        /\ \A k \in Ids : l.o.upd[k] # None => t[k] # None /\ Punishes(t[k], l.o.upd[k])}

\* One punishment after another is one.
LEMMA PunishesAgain ==
    ASSUME NEW p \in Open, NEW q, Punishes(p, q), NEW v
    PROVE  Punishes(p, DoPunish(q, v))
<1> DEFINE r == DoPunish(q, v)
<1>1. q \in Open /\ SameHead(p, q) /\ (q = p \/ q.TotalVotingPower < p.TotalVotingPower)
    BY DEF Punishes
<1>2. r \in Open /\ SameHead(q, r) /\ (r = q \/ r.TotalVotingPower < q.TotalVotingPower)
    BY <1>1, DoPunishKeeps, Zenon
<1>3. /\ p.TotalVotingPower \in Int /\ q.TotalVotingPower \in Int /\ r.TotalVotingPower \in Int
  <2>1. p \in Proposal /\ q \in Proposal /\ r \in Proposal
      BY <1>1, <1>2, Zenon DEF Open
  <2> QED BY <2>1, ProposalIs, Zenon
<1> HIDE DEF r
<1>4. SameHead(p, r)
    BY <1>1, <1>2, Zenon DEF SameHead
<1>5. r = p \/ r.TotalVotingPower < p.TotalVotingPower
    BY <1>1, <1>2, <1>3
<1> QED BY <1>2, <1>4, <1>5, Zenon DEF Punishes, r

\* Punishing a voter in every proposal.
LEMMA doPunishKeeps ==
    ASSUME NEW t \in ProposalTree, \A k \in Ids : t[k] # None => t[k] \in Open,
           NEW l \in PunishedFrom(t), NEW v
    PROVE  doPunish(l, v) \in PunishedFrom(t)
<1> DEFINE S == {j \in Present(l.tree) : v \in DOMAIN l.tree[j].Voters}
           g == [k \in S |-> DoPunish(Found(l, k), v)]
           m == SetEach(l, g)
<1>1. /\ l \in ProposalLedger /\ l.tree = t /\ l.o.rem = {}
      /\ \A k \in Ids : l.o.upd[k] # None => t[k] # None /\ Punishes(t[k], l.o.upd[k])
    BY Zenon DEF PunishedFrom
<1>2. S \in SUBSET Ids /\ \A k \in S : t[k] # None
    BY <1>1, Zenon DEF Present, ProposalTree
<1>3. ASSUME NEW k \in S PROVE t[k] \in Open /\ Punishes(t[k], g[k])
  <2>1. k \in Ids /\ t[k] # None /\ t[k] \in Open
      BY <1>2, Zenon
  <2> DEFINE q == Found(l, k)
  <2>2. q = IF l.o.upd[k] # None THEN l.o.upd[k] ELSE t[k]
      BY <1>1, <2>1, ViewIs
  <2>3. Punishes(t[k], t[k])
      BY <2>1, Zenon DEF Punishes, SameHead
  <2> HIDE DEF q
  <2>4. Punishes(t[k], q)
      BY <1>1, <2>1, <2>2, <2>3, Zenon
  <2>5. g[k] = DoPunish(q, v)
      BY Zenon DEF q
  <2> HIDE DEF g
  <2> QED BY <2>1, <2>4, <2>5, PunishesAgain, Zenon
<1>4. g \in [S -> Proposal]
  <2>1. \A k \in S : g[k] \in Proposal
      BY <1>3, Zenon DEF Punishes, Open
  <2> HIDE DEF S
  <2> QED BY <2>1, Zenon
<1>5. /\ m \in ProposalLedger /\ m.tree = t /\ m.o.rem = {}
      /\ \A k \in Ids : m.o.upd[k] = IF k \in S THEN g[k] ELSE l.o.upd[k]
  <2> HIDE DEF S, g
  <2> QED BY <1>1, <1>2, <1>4, SetEachIs
<1>6. doPunish(l, v) = m
    BY Zenon DEF doPunish
<1> HIDE DEF m, S, g
<1>7. \A k \in Ids : m.o.upd[k] # None => t[k] # None /\ Punishes(t[k], m.o.upd[k])
    BY <1>1, <1>2, <1>3, <1>5, Zenon
<1> QED BY <1>5, <1>6, <1>7, Zenon DEF PunishedFrom

IsPunishing(base, s, g) ==
    g = [t \in SUBSET DOMAIN s |->
            IF t = {} THEN base ELSE doPunish(g[t \ {Largest(t)}], s[Largest(t)])]

\* BeginBlock's loop, as the choice of a function on sets of positions.
LEMMA PunishingUnfolds ==
    ASSUME NEW base, NEW s
    PROVE  FoldLeft(doPunish, base, s) = (CHOOSE g : IsPunishing(base, s, g))[DOMAIN s]
    BY DEF IsPunishing, Largest, FoldLeft, Fold!MapThenFoldSet

\* All the punishments of a block.
LEMMA PunishingKeeps ==
    ASSUME NEW t \in ProposalTree, \A k \in Ids : t[k] # None => t[k] \in Open,
           NEW base \in PunishedFrom(t), NEW n \in Nat, NEW s \in [1 .. n -> Validators]
    PROVE  FoldLeft(doPunish, base, s) \in PunishedFrom(t)
<1> DEFINE V == PunishedFrom(t)
           D == Validators
           step == [x \in D \X V |-> doPunish(x[2], x[1])]
<1>1. \A l \in V, v \in D : doPunish(l, v) \in V
    BY doPunishKeeps, Zenon
<1>2. step \in [D \X V -> V] /\ \A v \in D, l \in V : step[<<v, l>>] = doPunish(l, v)
  <2> HIDE DEF V, D
  <2> QED BY <1>1, Zenon
<1>3. base \in V /\ DOMAIN s = 1 .. n /\ \A i \in 1 .. n : s[i] \in D
    OBVIOUS
<1> HIDE DEF V, D, step
<1>4. PICK g \in [SUBSET (1 .. n) -> V] : FoldsTo(n, base, step, s, g)
    BY <1>2, <1>3, FoldToExists, ZenonT(90)
<1> DEFINE at(h, u) == IF u = {} THEN base ELSE doPunish(h[u \ {Largest(u)}], s[Largest(u)])
<1>5. ASSUME NEW u \in SUBSET (1 .. n) PROVE g[u] = at(g, u)
  <2>1. CASE u = {}
      BY <1>4, <2>1, Zenon DEF FoldsTo
  <2>2. CASE u # {}
    <3>1. Largest(u) \in u
        BY <2>2, TopIs, Zenon
    <3>2. s[Largest(u)] \in D /\ g[u \ {Largest(u)}] \in V
        BY <1>3, <3>1, Zenon
    <3>3. g[u] = step[<<s[Largest(u)], g[u \ {Largest(u)}]>>]
        BY <1>4, <2>2, Zenon DEF FoldsTo
    <3> QED BY <1>2, <2>2, <3>2, <3>3, Zenon
  <2> QED BY <2>1, <2>2, Zenon
<1>6. g = [u \in SUBSET (1 .. n) |-> at(g, u)]
  <2> HIDE DEF at
  <2> QED BY <1>5, Zenon
<1>7. IsPunishing(base, s, g)
    BY <1>3, <1>6, Zenon DEF IsPunishing
<1> DEFINE h == CHOOSE x : IsPunishing(base, s, x)
<1>8. IsPunishing(base, s, h)
    BY <1>7, Zenon
<1> HIDE DEF h
<1>9. ASSUME NEW u \in SUBSET (1 .. n) PROVE h[u] = at(h, u)
  <2>1. h = [y \in SUBSET (1 .. n) |-> at(h, y)]
      BY <1>3, <1>8, Zenon DEF IsPunishing
  <2> HIDE DEF at
  <2>2. h[u] = [y \in SUBSET (1 .. n) |-> at(h, y)][u]
      BY <2>1, Zenon
  <2> QED BY <2>2, Zenon
<1> DEFINE S == 1 .. n
           Good == {u \in SUBSET S : h[u] \in V}
<1>10. ASSUME NEW u \in SUBSET S, \A y \in SUBSET u : y # u => y \in Good PROVE u \in Good
  <2>1. CASE u = {}
      BY <1>3, <1>9, <2>1, Zenon
  <2>2. CASE u # {}
    <3>1. Largest(u) \in u
        BY <2>2, TopIs, Zenon
    <3>2. s[Largest(u)] \in D /\ u \ {Largest(u)} \in SUBSET u /\ u \ {Largest(u)} # u
        BY <1>3, <3>1, Zenon
    <3>3. h[u \ {Largest(u)}] \in V
        BY <1>10, <3>2, Zenon
    <3>4. h[u] = doPunish(h[u \ {Largest(u)}], s[Largest(u)])
        BY <1>9, <2>2, Zenon
    <3>5. h[u] \in V
        BY <1>1, <3>2, <3>3, <3>4, Zenon DEF V, D
    <3> QED BY <3>5, Zenon
  <2> QED BY <2>1, <2>2, Zenon
<1>11. S \in Good
  <2>1. IsFiniteSet(S) /\ S \in SUBSET S
      BY FinitePositions, Zenon
  <2>2. \A u \in SUBSET S : (\A y \in SUBSET u : y # u => y \in Good) => u \in Good
      BY <1>10, Zenon
  <2> HIDE DEF Good, S
  <2>3. \A u \in SUBSET S : u \in Good
      BY <2>1, <2>2, SubsetInduction, Zenon
  <2> QED BY <2>1, <2>3, Zenon
<1>12. FoldLeft(doPunish, base, s) = h[S]
    BY <1>3, PunishingUnfolds, Zenon DEF h
<1> QED BY <1>11, <1>12, Zenon DEF V

-----------------------------------------------------------------------------
(* The steps. *)

\* NewGovCtrler and InitLedger start in the invariant.
LEMMA GovStarts == ASSUME Init PROVE IInv
<1>1. Empty(Ids) \in ProposalLedger /\ Empty(Ids).o = NewOverlay(Ids)
    BY Zenon DEF Empty, NewTree, NewOverlay, ProposalLedger, ProposalTree
<1>2. \A k \in Ids : Empty(Ids).tree[k] = None
    BY DEF Empty, NewTree
<1>3. \A k \in Ids : View(Empty(Ids))[k] = None
    BY <1>1, <1>2, CleanIs, Zenon
<1>4. GenesisParams \in Params /\ GenesisParams # None
    BY GovAssumption, NoneAssumption, Zenon
<1>5. Types
    BY <1>1, <1>4, Zenon DEF Init, Types
<1>6. Overlays /\ Committed
    BY <1>1, Zenon DEF Init, Overlays, Committed
<1>7. OpenOnes /\ FrozenOnes
    BY <1>3, Zenon DEF Init, OpenOnes, FrozenOnes
<1>8. ParamsKept
    BY <1>4 DEF Init, ParamsKept, SavedParams
<1> QED BY <1>5, <1>6, <1>7, <1>8, Zenon DEF IInv

\* What punishments leave of the proposals of a block.
LEMMA PunishedView ==
    ASSUME NEW t \in ProposalTree, \A k \in Ids : t[k] # None => t[k] \in Open,
           NEW l \in PunishedFrom(t), NEW k \in Ids
    PROVE  /\ t[k] = None => View(l)[k] = None
           /\ t[k] # None => View(l)[k] # None /\ Punishes(t[k], View(l)[k])
<1>1. /\ l \in ProposalLedger /\ l.tree = t /\ l.o.rem = {}
      /\ l.o.upd[k] # None => t[k] # None /\ Punishes(t[k], l.o.upd[k])
    BY Zenon DEF PunishedFrom
<1>2. t[k] # None => Punishes(t[k], t[k])
    BY Zenon DEF Punishes, SameHead
<1>3. View(l)[k] = IF l.o.upd[k] # None THEN l.o.upd[k] ELSE t[k]
    BY <1>1, ViewIs, Zenon
<1> QED BY <1>1, <1>2, <1>3, Zenon

\* BeginBlock.
LEMMA BeginBlockStep ==
    ASSUME IInv, NEW n \in 0 .. MaxEvidence, NEW byzantines \in [1 .. n -> Validators],
           BeginBlock(byzantines)
    PROVE  IInv'
<1> DEFINE t == proposals.tree
<1>1. /\ phase = "idle" /\ phase' = "executing" /\ height' = height + 1 /\ height \in Nat
      /\ frozen' = frozen /\ params' = params /\ govParams' = govParams
      /\ newGovParams' = newGovParams /\ proposed' = proposed /\ expected' = expected
      /\ clashed' = clashed
    BY Zenon DEF BeginBlock, IInv, Types
<1>2. /\ proposals \in ProposalLedger /\ proposals.o = NewOverlay(Ids)
      /\ frozen \in ProposalLedger /\ frozen.o = NewOverlay(Ids)
    BY <1>1, Zenon DEF IInv, Types, Overlays
<1>3. t \in ProposalTree /\ \A k \in Ids : View(proposals)[k] = t[k]
    BY <1>2, CleanIs, Zenon DEF ProposalLedger
<1>4. ASSUME NEW k \in Ids, t[k] # None
      PROVE  t[k] \in Open /\ k <= proposed /\ View(frozen)[k] = None /\ t[k].EndVotingHeight >= height
  <2>1. View(proposals)[k] = t[k] /\ t[k] \in Proposal
      BY <1>3, <1>4, Zenon DEF ProposalTree
  <2>2. t[k].EndVotingHeight \in Nat
      BY <2>1, ProposalIs, Zenon
  <2>3. Slack = 0
      BY <1>1, Zenon DEF Slack
  <2> HIDE DEF t
  <2> QED BY <1>1, <1>4, <2>1, <2>2, <2>3 DEF IInv, OpenOnes
<1>5. proposals \in PunishedFrom(t)
  <2>1. proposals.o.rem = {}
      BY <1>2 DEF NewOverlay
  <2> QED BY <1>2, <2>1, CleanIs, Zenon DEF PunishedFrom
<1>6. proposals' \in PunishedFrom(t)
  <2>1. n \in Nat /\ proposals' = FoldLeft(doPunish, proposals, byzantines)
      BY GovAssumption DEF BeginBlock
  <2> HIDE DEF t
  <2> QED BY <1>3, <1>4, <1>5, <2>1, PunishingKeeps, Zenon
<1>7. proposals' \in ProposalLedger /\ proposals'.tree = t /\ proposals'.o.rem = {}
    BY <1>6, Zenon DEF PunishedFrom
<1>8. ASSUME NEW k \in Ids
      PROVE  /\ t[k] = None => View(proposals')[k] = None
             /\ t[k] # None => View(proposals')[k] # None /\ Punishes(t[k], View(proposals')[k])
  <2> HIDE DEF t
  <2> QED BY <1>3, <1>4, <1>6, PunishedView, Zenon
<1>9. Slack' = 1 /\ Slack = 0
    BY <1>1, Zenon DEF Slack
<1>10. Types'
    BY <1>1, <1>7 DEF IInv, Types
<1>11. Overlays'
    BY <1>1, <1>2, <1>7, Zenon DEF Overlays
<1> HIDE DEF t
<1>12. ASSUME NEW k \in Ids, View(proposals')[k] # None
       PROVE  /\ t[k] # None /\ View(proposals')[k] \in Open
              /\ View(proposals')[k].EndVotingHeight = t[k].EndVotingHeight
              /\ t[k].EndVotingHeight \in Nat
  <2>1. t[k] # None /\ Punishes(t[k], View(proposals')[k]) /\ t[k] \in Open
      BY <1>4, <1>8, <1>12, Zenon
  <2>2. t[k] \in Proposal
      BY <2>1, Zenon DEF Open
  <2> QED BY <2>1, <2>2, ProposalIs, Zenon DEF Punishes, SameHead
<1>13. OpenOnes'
    BY <1>1, <1>4, <1>9, <1>12 DEF OpenOnes
<1>14. Committed'
  <2>1. ASSUME NEW k \in Ids
        PROVE  LET old == proposals'.tree[k]
                   new == View(proposals')[k]
               IN  /\ old = None /\ new # None => new.EndVotingHeight >= height'
                   /\ old # None =>
                          /\ old \in Open /\ new.EndVotingHeight = old.EndVotingHeight
                          /\ old.EndVotingHeight < height' =>
                                 new = old \/ new.TotalVotingPower < old.TotalVotingPower
      BY <1>4, <1>7, <1>8, <1>12, Zenon DEF Punishes
  <2> QED BY <2>1, Zenon DEF Committed
<1>15. FrozenOnes'
  <2>1. ASSUME NEW k \in Ids, View(frozen)[k] # None
        PROVE  LET p == View(frozen)[k]
               IN  /\ p \in Settled /\ k <= proposed /\ p.EndVotingHeight + 1 + 1 <= height'
                   /\ Later(p.ApplyingHeight, p.EndVotingHeight + 2) + 1 > height'
    <3> DEFINE p == View(frozen)[k]
    <3>1. /\ p \in Settled /\ k <= proposed /\ p.EndVotingHeight + 1 + 0 <= height
          /\ Later(p.ApplyingHeight, p.EndVotingHeight + 2) + 0 > height
        BY <1>9, <2>1, Zenon DEF IInv, FrozenOnes
    <3>2. p.EndVotingHeight \in Nat /\ p.ApplyingHeight \in Nat
      <4>1. p \in Proposal
          BY <3>1, Zenon DEF Settled
      <4> QED BY <4>1, ProposalIs, Zenon
    <3> HIDE DEF p
    <3>3. Later(p.ApplyingHeight, p.EndVotingHeight + 2) \in Nat
        BY <3>2 DEF Later
    <3> QED BY <1>1, <3>1, <3>2, <3>3 DEF p
  <2> QED BY <1>1, <1>9, <2>1, ZenonT(60) DEF FrozenOnes
<1>16. ParamsKept'
    BY <1>1, Zenon DEF IInv, ParamsKept, SavedParams
<1> QED BY <1>10, <1>11, <1>13, <1>14, <1>15, <1>16, Zenon DEF IInv

(* What the transactions leave alone. *)
OnlyProposals ==
    /\ phase = "executing" /\ phase' = phase /\ height' = height
    /\ frozen' = frozen /\ params' = params /\ govParams' = govParams
    /\ newGovParams' = newGovParams /\ expected' = expected /\ clashed' = clashed

\* A transaction sets a proposal whose voting is not over.
LEMMA ProposalSet ==
    ASSUME IInv, OnlyProposals, NEW j \in Ids, NEW p \in Open, proposals' = Set(proposals, j, p),
           proposed' \in Nat, proposed <= proposed', j <= proposed', View(frozen)[j] = None,
           p.EndVotingHeight >= height,
           proposals.tree[j] # None => p.EndVotingHeight = proposals.tree[j].EndVotingHeight
    PROVE  IInv'
<1>1. /\ phase = "executing" /\ phase' = phase /\ height' = height /\ height \in Nat
      /\ frozen' = frozen /\ params' = params /\ govParams' = govParams
      /\ newGovParams' = newGovParams /\ expected' = expected /\ clashed' = clashed
      /\ proposed \in Nat
    BY Zenon DEF OnlyProposals, IInv, Types
<1>2. proposals \in ProposalLedger /\ proposals.o.rem = {} /\ frozen.o = NewOverlay(Ids)
    BY <1>1, Zenon DEF IInv, Types, Overlays
<1>3. p \in Proposal /\ p.EndVotingHeight \in Nat /\ p # None
  <2>1. p \in Proposal
      BY Zenon DEF Open
  <2> QED BY <2>1, ProposalIs, NoneAssumption, Zenon
<1>4. /\ proposals' \in ProposalLedger /\ proposals'.tree = proposals.tree
      /\ proposals'.o.rem = {}
      /\ \A k \in Ids : View(proposals')[k] = IF k = j THEN p ELSE View(proposals)[k]
    BY <1>2, <1>3, SetIs
<1>5. Slack' = 1 /\ Slack = 1
    BY <1>1, Zenon DEF Slack
<1>6. Types'
    BY <1>1, <1>4, Zenon DEF IInv, Types
<1>7. Overlays'
    BY <1>1, <1>2, <1>4, Zenon DEF Overlays
<1>8. OpenOnes'
  <2>1. ASSUME NEW k \in Ids, View(proposals')[k] # None
        PROVE  /\ View(proposals')[k] \in Open /\ k <= proposed' /\ View(frozen)[k] = None
               /\ View(proposals')[k].EndVotingHeight + 1 >= height
    <3>1. CASE k = j
        BY <1>1, <1>3, <1>4, <3>1
    <3>2. CASE k # j
      <4>1. View(proposals')[k] = View(proposals)[k]
          BY <1>4, <3>2, Zenon
      <4>2. /\ View(proposals)[k] \in Open /\ k <= proposed /\ View(frozen)[k] = None
            /\ View(proposals)[k].EndVotingHeight + 1 >= height
          BY <1>5, <2>1, <4>1, Zenon DEF IInv, OpenOnes
      <4> QED BY <1>1, <4>1, <4>2 DEF Ids
    <3> QED BY <3>1, <3>2, Zenon
  <2> QED BY <1>1, <1>5, <2>1, Zenon DEF OpenOnes
<1>9. Committed'
  <2>1. ASSUME NEW k \in Ids
        PROVE  LET old == proposals.tree[k]
                   new == View(proposals')[k]
               IN  /\ old = None /\ new # None => new.EndVotingHeight >= height
                   /\ old # None =>
                          /\ old \in Open /\ new.EndVotingHeight = old.EndVotingHeight
                          /\ old.EndVotingHeight < height =>
                                 new = old \/ new.TotalVotingPower < old.TotalVotingPower
    <3>1. proposals.tree[k] # None => proposals.tree[k] \in Open
        BY <1>1, Zenon DEF IInv, Committed
    <3>2. CASE k = j
        BY <1>1, <1>3, <1>4, <3>1, <3>2
    <3>3. CASE k # j
      <4>1. View(proposals')[k] = View(proposals)[k]
          BY <1>4, <3>3, Zenon
      <4> QED BY <1>1, <4>1, Zenon DEF IInv, Committed
    <3> QED BY <3>2, <3>3, Zenon
  <2> QED BY <1>1, <1>4, <2>1, Zenon DEF Committed
<1>10. FrozenOnes'
  <2>1. \A k \in Ids : k <= proposed => k <= proposed'
      BY <1>1 DEF Ids
  <2> QED BY <1>1, <1>5, <2>1, Zenon DEF IInv, FrozenOnes
<1>11. ParamsKept'
    BY <1>1, Zenon DEF IInv, ParamsKept, SavedParams
<1> QED BY <1>6, <1>7, <1>8, <1>9, <1>10, <1>11, Zenon DEF IInv

\* execProposing takes a new key.
LEMMA ProposingStep ==
    ASSUME IInv, NEW ballot \in Ballots, NEW period \in VotingPeriods, NEW wait \in Delays,
           execProposing(ballot, height + 1, period, MinApplyingHeight(height + 1 + period) + wait)
    PROVE  IInv'
<1> DEFINE j == proposed + 1
           applying == MinApplyingHeight(height + 1 + period) + wait
           p == NewGovProposal(ballot, height + 1, period, applying)
<1>1. /\ phase = "executing" /\ height \in Nat /\ proposed \in Nat /\ proposed < MaxProposals
      /\ proposed' = proposed + 1 /\ proposals' = Set(proposals, j, p)
    BY Zenon DEF execProposing, IInv, Types
<1>2. OnlyProposals
    BY Zenon DEF execProposing, OnlyProposals
<1>3. period \in Nat /\ wait \in Nat /\ height + 1 \in Nat /\ applying \in Nat /\ MaxProposals \in Nat
    BY <1>1, GovAssumption DEF MinApplyingHeight
<1>4. p \in Open /\ p.EndVotingHeight = height + 1 + period
  <2> DEFINE start == height + 1
  <2> HIDE DEF applying, start
  <2>1. start \in Nat
      BY <1>3, Zenon DEF start
  <2>2. ballot \in Ballots /\ period \in Nat /\ applying \in Nat
      BY <1>3, Zenon
  <2>3. NewGovProposal(ballot, start, period, applying) \in Open
      BY ONLY <2>1, <2>2, NewIs, Zenon
  <2>4. NewGovProposal(ballot, start, period, applying).EndVotingHeight = start + period
      BY ONLY <2>1, <2>2, NewIs, Zenon
  <2> QED BY <2>3, <2>4, ZenonT(60) DEF start
<1>5. j \in Ids /\ j > proposed
    BY <1>1, <1>3 DEF Ids
<1> HIDE DEF p, j
<1>6. View(frozen)[j] = None /\ View(proposals)[j] = None
    BY <1>1, <1>5 DEF IInv, OpenOnes, FrozenOnes, Ids
<1>7. proposals.tree[j] = None
  <2>1. proposals \in ProposalLedger /\ proposals.o.rem = {}
      BY <1>1, Zenon DEF IInv, Types, Overlays
  <2> QED BY <1>5, <1>6, <2>1, ViewIs
<1>8. p.EndVotingHeight >= height
    BY <1>1, <1>3, <1>4
<1> QED BY <1>1, <1>2, <1>4, <1>5, <1>6, <1>7, <1>8, ProposalSet DEF j

\* execVoting, in the time for it.
LEMMA VotingStep ==
    ASSUME IInv, NEW v \in Validators, NEW j \in Ids, NEW c \in Choices, execVoting(v, j, c)
    PROVE  IInv'
<1> DEFINE p == View(proposals)[j]
           q == DoVote(p, v, c)
<1>1. phase = "executing" /\ proposals \in ProposalLedger /\ proposals.o.rem = {}
    BY Zenon DEF execVoting, IInv, Types, Overlays
<1>2. p = Found(proposals, j)
    BY <1>1, ViewIs, Zenon
<1>3. /\ p # None /\ v \in DOMAIN p.Voters /\ c \in DOMAIN p.Options
      /\ height <= p.EndVotingHeight /\ proposals' = Set(proposals, j, q)
      /\ proposed' = proposed
    BY <1>2, Zenon DEF execVoting
<1>4. OnlyProposals
    BY Zenon DEF execVoting, OnlyProposals
<1>5. p \in Open /\ j <= proposed /\ View(frozen)[j] = None
    BY <1>3, Zenon DEF IInv, OpenOnes
<1>6. proposals.tree[j] # None => p.EndVotingHeight = proposals.tree[j].EndVotingHeight
    BY <1>1, Zenon DEF IInv, Committed
<1> HIDE DEF p
<1>7. q \in Open /\ q.EndVotingHeight = p.EndVotingHeight
    BY <1>3, <1>5, DoVoteKeeps, Zenon DEF SameHead
<1>8. proposed \in Nat /\ proposed <= proposed' /\ height \in Nat /\ q.EndVotingHeight >= height
  <2>1. proposed \in Nat /\ height \in Nat
      BY Zenon DEF IInv, Types
  <2>2. p \in Proposal
      BY <1>5, Zenon DEF Open
  <2>3. p.EndVotingHeight \in Nat
      BY <2>2, ProposalIs, Zenon
  <2> QED BY <1>3, <1>7, <2>1, <2>3
<1> HIDE DEF q
<1> QED BY <1>3, <1>4, <1>5, <1>6, <1>7, <1>8, ProposalSet, ZenonT(60)

\* What EndBlock leaves of the two ledgers.
LEMMA EndBlockViews ==
    ASSUME IInv, EndBlock
    PROVE  /\ proposals' \in ProposalLedger /\ frozen' \in ProposalLedger
           /\ \A k \in Ids : View(proposals')[k] = IF k \in Ended THEN None ELSE View(proposals)[k]
           /\ \A k \in Ids : View(frozen')[k] = IF k \in Due THEN None
                                  ELSE IF k \in Agreed THEN updateMajorOption(proposals.tree[k])
                                  ELSE View(frozen)[k]
<1>1. /\ phase = "executing" /\ proposals \in ProposalLedger /\ proposals.o.rem = {}
      /\ frozen \in ProposalLedger /\ frozen.o = NewOverlay(Ids)
      /\ \A k \in Ids : proposals.tree[k] # None => proposals.tree[k] \in Open
    BY Zenon DEF EndBlock, IInv, Types, Overlays, Committed
<1>2. Ended \in SUBSET Ids /\ Agreed \in SUBSET Ids /\ Due \in SUBSET Ids
    BY <1>1, Zenon DEF Ended, Agreed, Due, Present, ProposalLedger, ProposalTree
<1>3. proposals' = DelEach(proposals, Ended) /\ frozen' = DelEach(freezeProposals, Due)
    BY Zenon DEF EndBlock
<1> DEFINE g == [k \in Agreed |-> updateMajorOption(proposals.tree[k])]
<1>4. g \in [Agreed -> Proposal]
  <2>1. ASSUME NEW k \in Agreed PROVE updateMajorOption(proposals.tree[k]) \in Proposal
    <3>1. /\ proposals.tree[k] \in Open
          /\ updateMajorOption(proposals.tree[k]).MajorOption # None
        BY <1>1, <1>2, Zenon DEF Agreed, Ended, Present
    <3>2. updateMajorOption(proposals.tree[k]) \in Settled
        BY <3>1, MajorIs, Zenon
    <3> QED BY <3>2, Zenon DEF Settled
  <2> QED BY <2>1, Zenon
<1>5. freezeProposals = SetEach(frozen, g)
    BY DEF freezeProposals
<1>6. \A k \in Agreed : g[k] = updateMajorOption(proposals.tree[k])
    OBVIOUS
<1> HIDE DEF g
<1>7. /\ freezeProposals \in ProposalLedger /\ freezeProposals.o.rem = {}
      /\ \A k \in Ids : View(freezeProposals)[k] = IF k \in Agreed THEN g[k] ELSE View(frozen)[k]
  <2>1. frozen.o.rem = {}
      BY <1>1 DEF NewOverlay
  <2> QED BY <1>1, <1>2, <1>4, <1>5, <2>1, SetEachIs
<1>8. /\ proposals' \in ProposalLedger
      /\ \A k \in Ids : View(proposals')[k] = IF k \in Ended THEN None ELSE View(proposals)[k]
    BY <1>1, <1>2, <1>3, DelEachIs
<1>9. /\ frozen' \in ProposalLedger
      /\ \A k \in Ids : View(frozen')[k] = IF k \in Due THEN None ELSE View(freezeProposals)[k]
    BY <1>2, <1>3, <1>7, DelEachIs
<1> QED BY <1>6, <1>7, <1>8, <1>9, Zenon

\* The committed proposals and frozen proposals that EndBlock reads.
LEMMA EndBlockReads ==
    ASSUME IInv, phase = "executing", NEW k \in Ids
    PROVE  /\ proposals.tree[k] # None => View(proposals)[k] # None
           /\ View(frozen)[k] = frozen.tree[k]
           /\ k \in Ended <=> /\ proposals.tree[k] # None
                              /\ proposals.tree[k].EndVotingHeight < height
           /\ k \in Due <=> frozen.tree[k] # None /\ frozen.tree[k].ApplyingHeight <= height
<1>1. /\ proposals \in ProposalLedger /\ proposals.o.rem = {}
      /\ frozen \in ProposalLedger /\ frozen.o = NewOverlay(Ids)
    BY Zenon DEF IInv, Types, Overlays
<1>2. DOMAIN proposals.tree = Ids /\ DOMAIN frozen.tree = Ids
    BY <1>1, Zenon DEF ProposalLedger, ProposalTree
<1>3. View(frozen)[k] = frozen.tree[k]
    BY <1>1, CleanIs, ZenonT(60)
<1>4. proposals.tree[k] # None => View(proposals)[k] # None
    BY <1>1, ViewIs
<1> QED BY <1>2, <1>3, <1>4, Zenon DEF Ended, Due, Present

\* The last of some keys is one of them.
LEMMA LastIs ==
    ASSUME NEW S \in SUBSET Ids, S # {} PROVE Last(S) \in S
<1>1. MaxProposals \in Nat
    BY GovAssumption, Zenon
<1>2. Largest(S) \in S /\ \A j \in S : Largest(S) >= j
    BY <1>1, TopIs, Zenon DEF Ids
<1>3. \A j \in S : j <= Largest(S)
    BY <1>2, Zenon DEF Ids
<1> QED BY <1>2, <1>3, Zenon DEF Last

\* The parameters after EndBlock.
LEMMA EndBlockParams ==
    ASSUME IInv, EndBlock
    PROVE  /\ params' \in [tree : Params \union {None}, upd : Params \union {None}]
           /\ newGovParams' \in Params \union {None} /\ expected' \in Params /\ ParamsKept'
<1>1. /\ phase = "executing" /\ phase' = "ended" /\ govParams' = govParams
      /\ params \in [tree : Params \union {None}, upd : Params \union {None}]
      /\ govParams \in Params /\ newGovParams = None /\ expected \in Params
      /\ SavedParams = govParams /\ (clashed \/ expected = govParams)
    BY Zenon DEF EndBlock, IInv, Types, ParamsKept
<1>2. ASSUME NEW k \in Changing PROVE k \in Ids /\ Change(k) \in Params
  <2>1. k \in Due /\ frozen.tree[k].OptType = "govparams"
      BY Zenon DEF Changing
  <2>2. k \in Ids
    <3>1. frozen \in ProposalLedger
        BY Zenon DEF IInv, Types
    <3> QED BY <2>1, <3>1, Zenon DEF Due, Present, ProposalLedger, ProposalTree
  <2>3. View(frozen)[k] = frozen.tree[k] /\ frozen.tree[k] # None
      BY <1>1, <2>1, <2>2, EndBlockReads, Zenon
  <2>4. frozen.tree[k] \in Settled
      BY <2>2, <2>3, Zenon DEF IInv, FrozenOnes
  <2> QED BY <2>1, <2>2, <2>4, Zenon DEF Settled, Change
<1>3. \A S \in SUBSET Changing : S # {} => Last(S) \in S
    BY <1>2, LastIs, Zenon
<1>4. expected' = AllChanges(expected) /\ (clashed' <=> clashed \/ \E j, k \in Changing : j # k)
    BY Zenon DEF EndBlock
<1>5. AllChanges(expected) \in Params
  <2> DEFINE giving(f) == {k \in Changing : Change(k)[f] # 0}
  <2>1. ASSUME NEW f \in Fields
        PROVE  (IF giving(f) = {} THEN expected[f] ELSE Change(Last(giving(f)))[f]) \in Nat
    <3>1. giving(f) # {} => Last(giving(f)) \in Changing
        BY <1>3, Zenon
    <3>2. giving(f) # {} => Change(Last(giving(f))) \in Params
        BY <1>2, <3>1, Zenon
    <3> HIDE DEF giving
    <3> QED BY <1>1, <3>2, Zenon DEF Params
  <2> QED BY <2>1, Zenon DEF AllChanges, Params
<1>6. CASE Changing = {}
  <2>1. params' = params /\ newGovParams' = newGovParams
      BY <1>6, Zenon DEF EndBlock, applyProposals
  <2>2. AllChanges(expected) = expected
      BY <1>1, <1>6, Zenon DEF AllChanges, Params
  <2>3. ParamsKept'
      BY <1>1, <1>4, <2>1, <2>2, Zenon DEF ParamsKept, SavedParams
  <2> QED BY <1>1, <1>4, <1>5, <2>1, <2>3, Zenon
<1>7. CASE Changing # {}
  <2> DEFINE last == Last(Changing)
             new == MergeGovParams(govParams, Change(last))
  <2>1. params' = [params EXCEPT !.upd = new] /\ newGovParams' = new
      BY <1>7, Zenon DEF EndBlock, applyProposals
  <2>2. last \in Changing /\ Change(last) \in Params
      BY <1>2, <1>3, <1>7, Zenon
  <2> HIDE DEF last
  <2>3. new \in Params /\ new # None
    <3>1. new \in Params
        BY <1>1, <2>2, Zenon DEF MergeGovParams, Params
    <3> QED BY <3>1, NoneAssumption, Zenon
  <2>4. ASSUME ~clashed' PROVE expected' = new
    <3>1. expected = govParams /\ \A k \in Changing : k = last
        BY <1>1, <1>4, <2>2, <2>4, Zenon
    <3>2. ASSUME NEW f \in Fields PROVE AllChanges(expected)[f] = new[f]
      <4> DEFINE giving == {k \in Changing : Change(k)[f] # 0}
      <4>1. AllChanges(expected)[f] = IF giving = {} THEN expected[f] ELSE Change(Last(giving))[f]
          BY Zenon DEF AllChanges
      <4>2. new[f] = IF Change(last)[f] = 0 THEN govParams[f] ELSE Change(last)[f]
          BY Zenon DEF MergeGovParams
      <4>3. giving = {} <=> Change(last)[f] = 0
          BY <2>2, <3>1, Zenon
      <4>4. giving # {} => Last(giving) = last
          BY <1>3, <3>1, Zenon
      <4> HIDE DEF giving, new
      <4> QED BY <3>1, <4>1, <4>2, <4>3, <4>4, Zenon
    <3> HIDE DEF new
    <3> QED BY <1>4, <1>5, <2>3, <3>2 DEF Params
  <2> HIDE DEF new
  <2>5. ParamsKept'
      BY <1>1, <2>1, <2>3, <2>4, Zenon DEF ParamsKept, SavedParams
  <2> QED BY <1>1, <1>4, <1>5, <2>1, <2>3, <2>5, ZenonT(60)
<1> QED BY <1>6, <1>7, Zenon

\* EndBlock.
LEMMA EndBlockStep ==
    ASSUME IInv, EndBlock PROVE IInv'
<1>1. /\ phase = "executing" /\ phase' = "ended" /\ height' = height /\ height \in Nat
      /\ govParams' = govParams /\ proposed' = proposed
    BY Zenon DEF EndBlock, IInv, Types
<1>2. /\ proposals' \in ProposalLedger /\ frozen' \in ProposalLedger
      /\ \A k \in Ids : View(proposals')[k] = IF k \in Ended THEN None ELSE View(proposals)[k]
      /\ \A k \in Ids : View(frozen')[k] = IF k \in Due THEN None
                             ELSE IF k \in Agreed THEN updateMajorOption(proposals.tree[k])
                             ELSE View(frozen)[k]
    BY EndBlockViews, Zenon
<1>3. Slack' = 0 /\ Slack = 1
    BY <1>1, Zenon DEF Slack
<1>4. Types' /\ ParamsKept'
    BY <1>1, <1>2, EndBlockParams, Zenon DEF IInv, Types
<1>5. Overlays' /\ Committed'
    BY <1>1, Zenon DEF Overlays, Committed
<1>6. OpenOnes'
  <2>1. ASSUME NEW k \in Ids, View(proposals')[k] # None
        PROVE  /\ View(proposals')[k] \in Open /\ k <= proposed /\ View(frozen')[k] = None
               /\ View(proposals')[k].EndVotingHeight + 0 >= height
    <3> DEFINE p == View(proposals)[k]
    <3>1. k \notin Ended /\ View(proposals')[k] = p /\ p # None
        BY <1>2, <2>1, Zenon
    <3>2. p \in Open /\ k <= proposed /\ View(frozen)[k] = None
        BY <3>1, Zenon DEF IInv, OpenOnes
    <3>3. View(frozen')[k] = None
        BY <1>2, <3>1, <3>2, Zenon DEF Agreed
    <3>4. p.EndVotingHeight \in Nat
      <4>1. p \in Proposal
          BY <3>2, ZenonT(60) DEF Open
      <4> QED BY <4>1, ProposalIs, Zenon
    <3>5. CASE proposals.tree[k] = None
      <4>1. p.EndVotingHeight >= height
          BY <1>1, <3>1, <3>5, Zenon DEF IInv, Committed
      <4> HIDE DEF p
      <4> QED BY <3>1, <3>2, <3>3, <3>4, <4>1
    <3>6. CASE proposals.tree[k] # None
      <4>1. p.EndVotingHeight = proposals.tree[k].EndVotingHeight
          BY <1>1, <3>6, Zenon DEF IInv, Committed
      <4>2. ~(proposals.tree[k].EndVotingHeight < height)
          BY <1>1, <3>1, <3>6, EndBlockReads, ZenonT(60)
      <4> HIDE DEF p
      <4> QED BY <1>1, <3>1, <3>2, <3>3, <3>4, <4>1, <4>2
    <3> QED BY <3>5, <3>6, Zenon
  <2> QED BY <1>1, <1>3, <2>1, Zenon DEF OpenOnes
<1>7. FrozenOnes'
  <2>1. ASSUME NEW k \in Ids, View(frozen')[k] # None
        PROVE  LET p == View(frozen')[k]
               IN  /\ p \in Settled /\ k <= proposed /\ p.EndVotingHeight + 1 + 0 <= height
                   /\ Later(p.ApplyingHeight, p.EndVotingHeight + 2) + 0 > height
    <3> DEFINE p == View(frozen')[k]
    <3>1. CASE k \in Agreed
      <4> DEFINE q == proposals.tree[k]
      <4>1. k \notin Due /\ p = updateMajorOption(q)
          BY <1>2, <2>1, <3>1, Zenon
      <4>2. k \in Ended /\ p.MajorOption # None
          BY <3>1, <4>1, Zenon DEF Agreed
      <4>3. q # None /\ q.EndVotingHeight < height /\ View(proposals)[k] # None
          BY <1>1, <4>2, EndBlockReads, Zenon
      <4>4. q \in Open /\ View(proposals)[k].EndVotingHeight = q.EndVotingHeight
          BY <1>1, <4>3, Zenon DEF IInv, Committed
      <4>5. k <= proposed /\ q.EndVotingHeight + 1 >= height
          BY <1>3, <4>3, <4>4, Zenon DEF IInv, OpenOnes
      <4>6. q.EndVotingHeight \in Nat /\ q.ApplyingHeight \in Nat
        <5>1. q \in Proposal
            BY <4>4, Zenon DEF Open
        <5> QED BY <5>1, ProposalIs, Zenon
      <4> HIDE DEF q
      <4>7. /\ p \in Settled /\ p.EndVotingHeight = q.EndVotingHeight
            /\ p.ApplyingHeight = q.ApplyingHeight
          BY <4>1, <4>2, <4>4, MajorIs, Zenon
      <4> HIDE DEF p
      <4>8. Later(q.ApplyingHeight, q.EndVotingHeight + 2) > height
          BY <1>1, <4>5, <4>6 DEF Later
      <4>9. Later(q.ApplyingHeight, q.EndVotingHeight + 2) \in Nat
          BY <4>6 DEF Later
      <4> QED BY <1>1, <4>3, <4>5, <4>6, <4>7, <4>8, <4>9 DEF p
    <3>2. CASE k \notin Agreed
      <4>1. k \notin Due /\ p = View(frozen)[k] /\ p # None
          BY <1>2, <2>1, <3>2, Zenon
      <4>2. /\ p \in Settled /\ k <= proposed /\ p.EndVotingHeight + 1 + 1 <= height
            /\ Later(p.ApplyingHeight, p.EndVotingHeight + 2) + 1 > height
          BY <1>3, <4>1, Zenon DEF IInv, FrozenOnes
      <4>3. ~(p.ApplyingHeight <= height)
          BY <1>1, <4>1, EndBlockReads, Zenon
      <4>4. p.EndVotingHeight \in Nat /\ p.ApplyingHeight \in Nat
        <5>1. p \in Proposal
            BY <4>2, ZenonT(60) DEF Settled
        <5> QED BY <5>1, ProposalIs, Zenon
      <4> HIDE DEF p
      <4>5. Later(p.ApplyingHeight, p.EndVotingHeight + 2) + 0 > height
          BY <1>1, <4>2, <4>3, <4>4 DEF Later
      <4> QED BY <1>1, <4>2, <4>4, <4>5 DEF p
    <3> QED BY <3>1, <3>2, ZenonT(60)
  <2> QED BY <1>1, <1>3, <2>1, Zenon DEF FrozenOnes
<1> QED BY <1>4, <1>5, <1>6, <1>7, Zenon DEF IInv

\* Commit.
LEMMA CommitStep ==
    ASSUME IInv, Commit PROVE IInv'
<1>1. /\ phase = "ended" /\ phase' = "idle" /\ height' = height /\ proposed' = proposed
      /\ expected' = expected /\ clashed' = clashed /\ newGovParams' = None
      /\ params' = [tree |-> SavedParams, upd |-> None]
      /\ govParams' = IF newGovParams = None THEN govParams ELSE newGovParams
    BY Zenon DEF Commit
<1>2. Types
    BY DEF IInv
<1>3. /\ proposals' \in ProposalLedger /\ proposals'.o = NewOverlay(Ids)
      /\ \A k \in Ids : View(proposals')[k] = View(proposals)[k]
    BY <1>2, SavedIs, Zenon DEF Commit, Types
<1>4. /\ frozen' \in ProposalLedger /\ frozen'.o = NewOverlay(Ids)
      /\ \A k \in Ids : View(frozen')[k] = View(frozen)[k]
    BY <1>2, SavedIs, Zenon DEF Commit, Types
<1>5. SavedParams = (IF newGovParams = None THEN govParams ELSE newGovParams) /\ SavedParams \in Params
    BY <1>2, Zenon DEF IInv, ParamsKept, Types
<1>6. Slack' = 0 /\ Slack = 0
    BY <1>1, Zenon DEF Slack
<1>7. Types'
    BY <1>1, <1>2, <1>3, <1>4, <1>5, ZenonT(60) DEF Types
<1>8. Overlays' /\ Committed'
    BY <1>1, <1>3, <1>4, Zenon DEF Overlays, Committed
<1>9. OpenOnes'
    BY <1>1, <1>3, <1>4, <1>6, Zenon DEF IInv, OpenOnes
<1>10. FrozenOnes'
    BY <1>1, <1>4, <1>6, Zenon DEF IInv, FrozenOnes
<1>11. ParamsKept'
    BY <1>1, <1>5, Zenon DEF IInv, ParamsKept, SavedParams
<1> QED BY <1>7, <1>8, <1>9, <1>10, <1>11, Zenon DEF IInv

\* A restart reads the parameters that were in force.
LEMMA RestartStep ==
    ASSUME IInv, Restart PROVE IInv'
<1>1. /\ phase = "idle" /\ height > 0 /\ phase' = phase /\ height' = height
      /\ proposals' = proposals /\ frozen' = frozen /\ params' = params /\ proposed' = proposed
      /\ expected' = expected /\ clashed' = clashed
      /\ govParams' = params.tree /\ newGovParams' = None
    BY Zenon DEF Restart
<1>2. params.upd = None /\ newGovParams = None /\ SavedParams = govParams /\ SavedParams = params.tree
    BY <1>1, Zenon DEF IInv, ParamsKept, SavedParams
<1>3. govParams' = govParams /\ newGovParams' = newGovParams
    BY <1>1, <1>2, Zenon
<1>4. Slack' = Slack /\ SavedParams' = SavedParams
    BY <1>1, Zenon DEF Slack, SavedParams
<1>5. Types' /\ Overlays' /\ Committed'
    BY <1>1, <1>3, Zenon DEF IInv, Types, Overlays, Committed
<1>6. OpenOnes' /\ FrozenOnes'
    BY <1>1, <1>4, Zenon DEF IInv, OpenOnes, FrozenOnes
<1>7. ParamsKept'
    BY <1>1, <1>3, <1>4, Zenon DEF IInv, ParamsKept
<1> QED BY <1>5, <1>6, <1>7, Zenon DEF IInv

\* A block that panics leaves everything as it was.
LEMMA EndBlockFailsStep ==
    ASSUME IInv, EndBlockFails PROVE IInv'
<1>1. /\ phase = "executing" /\ phase' = "panicked" /\ height' = height
      /\ proposals' = proposals /\ frozen' = frozen /\ params' = params /\ proposed' = proposed
      /\ expected' = expected /\ clashed' = clashed
      /\ govParams' = govParams /\ newGovParams' = newGovParams
    BY Zenon DEF EndBlockFails
<1>2. Slack' = Slack /\ SavedParams' = SavedParams
    BY <1>1, Zenon DEF Slack, SavedParams
<1>3. frozen.o = NewOverlay(Ids) /\ newGovParams = None
    BY <1>1, Zenon DEF IInv, Overlays, ParamsKept
<1>4. Types' /\ Overlays' /\ Committed'
    BY <1>1, <1>3, Zenon DEF IInv, Types, Overlays, Committed
<1>5. OpenOnes' /\ FrozenOnes'
    BY <1>1, <1>2, Zenon DEF IInv, OpenOnes, FrozenOnes
<1>6. ParamsKept'
    BY <1>1, <1>2, <1>3, Zenon DEF IInv, ParamsKept
<1> QED BY <1>4, <1>5, <1>6, Zenon DEF IInv

-----------------------------------------------------------------------------
(* The theorems. *)

\* Every step keeps the invariant.
LEMMA GovStep ==
    ASSUME IInv, [Next]_vars PROVE IInv'
<1>1. CASE \E n \in 0 .. MaxEvidence : \E byzantines \in [1 .. n -> Validators] : BeginBlock(byzantines)
    BY <1>1, BeginBlockStep, Zenon
<1>2. CASE \E ballot \in Ballots, period \in VotingPeriods, wait \in Delays :
               execProposing(ballot, height + 1, period,
                             MinApplyingHeight(height + 1 + period) + wait)
    BY <1>2, ProposingStep, Zenon
<1>3. CASE \E v \in Validators, k \in Ids, choice \in Choices : execVoting(v, k, choice)
    BY <1>3, VotingStep, Zenon
<1>4. CASE EndBlock
    BY <1>4, EndBlockStep, Zenon
<1>5. CASE Commit
    BY <1>5, CommitStep, Zenon
<1>8. CASE EndBlockFails
    BY <1>8, EndBlockFailsStep, Zenon
<1>6. CASE Restart
    BY <1>6, RestartStep, Zenon
<1>7. CASE UNCHANGED vars
    BY <1>7, Zenon DEF vars, IInv, Types, Overlays, OpenOnes, Committed, FrozenOnes, ParamsKept,
                SavedParams, Slack
<1> QED BY <1>1, <1>2, <1>3, <1>4, <1>5, <1>6, <1>7, <1>8, ZenonT(60) DEF Next

\* The invariant holds of the governance controller.
THEOREM GovInvariant == Spec => []IInv
<1>1. Init => IInv
    BY GovStarts, Zenon
<1>2. IInv /\ [Next]_vars => IInv'
    BY GovStep, Zenon
<1> QED BY <1>1, <1>2, PTL, Zenon DEF Spec

\* The counts a proposal carries are those of its voters, however often they vote, change their
\* vote or are punished (DoVote, DoPunish).
THEOREM GovTallyMatches == Spec => []TallyMatches
<1>1. ASSUME IInv PROVE TallyMatches
  <2>1. DOMAIN View(proposals) = Ids
      BY <1>1, Zenon DEF IInv, Types, ProposalLedger, ProposalTree, View, Merge
  <2>2. ASSUME NEW k \in Ids, View(proposals)[k] # None PROVE Tallies(View(proposals)[k])
    <3>1. View(proposals)[k] \in Open
        BY <1>1, <2>2, Zenon DEF IInv, OpenOnes
    <3> QED BY <3>1, Zenon DEF Open
  <2> QED BY <2>1, <2>2, Zenon DEF TallyMatches, Present
<1> QED BY <1>1, GovInvariant, PTL, Zenon

\* More than half of the power agreed to what waits to be applied (updateMajorOption), from a
\* total of 5 on.
THEOREM GovAgreedByMajority == Spec => []AgreedByMajority
<1>1. ASSUME IInv PROVE AgreedByMajority
  <2>1. DOMAIN View(frozen) = Ids
      BY <1>1, Zenon DEF IInv, Types, ProposalLedger, ProposalTree, View, Merge
  <2>2. ASSUME NEW k \in Ids, View(frozen)[k] # None, View(frozen)[k].TotalVotingPower >= 5
        PROVE  2 * View(frozen)[k].MajorOption.votes > View(frozen)[k].TotalVotingPower
    <3> DEFINE p == View(frozen)[k]
    <3>1. p \in Settled
        BY <1>1, <2>2, Zenon DEF IInv, FrozenOnes
    <3>2. /\ p.TotalVotingPower \in Int /\ p.MajorOption.votes \in Int
          /\ p.MajorOption.votes >= MajorityPower(p.TotalVotingPower)
      <4>1. p \in Proposal
          BY <3>1, Zenon DEF Settled
      <4> HIDE DEF p
      <4> QED BY <3>1, <4>1, ProposalIs, Zenon DEF Settled, Option
    <3> HIDE DEF p
    <3> QED BY <2>2, <3>2 DEF MajorityPower, p
  <2> QED BY <2>1, <2>2, Zenon DEF AgreedByMajority, Present
<1> QED BY <1>1, GovInvariant, PTL, Zenon

\* Between blocks the parameters in force are the committed ones (Commit, NewGovCtrler).
THEOREM GovParamsInForce == Spec => []ParamsInForce
<1>1. ASSUME IInv PROVE ParamsInForce
    BY <1>1, Zenon DEF IInv, ParamsKept, SavedParams, ParamsInForce
<1> QED BY <1>1, GovInvariant, PTL, Zenon

\* No agreed change of the parameters is lost, unless two were applied in one block
\* (applyProposals).
THEOREM GovEachChangeKept == Spec => []EachChangeKept
<1>1. ASSUME IInv PROVE EachChangeKept
    BY <1>1, Zenon DEF IInv, ParamsKept, EachChangeKept
<1> QED BY <1>1, GovInvariant, PTL, Zenon

\* A proposal becomes frozen in EndBlock and in no other step.
LEMMA FrozenGrows ==
    ASSUME IInv, [Next]_vars, NEW k \in Ids, View(frozen)[k] = None, View(frozen')[k] # None
    PROVE  EndBlock
<1>1. CASE EndBlock
    BY <1>1, Zenon
<1>2. CASE Commit
  <2>1. View(frozen')[k] = View(frozen)[k]
      BY <1>2, SavedIs, Zenon DEF Commit, IInv, Types
  <2> QED BY <2>1, Zenon
<1>3. CASE frozen' = frozen
    BY <1>3, Zenon
<1> QED BY <1>1, <1>2, <1>3, Zenon DEF Next, BeginBlock, execProposing, execVoting, EndBlockFails,
                                    Restart, vars

\* What is frozen is what was voted for, unless a voter was punished in that block
\* (freezeProposals).
THEOREM GovFrozenAsVoted == Spec => FrozenAsVoted
<1> DEFINE AsVoted ==
        \A k \in Ids :
            (/\ View(proposals)[k] # None /\ View(frozen)[k] = None /\ View(frozen)'[k] # None
             /\ View(frozen)'[k].TotalVotingPower = View(proposals)[k].TotalVotingPower)
            => View(frozen)'[k] = updateMajorOption(View(proposals)[k])
<1>1. ASSUME IInv, [Next]_vars PROVE AsVoted
  <2> SUFFICES ASSUME NEW k \in Ids, View(proposals)[k] # None, View(frozen)[k] = None,
                      View(frozen')[k] # None,
                      View(frozen')[k].TotalVotingPower = View(proposals)[k].TotalVotingPower
               PROVE  View(frozen')[k] = updateMajorOption(View(proposals)[k])
      BY Zenon
  <2> DEFINE old == proposals.tree[k]
             new == View(proposals)[k]
  <2>1. EndBlock /\ phase = "executing"
      BY <1>1, FrozenGrows, Zenon DEF EndBlock
  <2>2. k \in Agreed /\ View(frozen')[k] = updateMajorOption(old)
      BY <1>1, <2>1, EndBlockViews, Zenon
  <2>3. old # None /\ old.EndVotingHeight < height
      BY <1>1, <2>1, <2>2, EndBlockReads, ZenonT(60) DEF Agreed
  <2>4. old \in Open /\ (new = old \/ new.TotalVotingPower < old.TotalVotingPower)
      BY <1>1, <2>1, <2>3, Zenon DEF IInv, Committed
  <2>5. new \in Open
      BY <1>1, Zenon DEF IInv, OpenOnes
  <2>6. old.TotalVotingPower \in Int /\ new.TotalVotingPower \in Int
    <3>1. old \in Proposal /\ new \in Proposal
        BY <2>4, <2>5, Zenon DEF Open
    <3> QED BY <3>1, ProposalIs, ZenonT(60)
  <2> HIDE DEF old, new
  <2>7. updateMajorOption(old).TotalVotingPower = old.TotalVotingPower
      BY <2>4, MajorIs, Zenon
  <2> QED BY <2>2, <2>4, <2>6, <2>7 DEF new
<1>2. IInv /\ [Next]_vars => [AsVoted]_vars
  <2> HIDE DEF AsVoted
  <2> QED BY <1>1, Zenon
<1> QED BY <1>2, GovInvariant, PTL, Zenon DEF Spec, FrozenAsVoted

\* A frozen proposal is applied in one block and no other (applyProposals).
THEOREM GovAppliedOnTime == Spec => AppliedOnTime
<1> DEFINE OnTime ==
        phase = "executing" /\ phase' = "ended" => \A k \in Present(View(frozen)) :
            LET p == View(frozen)[k]
            IN  View(frozen)'[k] = None <=>
                    height = Later(p.ApplyingHeight, p.EndVotingHeight + 2)
<1>1. ASSUME IInv, [Next]_vars PROVE OnTime
  <2> SUFFICES ASSUME phase = "executing", phase' = "ended", NEW k \in Present(View(frozen))
               PROVE  LET p == View(frozen)[k]
                      IN  View(frozen')[k] = None <=>
                              height = Later(p.ApplyingHeight, p.EndVotingHeight + 2)
      BY Zenon
  <2> DEFINE p == View(frozen)[k]
  <2>1. EndBlock
      BY <1>1, Zenon DEF Next, BeginBlock, execProposing, execVoting, EndBlockFails, Commit, Restart,
                         vars
  <2>2. k \in Ids /\ p # None /\ height \in Nat
      BY <1>1, Zenon DEF Present, IInv, Types, ProposalLedger, ProposalTree, View, Merge
  <2>3. Slack = 1
      BY DEF Slack
  <2>4. /\ p \in Settled /\ p.EndVotingHeight + 1 + 1 <= height
        /\ Later(p.ApplyingHeight, p.EndVotingHeight + 2) + 1 > height
      BY <1>1, <2>2, <2>3, Zenon DEF IInv, FrozenOnes
  <2>5. k \notin Agreed
    <3>1. View(proposals)[k] = None
        BY <1>1, <2>2, Zenon DEF IInv, OpenOnes
    <3>2. k \notin Ended
        BY <1>1, <2>2, <3>1, EndBlockReads, ZenonT(60)
    <3> QED BY <3>2, Zenon DEF Agreed
  <2>6. View(frozen')[k] = None <=> k \in Due
      BY <1>1, <2>1, <2>2, <2>5, EndBlockViews, ZenonT(60)
  <2>7. k \in Due <=> p.ApplyingHeight <= height
      BY <1>1, <2>2, EndBlockReads, Zenon
  <2>8. p.EndVotingHeight \in Nat /\ p.ApplyingHeight \in Nat
    <3>1. p \in Proposal
        BY <2>4, Zenon DEF Settled
    <3> QED BY <3>1, ProposalIs, Zenon
  <2> HIDE DEF p
  <2>9. p.ApplyingHeight <= height <=> height = Later(p.ApplyingHeight, p.EndVotingHeight + 2)
      BY <2>2, <2>4, <2>8 DEF Later
  <2> QED BY <2>6, <2>7, <2>9, Zenon DEF p
<1>2. IInv /\ [Next]_vars => [OnTime]_vars
  <2> HIDE DEF OnTime
  <2> QED BY <1>1, Zenon
<1> QED BY <1>2, GovInvariant, PTL, Zenon DEF Spec, AppliedOnTime
=============================================================================
