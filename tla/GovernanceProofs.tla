--------------------------- MODULE GovernanceProofs ---------------------------
(***************************************************************************)
(* Proofs about Governance: its types, and that a verdict follows from the *)
(* recorded votes although finalize_proposal may be called at any time     *)
(* after the voting, in any state and any number of times.  And about      *)
(* GovernanceGate: an escrow that is linked to it acts on mandates only.   *)
(***************************************************************************)
EXTENDS GovernanceGate, DataProofs, Descent

\* Every address has a voting power that is a natural number.
LEMMA PowerType ==
    ASSUME TypeOK, NEW v \in Voters
    PROVE  Power(v) \in Nat
  BY DEF TypeOK, Power

\* A change of the status alone keeps everything else of the proposals.
LEMMA StatusChange ==
    ASSUME TypeOK, NEW p \in ProposalIds, NEW status \in Status \ {"None"},
           proposals[p].status # "None", SetStatus(p, status)
    PROVE  /\ TypeOK'
           /\ proposals'[p].status = status
           /\ \A q \in ProposalIds : /\ q # p => proposals'[q] = proposals[q]
                                     /\ proposals'[q].end = proposals[q].end
                                     /\ proposals'[q].tally = proposals[q].tally
  <1>1. /\ proposals \in [ProposalIds -> Proposal]
        /\ proposals' = [proposals EXCEPT ![p].status = status]
    BY DEF TypeOK, SetStatus
  <1>2. proposals' \in [ProposalIds -> Proposal]
    BY <1>1 DEF Proposal
  <1>3. /\ proposals'[p].status = status
        /\ \A q \in ProposalIds : /\ q # p => proposals'[q] = proposals[q]
                                  /\ proposals'[q].end = proposals[q].end
                                  /\ proposals'[q].tally = proposals[q].tally
    BY <1>1 DEF Proposal
  <1>4. \A q \in ProposalIds : q < count <=> proposals'[q].status # "None"
    BY <1>3 DEF TypeOK
  <1>. QED
    BY <1>2, <1>3, <1>4 DEF TypeOK, SetStatus

-----------------------------------------------------------------------------
(* Types *)

\* Every call of the governance contract keeps the types of its storage, and
\* the ids in use are those below the counter.
LEMMA TypesStep ==
    ASSUME TypeOK, [Next]_vars
    PROVE  TypeOK'
  <1>1. ASSUME NEW v \in Voters, NEW h \in Hashes, CreateProposal(v, h)
        PROVE  TypeOK'
    <2>. DEFINE new == [status |-> "Active", proposer |-> v, hash |-> h,
                        end |-> now + VotingPeriod, tally |-> NoTally]
    <2>1. /\ proposals \in [ProposalIds -> Proposal] /\ count \in 0 .. MaxProposals
          /\ count < MaxProposals /\ now \in Nat /\ VotingPeriod \in Nat
          /\ proposals' = [proposals EXCEPT ![count] = new] /\ count' = count + 1
      <3>1. proposals \in [ProposalIds -> Proposal] /\ count \in 0 .. MaxProposals
        BY DEF TypeOK
      <3>2. now \in Nat /\ VotingPeriod \in Nat
        BY BoundsAssumption, ConfigAssumption DEF TypeOK
      <3>3. /\ count < MaxProposals
            /\ proposals' = [proposals EXCEPT ![count] = new] /\ count' = count + 1
        BY <1>1 DEF CreateProposal
      <3>. QED
        BY <3>1, <3>2, <3>3
    <2>2. count \in ProposalIds /\ count' \in 0 .. MaxProposals
      BY <2>1, BoundsAssumption DEF ProposalIds
    <2>3. new \in Proposal /\ new.status = "Active"
      BY <2>1 DEF NoTally, Proposal, Status, Tallies
    <2>4. proposals' \in [ProposalIds -> Proposal]
      BY <2>1, <2>3
    <2>5. ASSUME NEW p \in ProposalIds
          PROVE  p < count' <=> proposals'[p].status # "None"
      <3>1. CASE p = count
        BY <3>1, <2>1, <2>2, <2>3
      <3>2. CASE p # count
        <4>1. proposals'[p] = proposals[p]
          BY <3>2, <2>1
        <4>2. p < count <=> proposals[p].status # "None"
          BY DEF TypeOK
        <4>3. p < count' <=> p < count
          BY <3>2, <2>1 DEF ProposalIds
        <4>. QED
          BY <4>1, <4>2, <4>3
      <3>. QED
        BY <3>1, <3>2
    <2>. QED
      BY <1>1, <2>2, <2>4, <2>5 DEF TypeOK, CreateProposal
  <1>2. ASSUME NEW p \in ProposalIds, NEW v \in Voters, NEW type \in VoteType,
               CastVote(p, v, type)
        PROVE  TypeOK'
    <2>1. /\ proposals \in [ProposalIds -> Proposal] /\ Power(v) \in Nat
          /\ votes \in [ProposalIds -> [Voters -> Vote]]
          /\ proposals' = [proposals EXCEPT ![p].tally[type] = @ + Power(v)]
          /\ votes' = [votes EXCEPT ![p][v] = [type |-> type, power |-> Power(v)]]
          /\ UNCHANGED <<now, count, balances>>
      BY <1>2, PowerType DEF TypeOK, CastVote
    <2>2. proposals[p].tally \in [VoteType -> Nat]
      BY <2>1 DEF Proposal, Tallies
    <2>3. [proposals[p].tally EXCEPT ![type] = @ + Power(v)] \in [VoteType -> Nat]
      BY <2>1, <2>2
    <2>4. proposals' \in [ProposalIds -> Proposal]
      BY <2>1, <2>3 DEF Proposal, Tallies
    <2>5. votes' \in [ProposalIds -> [Voters -> Vote]]
      BY <2>1 DEF Vote
    <2>6. \A q \in ProposalIds : proposals'[q].status = proposals[q].status
      BY <2>1 DEF Proposal
    <2>. QED
      BY <2>1, <2>4, <2>5, <2>6 DEF TypeOK
  <1>3. ASSUME NEW p \in ProposalIds, FinalizeProposal(p)
        PROVE  TypeOK'
    BY <1>3, StatusChange DEF FinalizeProposal, Ended, Status
  <1>4. ASSUME NEW p \in ProposalIds, ExecuteProposal(p)
        PROVE  TypeOK'
    BY <1>4, StatusChange DEF ExecuteProposal, Status
  <1>5. ASSUME NEW p \in ProposalIds, CancelProposal(p)
        PROVE  TypeOK'
    BY <1>5, StatusChange DEF CancelProposal, Status
  <1>6. ASSUME NEW p \in ProposalIds, SweepExpiredProposal(p)
        PROVE  TypeOK'
    BY <1>6, StatusChange DEF SweepExpiredProposal, Sweepable, Status
  <1>7. ASSUME NEW from \in Voters, NEW to \in Voters \ {from}, TransferTokens(from, to)
        PROVE  TypeOK'
    <2>1. PICK amount \in 1 .. balances[from] :
            balances' = [balances EXCEPT ![from] = @ - amount, ![to] = @ + amount]
      BY <1>7 DEF TransferTokens
    <2>2. balances \in [Voters -> Nat]
      BY DEF TypeOK
    <2>3. balances' \in [Voters -> Nat]
      BY <2>1, <2>2
    <2>. QED
      BY <1>7, <2>3 DEF TypeOK, TransferTokens
  <1>8. CASE Tick
    BY <1>8, BoundsAssumption DEF TypeOK, Tick
  <1>9. CASE UNCHANGED vars
    BY <1>9 DEF TypeOK, vars
  <1>. QED
    BY <1>1, <1>2, <1>3, <1>4, <1>5, <1>6, <1>7, <1>8, <1>9 DEF Next

\* The contract before its initialisation is well typed.
LEMMA InitTypes == Init => TypeOK
  <1>1. NoProposal \in Proposal /\ NoProposal.status = "None" /\ NoVote \in Vote
    BY DEF NoProposal, NoTally, Proposal, Status, Tallies, VoteType, NoVote, Vote
  <1>. QED
    BY <1>1, VotersAssumption, BoundsAssumption DEF Init, TypeOK, ProposalIds

\* The storage of the governance contract always has its types.
THEOREM GovernanceTypes == Spec => []TypeOK
  <1>. QED
    BY InitTypes, TypesStep, PTL DEF Spec

-----------------------------------------------------------------------------
(* The votes *)

\* TalliesMatchVotes is not inductive by itself: a new proposal starts with
\* empty tallies, so there must be no votes under the ids not given out yet.
\* That one address has one vote also needs what each recorded vote weighs.
VotesInv ==
    /\ TypeOK
    /\ \A p \in ProposalIds : p >= count => \A v \in Voters : votes[p][v].power = 0
    /\ TalliesMatchVotes
    /\ ~TokenWeighted => \A p \in ProposalIds, v \in Voters : votes[p][v].power <= 1

\* The recorded weights of one type are natural numbers.
LEMMA CastForType ==
    ASSUME TypeOK, NEW p \in ProposalIds, NEW t
    PROVE  \A v \in Voters : CastFor(p, t)[v] \in Nat
  <1>1. \A v \in Voters : votes[p][v].power \in Nat
    BY DEF TypeOK, Vote
  <1>. QED
    BY <1>1 DEF CastFor

\* A vote adds its weight to the weights of its type and to no other.
LEMMA CastVoteSums ==
    ASSUME VotesInv, TypeOK', NEW p \in ProposalIds, NEW v \in Voters, NEW type \in VoteType,
           CastVote(p, v, type), NEW q \in ProposalIds, NEW t \in VoteType
    PROVE  Sum(CastFor(q, t), Voters)' =
               Sum(CastFor(q, t), Voters) + (IF q = p /\ t = type THEN Power(v) ELSE 0)
  <1>. DEFINE f == CastFor(q, t)
              g == [w \in Voters |-> IF votes'[q][w].type = t THEN votes'[q][w].power ELSE 0]
  <1>1. /\ votes \in [ProposalIds -> [Voters -> Vote]]
        /\ votes' = [votes EXCEPT ![p][v] = [type |-> type, power |-> Power(v)]]
        /\ votes[p][v].power = 0
        /\ Power(v) \in Nat
    BY PowerType DEF VotesInv, TypeOK, CastVote, VoteOpen
  <1>2. /\ \A w \in Voters : f[w] = IF votes[q][w].type = t THEN votes[q][w].power ELSE 0
        /\ \A w \in Voters : g[w] = IF votes'[q][w].type = t THEN votes'[q][w].power ELSE 0
        /\ g = CastFor(q, t)'
    BY DEF CastFor
  <1>3. \A w \in Voters : f[w] \in Int /\ g[w] \in Int
    <2>1. \A w \in Voters : votes[q][w].power \in Nat /\ votes'[q][w].power \in Nat
      BY DEF VotesInv, TypeOK, Vote
    <2>. QED
      BY <1>2, <2>1
  <1>4. \A w \in Voters \ {v} : g[w] = f[w]
    <2>1. \A w \in Voters \ {v} : votes'[q][w] = votes[q][w]
      BY <1>1
    <2>. QED
      BY <1>2, <2>1
  <1>5. g[v] - f[v] = IF q = p /\ t = type THEN Power(v) ELSE 0
    <2>1. CASE q = p
      <3>1. votes'[q][v].type = type /\ votes'[q][v].power = Power(v)
        BY <1>1, <2>1
      <3>2. f[v] = 0
        BY <1>1, <1>2, <2>1
      <3>. QED
        BY <1>1, <1>2, <2>1, <3>1, <3>2
    <2>2. CASE q # p
      <3>1. votes'[q][v] = votes[q][v]
        BY <1>1, <2>2
      <3>. QED
        BY <1>2, <1>3, <2>2, <3>1
    <2>. QED
      BY <2>1, <2>2
  <1>6. Sum(CastFor(q, t), Voters)' = Sum(g, Voters)
    BY <1>2, Zenon
  <1>. HIDE DEF f, g
  <1>7. Sum(g, Voters) = Sum(f, Voters) + (g[v] - f[v])
    BY <1>3, <1>4, SumChange, VotersAssumption
  <1>. QED
    BY <1>5, <1>6, <1>7 DEF f

\* A call that leaves the votes alone, and the tallies of the proposals that
\* exist, keeps what is said about them.
LEMMA VotesUntouched ==
    ASSUME VotesInv, TypeOK', votes' = votes, count' = count,
           \A q \in ProposalIds : proposals'[q].tally = proposals[q].tally
    PROVE  VotesInv'
  <1>1. TalliesMatchVotes'
    BY DEF VotesInv, TalliesMatchVotes, CastFor
  <1>. QED
    BY <1>1 DEF VotesInv

\* Every call keeps the tallies, the recorded votes and their weights in step.
LEMMA VotesStep ==
    ASSUME VotesInv, [Next]_vars
    PROVE  VotesInv'
  <1>. TypeOK /\ TypeOK'
    BY TypesStep DEF VotesInv
  <1>1. ASSUME NEW v \in Voters, NEW h \in Hashes, CreateProposal(v, h)
        PROVE  VotesInv'
    <2>1. /\ count \in ProposalIds /\ count' = count + 1 /\ votes' = votes
          /\ proposals \in [ProposalIds -> Proposal]
          /\ proposals'[count].tally = NoTally
          /\ \A q \in ProposalIds : q # count => proposals'[q] = proposals[q]
      BY <1>1, BoundsAssumption DEF CreateProposal, TypeOK, ProposalIds
    <2>2. \A q \in ProposalIds : q >= count' => q >= count
      BY <2>1 DEF ProposalIds
    <2>3. ASSUME NEW q \in ProposalIds, NEW t \in VoteType
          PROVE  proposals'[q].tally[t] = Sum(CastFor(q, t)', Voters)
      <3>1. CASE q = count
        <4>1. \A w \in Voters : CastFor(q, t)'[w] = 0
          <5>1. \A w \in Voters : votes'[q][w].power = 0
            BY <2>1, <3>1 DEF VotesInv, ProposalIds
          <5>. QED
            BY <5>1 DEF CastFor
        <4>2. Sum(CastFor(q, t)', Voters) = 0
          BY <4>1, SumZero, VotersAssumption
        <4>. QED
          BY <2>1, <3>1, <4>2 DEF NoTally
      <3>2. CASE q # count
        BY <2>1, <3>2 DEF VotesInv, TalliesMatchVotes, CastFor
      <3>. QED
        BY <3>1, <3>2
    <2>. QED
      BY <2>1, <2>2, <2>3 DEF VotesInv, TalliesMatchVotes
  <1>2. ASSUME NEW p \in ProposalIds, NEW v \in Voters, NEW type \in VoteType,
               CastVote(p, v, type)
        PROVE  VotesInv'
    <2>1. /\ proposals \in [ProposalIds -> Proposal] /\ Power(v) \in Nat
          /\ votes \in [ProposalIds -> [Voters -> Vote]]
          /\ proposals' = [proposals EXCEPT ![p].tally[type] = @ + Power(v)]
          /\ votes' = [votes EXCEPT ![p][v] = [type |-> type, power |-> Power(v)]]
          /\ count' = count
          /\ proposals[p].status = "Active"
      BY <1>2, PowerType DEF TypeOK, CastVote, VoteOpen
    <2>2. \A q \in ProposalIds : q >= count => q # p
      BY <2>1 DEF TypeOK, ProposalIds
    <2>3. \A q \in ProposalIds, w \in Voters :
              votes'[q][w].power = IF q = p /\ w = v THEN Power(v) ELSE votes[q][w].power
      BY <2>1
    <2>4. \A q \in ProposalIds : proposals[q].tally \in [VoteType -> Nat]
      BY <2>1 DEF Proposal, Tallies
    <2>5. \A q \in ProposalIds, t \in VoteType :
              proposals'[q].tally[t] =
                  proposals[q].tally[t] + (IF q = p /\ t = type THEN Power(v) ELSE 0)
      <3>1. \A q \in ProposalIds : q # p => proposals'[q] = proposals[q]
        BY <2>1
      <3>2. proposals'[p].tally = [proposals[p].tally EXCEPT ![type] = @ + Power(v)]
        BY <2>1 DEF Proposal
      <3>3. \A t \in VoteType : proposals'[p].tally[t] =
                proposals[p].tally[t] + (IF t = type THEN Power(v) ELSE 0)
        BY <2>1, <2>4, <3>2
      <3>. QED
        BY <2>4, <3>1, <3>3
    <2>6. \A q \in ProposalIds, t \in VoteType :
              Sum(CastFor(q, t), Voters)' =
                  Sum(CastFor(q, t), Voters) + (IF q = p /\ t = type THEN Power(v) ELSE 0)
      BY <1>2, CastVoteSums
    <2>7. TalliesMatchVotes'
      BY <2>5, <2>6 DEF VotesInv, TalliesMatchVotes
    <2>8. \A q \in ProposalIds : q >= count' => \A w \in Voters : votes'[q][w].power = 0
      BY <2>1, <2>2, <2>3 DEF VotesInv
    <2>9. ~TokenWeighted => \A q \in ProposalIds, w \in Voters : votes'[q][w].power <= 1
      BY <2>3 DEF VotesInv, Power
    <2>. QED
      BY <2>7, <2>8, <2>9 DEF VotesInv
  <1>3. ASSUME NEW p \in ProposalIds, NEW status \in Status \ {"None"},
               proposals[p].status # "None", SetStatus(p, status)
        PROVE  VotesInv'
    BY <1>3, StatusChange, VotesUntouched DEF SetStatus
  <1>4. ASSUME NEW p \in ProposalIds,
               \/ FinalizeProposal(p) \/ ExecuteProposal(p)
               \/ CancelProposal(p) \/ SweepExpiredProposal(p)
        PROVE  VotesInv'
    <2>1. PICK status \in Status \ {"None"} :
              proposals[p].status # "None" /\ SetStatus(p, status)
      BY <1>4 DEF FinalizeProposal, ExecuteProposal, CancelProposal, SweepExpiredProposal,
                  Ended, Sweepable, Status
    <2>. QED
      BY <1>3, <2>1
  <1>5. CASE UNCHANGED <<proposals, votes, count>>
    BY <1>5, VotesUntouched
  <1>. QED
    BY <1>1, <1>2, <1>4, <1>5 DEF Next, TransferTokens, Tick, vars

\* So the tallies are those of the recorded votes in every reachable state.
LEMMA VotesInvariant == Spec => []VotesInv
  <1>1. Init => VotesInv
    <2>. SUFFICES ASSUME Init
                  PROVE  VotesInv
      OBVIOUS
    <2>1. TypeOK
      BY InitTypes
    <2>2. \A p \in ProposalIds, v \in Voters : votes[p][v].power = 0
      BY DEF Init, NoVote
    <2>3. ASSUME NEW p \in ProposalIds, NEW t \in VoteType
          PROVE  proposals[p].tally[t] = Sum(CastFor(p, t), Voters)
      <3>1. \A v \in Voters : CastFor(p, t)[v] = 0
        BY <2>2 DEF CastFor
      <3>2. Sum(CastFor(p, t), Voters) = 0
        BY <3>1, SumZero, VotersAssumption
      <3>. QED
        BY <3>2 DEF Init, NoProposal, NoTally
    <2>. QED
      BY <2>1, <2>2, <2>3 DEF VotesInv, TalliesMatchVotes
  <1>. QED
    BY <1>1, VotesStep, PTL DEF Spec

\* The tallies of every proposal always are the weights of the recorded votes,
\* through every interleaving of votes and moves of the tokens behind them.
THEOREM TalliesAlwaysMatchVotes == Spec => []TalliesMatchVotes
  <1>1. VotesInv => TalliesMatchVotes
    BY DEF VotesInv
  <1>. QED
    BY <1>1, VotesInvariant, PTL

\* A recorded vote counts in one tally, and weighs at most 1.
LEMMA VotesBoundCast ==
    ASSUME VotesInv, ~TokenWeighted, NEW p \in ProposalIds
    PROVE  Cast(p) <= Cardinality(Voters)
  <1>. DEFINE f == CastFor(p, "For")
              g == CastFor(p, "Against")
              h == CastFor(p, "Abstain")
              fg == [v \in Voters |-> f[v] + g[v]]
              all == [v \in Voters |-> fg[v] + h[v]]
  <1>1. TypeOK /\ \A v \in Voters : votes[p][v] \in Vote /\ votes[p][v].power <= 1
    BY DEF VotesInv, TypeOK
  <1>2. \A v \in Voters : f[v] \in Nat /\ g[v] \in Nat /\ h[v] \in Nat
    BY <1>1, CastForType
  <1>3. \A v \in Voters : /\ fg[v] = f[v] + g[v]
                          /\ all[v] = fg[v] + h[v]
    OBVIOUS
  <1>4. \A v \in Voters : all[v] <= 1
    <2>. SUFFICES ASSUME NEW v \in Voters
                  PROVE  all[v] <= 1
      OBVIOUS
    <2>1. /\ f[v] = IF votes[p][v].type = "For" THEN votes[p][v].power ELSE 0
          /\ g[v] = IF votes[p][v].type = "Against" THEN votes[p][v].power ELSE 0
          /\ h[v] = IF votes[p][v].type = "Abstain" THEN votes[p][v].power ELSE 0
      BY DEF CastFor
    <2>2. votes[p][v].power \in Nat /\ votes[p][v].power <= 1
      BY <1>1 DEF Vote
    <2>. QED
      BY <1>3, <2>1, <2>2
  <1>5. /\ For(p) = Sum(f, Voters) /\ Against(p) = Sum(g, Voters)
        /\ proposals[p].tally["Abstain"] = Sum(h, Voters)
    BY DEF VotesInv, TalliesMatchVotes, For, Against, VoteType
  <1>. HIDE DEF f, g, h, fg, all
  <1>6. Sum(fg, Voters) = Sum(f, Voters) + Sum(g, Voters)
    BY <1>2, <1>3, SumPlus, VotersAssumption
  <1>7. \A v \in Voters : fg[v] \in Int /\ h[v] \in Int /\ all[v] \in Int
    BY <1>2, <1>3
  <1>8. Sum(all, Voters) = Sum(fg, Voters) + Sum(h, Voters)
    BY <1>3, <1>7, SumPlus, VotersAssumption
  <1>9. Sum(all, Voters) <= 1 * Cardinality(Voters)
    <2>1. 1 \in Int /\ \A v \in Voters : all[v] \in Int /\ all[v] <= 1
      BY <1>4, <1>7
    <2>. QED
      BY <2>1, SumCount, VotersAssumption, Zenon
  <1>10. Cardinality(Voters) \in Nat
    BY FS_CardinalityType, VotersAssumption
  <1>11. Cast(p) = Sum(all, Voters)
    BY <1>5, <1>6, <1>8 DEF Cast
  <1>. QED
    BY <1>9, <1>10, <1>11

\* Under one person one vote no proposal ever collects more votes than there
\* are addresses, however the tokens move between them.
THEOREM OnePersonAlwaysOneVote == Spec => []OnePersonOneVote
  <1>1. VotesInv => OnePersonOneVote
    BY VotesBoundCast DEF OnePersonOneVote
  <1>. QED
    BY <1>1, VotesInvariant, PTL

-----------------------------------------------------------------------------
(* The verdict *)

\* VerdictFollowsVotes is inductive together with TypeOK: a verdict exists only
\* once voting is over, and then no call changes a tally.

\* While the tallies of a proposal stay, so does the verdict they give.
LEMMA VerdictIsKept ==
    ASSUME NEW p \in ProposalIds,
           proposals'[p].tally = proposals[p].tally
    PROVE  Passes(p)' <=> Passes(p)
  BY DEF Passes, MeetsQuorum, Cast, For, Against

\* A proposal that keeps its status, its tallies and its end keeps a true verdict.
LEMMA UntouchedVerdict ==
    ASSUME TypeOK, VerdictFollowsVotes, now' \in Nat, now' >= now, NEW p \in ProposalIds,
           proposals'[p] = proposals[p]
    PROVE  /\ proposals'[p].status \in {"Approved", "Executed"} => Ended(p)' /\ Passes(p)'
           /\ proposals'[p].status = "Rejected" => Ended(p)' /\ ~Passes(p)'
           /\ proposals'[p].status = "Executed" => now' >= ExecutableAt(p)'
  <1>1. Passes(p)' <=> Passes(p)
    BY VerdictIsKept
  <1>2. ExecutableAt(p)' = ExecutableAt(p)
    BY DEF ExecutableAt
  <1>3. now \in Nat /\ proposals[p].end \in Nat /\ ExecutableAt(p) \in Nat
    <2>1. proposals[p] \in Proposal /\ now \in Nat
      BY BoundsAssumption DEF TypeOK
    <2>2. proposals[p].end \in Nat
      BY <2>1 DEF Proposal
    <2>3. ExecutableAt(p) \in Nat
      BY <2>2, ConfigAssumption DEF ExecutableAt
    <2>. QED
      BY <2>1, <2>2, <2>3
  <1>4. Ended(p) => Ended(p)'
    BY <1>3 DEF Ended
  <1>. QED
    BY <1>1, <1>2, <1>3, <1>4 DEF VerdictFollowsVotes

\* A call that sets the status of one proposal keeps the verdicts true when the
\* status it sets is true of that proposal.
LEMMA TrueStatus ==
    ASSUME TypeOK, VerdictFollowsVotes, NEW p \in ProposalIds, NEW status \in Status \ {"None"},
           proposals[p].status # "None", SetStatus(p, status),
           status \in {"Approved", "Executed"} => Ended(p) /\ Passes(p),
           status = "Rejected" => Ended(p) /\ ~Passes(p),
           status = "Executed" => now >= ExecutableAt(p)
    PROVE  VerdictFollowsVotes'
  <1>1. /\ proposals'[p].status = status
        /\ \A q \in ProposalIds : /\ q # p => proposals'[q] = proposals[q]
                                  /\ proposals'[q].end = proposals[q].end
                                  /\ proposals'[q].tally = proposals[q].tally
    BY StatusChange
  <1>2. now' = now /\ now \in Nat
    BY BoundsAssumption DEF SetStatus, TypeOK
  <1>3. /\ Passes(p)' <=> Passes(p)
        /\ ExecutableAt(p)' = ExecutableAt(p)
        /\ Ended(p) => Ended(p)'
    BY <1>1, <1>2, VerdictIsKept DEF ExecutableAt, Ended
  <1>4. ASSUME NEW q \in ProposalIds, q # p
        PROVE  /\ proposals'[q].status \in {"Approved", "Executed"} => Ended(q)' /\ Passes(q)'
               /\ proposals'[q].status = "Rejected" => Ended(q)' /\ ~Passes(q)'
               /\ proposals'[q].status = "Executed" => now' >= ExecutableAt(q)'
    BY <1>1, <1>2, <1>4, UntouchedVerdict
  <1>. QED
    BY <1>1, <1>2, <1>3, <1>4 DEF VerdictFollowsVotes

\* Every call keeps the verdicts true.
LEMMA VerdictStep ==
    ASSUME TypeOK, VerdictFollowsVotes, [Next]_vars
    PROVE  VerdictFollowsVotes'
  <1>1. ASSUME NEW v \in Voters, NEW h \in Hashes, CreateProposal(v, h)
        PROVE  VerdictFollowsVotes'
    <2>1. /\ now' = now /\ now \in Nat /\ proposals \in [ProposalIds -> Proposal]
          /\ \A p \in ProposalIds : p # count => proposals'[p] = proposals[p]
          /\ count \in ProposalIds => proposals'[count].status = "Active"
      BY <1>1, BoundsAssumption DEF CreateProposal, TypeOK
    <2>. QED
      BY <2>1, UntouchedVerdict DEF VerdictFollowsVotes
  <1>2. ASSUME NEW p \in ProposalIds, NEW v \in Voters, NEW type \in VoteType,
               CastVote(p, v, type)
        PROVE  VerdictFollowsVotes'
    <2>1. /\ now' = now /\ now \in Nat /\ proposals \in [ProposalIds -> Proposal]
          /\ proposals' = [proposals EXCEPT ![p].tally[type] = @ + Power(v)]
          /\ proposals[p].status = "Active"
      BY <1>2, BoundsAssumption DEF CastVote, VoteOpen, TypeOK
    <2>2. proposals'[p].status = "Active"
      BY <2>1 DEF Proposal
    <2>3. \A q \in ProposalIds : q # p => proposals'[q] = proposals[q]
      BY <2>1
    <2>. QED
      BY <2>1, <2>2, <2>3, UntouchedVerdict DEF VerdictFollowsVotes
  <1>3. ASSUME NEW p \in ProposalIds, FinalizeProposal(p)
        PROVE  VerdictFollowsVotes'
    <2>1. CASE Passes(p)
      BY <1>3, <2>1, TrueStatus DEF FinalizeProposal, Ended, Status
    <2>2. CASE ~Passes(p)
      BY <1>3, <2>2, TrueStatus DEF FinalizeProposal, Ended, Status
    <2>. QED
      BY <2>1, <2>2
  <1>4. ASSUME NEW p \in ProposalIds, ExecuteProposal(p)
        PROVE  VerdictFollowsVotes'
    <2>1. Ended(p) /\ Passes(p)
      BY <1>4 DEF ExecuteProposal, VerdictFollowsVotes
    <2>. QED
      BY <1>4, <2>1, TrueStatus DEF ExecuteProposal, DelayElapsed, Status
  <1>5. ASSUME NEW p \in ProposalIds, CancelProposal(p)
        PROVE  VerdictFollowsVotes'
    BY <1>5, TrueStatus DEF CancelProposal, Status
  <1>6. ASSUME NEW p \in ProposalIds, SweepExpiredProposal(p)
        PROVE  VerdictFollowsVotes'
    BY <1>6, TrueStatus DEF SweepExpiredProposal, Sweepable, Status
  <1>7. ASSUME NEW from \in Voters, NEW to \in Voters \ {from}, TransferTokens(from, to)
        PROVE  VerdictFollowsVotes'
    BY <1>7, UntouchedVerdict, BoundsAssumption DEF TransferTokens, VerdictFollowsVotes, TypeOK
  <1>8. CASE Tick
    BY <1>8, UntouchedVerdict, BoundsAssumption DEF Tick, VerdictFollowsVotes, TypeOK
  <1>9. CASE UNCHANGED vars
    BY <1>9, UntouchedVerdict, BoundsAssumption DEF vars, VerdictFollowsVotes, TypeOK
  <1>. QED
    BY <1>1, <1>2, <1>3, <1>4, <1>5, <1>6, <1>7, <1>8, <1>9 DEF Next

\* A verdict is always what the recorded votes say, once voting is over; an
\* execution has waited for its delay.
THEOREM VerdictsAreTrue == Spec => []VerdictFollowsVotes
  <1>1. Init => VerdictFollowsVotes
    BY DEF Init, NoProposal, VerdictFollowsVotes
  <1>. QED
    BY <1>1, VerdictStep, GovernanceTypes, PTL DEF Spec

\* No call turns a mandate into a rejection or a rejection into a mandate.
THEOREM VerdictsAreStable == Spec => VerdictIsStable
  <1>. DEFINE Stable ==
         \A p \in ProposalIds :
             /\ proposals[p].status \in {"Approved", "Executed"} =>
                   proposals'[p].status \in {"Approved", "Executed"}
             /\ proposals[p].status = "Rejected" => proposals'[p].status = "Rejected"
  <1>1. ASSUME TypeOK, VerdictFollowsVotes, Next
        PROVE  Stable
    <2>1. ASSUME NEW v \in Voters, NEW h \in Hashes, CreateProposal(v, h)
          PROVE  Stable
      <3>1. count \in ProposalIds => proposals[count].status = "None"
        BY <1>1 DEF TypeOK, ProposalIds
      <3>2. \A p \in ProposalIds : p # count => proposals'[p] = proposals[p]
        BY <1>1, <2>1 DEF CreateProposal, TypeOK
      <3>. QED
        BY <3>1, <3>2
    <2>2. ASSUME NEW p \in ProposalIds, NEW v \in Voters, NEW type \in VoteType,
                 CastVote(p, v, type)
          PROVE  Stable
      <3>1. \A q \in ProposalIds : q # p => proposals'[q] = proposals[q]
        BY <1>1, <2>2 DEF CastVote, TypeOK
      <3>. QED
        BY <2>2, <3>1 DEF CastVote, VoteOpen
    <2>3. ASSUME NEW p \in ProposalIds, FinalizeProposal(p)
          PROVE  Stable
      <3>1. proposals[p].status # "None" /\ (IF Passes(p) THEN "Approved" ELSE "Rejected") \in Status \ {"None"}
        BY <2>3 DEF FinalizeProposal, Ended, Status
      <3>2. /\ proposals'[p].status = IF Passes(p) THEN "Approved" ELSE "Rejected"
            /\ \A q \in ProposalIds : q # p => proposals'[q] = proposals[q]
        BY <1>1, <2>3, <3>1, StatusChange DEF FinalizeProposal
      <3>. QED
        BY <1>1, <3>2 DEF VerdictFollowsVotes
    <2>4. ASSUME NEW p \in ProposalIds, NEW status \in {"Executed", "Cancelled", "Expired"},
                 proposals[p].status = IF status = "Executed" THEN "Approved" ELSE "Active",
                 SetStatus(p, status)
          PROVE  Stable
      <3>1. /\ proposals'[p].status = status
            /\ \A q \in ProposalIds : q # p => proposals'[q] = proposals[q]
        BY <1>1, <2>4, StatusChange DEF Status
      <3>. QED
        BY <2>4, <3>1
    <2>5. CASE UNCHANGED proposals
      BY <2>5
    <2>6. ASSUME NEW p \in ProposalIds,
                 ExecuteProposal(p) \/ CancelProposal(p) \/ SweepExpiredProposal(p)
          PROVE  Stable
      BY <2>4, <2>6 DEF ExecuteProposal, CancelProposal, SweepExpiredProposal, Sweepable
    <2>. QED
      BY <1>1, <2>1, <2>2, <2>3, <2>5, <2>6 DEF Next, TransferTokens, Tick
  <1>2. ASSUME TypeOK, VerdictFollowsVotes, [Next]_vars
        PROVE  [Stable]_vars
    BY <1>1, <1>2
  <1>. QED
    BY <1>2, GovernanceTypes, VerdictsAreTrue, PTL DEF Spec, VerdictIsStable

-----------------------------------------------------------------------------
(* The poll *)

\* Nobody has voted under an id that was not given out yet.
NoBallotsYet ==
    \A p \in ProposalIds : proposals[p].status = "None" => votes[p] = [v \in Voters |-> NoVote]

\* Votes are cast for active proposals, and no proposal loses its status.
LEMMA NoBallotsStep == TypeOK /\ NoBallotsYet /\ [Next]_vars => NoBallotsYet'
  <1>. SUFFICES ASSUME TypeOK, NoBallotsYet, [Next]_vars PROVE NoBallotsYet'
    OBVIOUS
  <1>1. ASSUME NEW v \in Voters, NEW h \in Hashes, CreateProposal(v, h)
        PROVE  NoBallotsYet'
    <2>1. /\ votes' = votes
          /\ \A p \in ProposalIds : p # count => proposals'[p] = proposals[p]
          /\ count \in ProposalIds => proposals'[count].status = "Active"
      BY <1>1 DEF CreateProposal, TypeOK
    <2>. QED
      BY <2>1 DEF NoBallotsYet
  <1>2. ASSUME NEW p \in ProposalIds, NEW v \in Voters, NEW type \in VoteType,
               CastVote(p, v, type)
        PROVE  NoBallotsYet'
    <2>1. /\ proposals[p].status = "Active"
          /\ proposals' = [proposals EXCEPT ![p].tally[type] = @ + Power(v)]
          /\ \A q \in ProposalIds : q # p => votes'[q] = votes[q]
      BY <1>2 DEF CastVote, VoteOpen, TypeOK
    <2>2. \A q \in ProposalIds : proposals'[q].status = proposals[q].status
      BY <2>1 DEF TypeOK, Proposal
    <2>. QED
      BY <2>1, <2>2 DEF NoBallotsYet
  <1>3. ASSUME NEW p \in ProposalIds, NEW status \in Status \ {"None"},
               proposals[p].status # "None", SetStatus(p, status)
        PROVE  NoBallotsYet'
    BY <1>3, StatusChange DEF NoBallotsYet, SetStatus
  <1>4. ASSUME NEW p \in ProposalIds,
               \/ FinalizeProposal(p) \/ ExecuteProposal(p)
               \/ CancelProposal(p) \/ SweepExpiredProposal(p)
        PROVE  NoBallotsYet'
    <2>1. PICK status \in Status \ {"None"} :
              proposals[p].status # "None" /\ SetStatus(p, status)
      BY <1>4 DEF FinalizeProposal, ExecuteProposal, CancelProposal, SweepExpiredProposal,
                  Ended, Sweepable, Status
    <2>. QED
      BY <1>3, <2>1
  <1>5. CASE UNCHANGED <<proposals, votes>>
    BY <1>5 DEF NoBallotsYet
  <1>. QED
    BY <1>1, <1>2, <1>4, <1>5 DEF Next, TransferTokens, Tick, vars

\* An integer quotient reaches a number exactly when the dividend reaches the product.
LEMMA QuotientReaches ==
    ASSUME NEW a \in Nat, NEW b \in Nat \ {0}, NEW q \in Nat
    PROVE  a \div b >= q <=> a >= q * b
  <1>. DEFINE d == a \div b
              r == a % b
  <1>1. d \in Nat /\ r \in 0 .. b - 1 /\ a = b * d + r
    OBVIOUS
  <1>. HIDE DEF d, r
  <1>2. ASSUME d >= q PROVE a >= q * b
    <2>1. PICK n \in Nat : d = q + n
      BY <1>1, <1>2
    <2>2. b * d = q * b + b * n /\ b * n \in Nat /\ q * b \in Nat
      BY <2>1
    <2>. QED
      BY <1>1, <2>2
  <1>3. ASSUME d < q PROVE a < q * b
    <2>1. PICK n \in Nat : q = d + 1 + n
      BY <1>1, <1>3
    <2>2. q * b = b * d + b + b * n /\ b * n \in Nat /\ b * d \in Nat
      BY <1>1, <2>1
    <2>. QED
      BY <1>1, <2>2
  <1>4. a >= q * b => d >= q
    <2>1. q * b \in Nat
      OBVIOUS
    <2>. QED
      BY <1>1, <1>3, <2>1
  <1>. QED
    BY <1>2, <1>4 DEF d

\* A poll weighs ballots as the tallies do.
LEMMA BallotSums == ASSUME NEW f, NEW S PROVE Ballots!Sum(f, S) = Sum(f, S)
  BY Zenon DEF Ballots!Sum, Sum, MapThenSumSet, Ballots!MapThenSumSet, MapThenFoldSet,
               Ballots!MapThenFoldSet

LEMMA BallotsWeigh ==
    ASSUME VotesInv, NEW p \in ProposalIds
    PROVE  /\ Ballots!Weight(votes[p], {"For"}) = For(p)
           /\ Ballots!Weight(votes[p], {"For", "Against"}) = For(p) + Against(p)
           /\ Ballots!Weight(votes[p], Ballots!Type) = Cast(p)
           /\ For(p) \in Nat /\ Against(p) \in Nat /\ Cast(p) \in Nat
  <1>. DEFINE f == CastFor(p, "For")
              g == CastFor(p, "Against")
              h == CastFor(p, "Abstain")
              weights(T) == [v \in Voters |-> IF votes[p][v].type \in T THEN votes[p][v].power ELSE 0]
  <1>1. \A v \in Voters : votes[p][v].type \in VoteType /\ votes[p][v].power \in Nat
    BY DEF VotesInv, TypeOK, Vote
  <1>2. /\ \A v \in Voters : f[v] \in Int /\ g[v] \in Int /\ h[v] \in Int
    BY CastForType DEF VotesInv
  <1>3. \A v \in Voters : /\ f[v] = IF votes[p][v].type = "For" THEN votes[p][v].power ELSE 0
                          /\ g[v] = IF votes[p][v].type = "Against" THEN votes[p][v].power ELSE 0
                          /\ h[v] = IF votes[p][v].type = "Abstain" THEN votes[p][v].power ELSE 0
    BY DEF CastFor
  <1>4. Sum(f, Voters) = For(p) /\ Sum(g, Voters) = Against(p)
        /\ Sum(h, Voters) = proposals[p].tally["Abstain"]
    BY DEF VotesInv, TalliesMatchVotes, VoteType, For, Against
  <1>5. For(p) \in Nat /\ Against(p) \in Nat /\ proposals[p].tally["Abstain"] \in Nat
    BY DEF VotesInv, TypeOK, Proposal, Tallies, VoteType, For, Against
  <1>6. ASSUME NEW T PROVE Ballots!Weight(votes[p], T) = Sum(weights(T), Voters)
    BY BallotSums, Zenon DEF Ballots!Weight
  <1>7. \A v \in Voters : weights({"For"})[v] = f[v]
    BY <1>3
  <1>8. \A v \in Voters : weights({"For", "Against"})[v] = f[v] + g[v]
    BY <1>1, <1>3
  <1>9. \A v \in Voters : weights(Ballots!Type)[v] = weights({"For", "Against"})[v] + h[v]
    BY <1>1, <1>3 DEF VoteType, Ballots!Type
  <1>10. \A v \in Voters : weights({"For", "Against"})[v] \in Int
    BY <1>1
  <1>. HIDE DEF f, g, h, weights
  <1>11. Sum(weights({"For"}), Voters) = Sum(f, Voters)
    BY <1>2, <1>7, SumEqual, VotersAssumption
  <1>12. Sum(weights({"For", "Against"}), Voters) = Sum(f, Voters) + Sum(g, Voters)
    BY <1>2, <1>8, SumPlus, VotersAssumption
  <1>13. Sum(weights(Ballots!Type), Voters) = Sum(weights({"For", "Against"}), Voters) + Sum(h, Voters)
    BY <1>2, <1>9, <1>10, SumPlus, VotersAssumption
  <1>. QED
    BY <1>4, <1>5, <1>6, <1>11, <1>12, <1>13 DEF Cast

\* The tallies and integer quotients of the code decide as the ballots do.
LEMMA BallotsDecide ==
    ASSUME VotesInv, NEW p \in ProposalIds
    PROVE  Ballots!Carries(votes[p]) <=> Passes(p)
  <1>1. For(p) \in Nat /\ Against(p) \in Nat /\ Cast(p) \in Nat
    BY BallotsWeigh
  <1>2. Quorum \in Nat /\ Threshold \in Nat /\ TotalPower \in Nat \ {0}
    BY ConfigAssumption
  <1>3. MeetsQuorum(p) <=> Cast(p) * 10000 >= Quorum * TotalPower
    BY <1>1, <1>2, QuotientReaches DEF MeetsQuorum
  <1>4. ASSUME For(p) + Against(p) > 0
        PROVE  (For(p) * 10000) \div (For(p) + Against(p)) >= Threshold
                   <=> For(p) * 10000 >= Threshold * (For(p) + Against(p))
    <2>1. For(p) * 10000 \in Nat /\ For(p) + Against(p) \in Nat \ {0}
      BY <1>1, <1>4
    <2>. QED
      BY <1>2, <2>1, QuotientReaches
  <1>. QED
    BY <1>3, <1>4, BallotsWeigh DEF Passes, Ballots!Carries

\* Each proposal is a poll of the right shape.
LEMMA PollsAreTyped == TypeOK => Polled \in [ProposalIds -> Ballots!PollState]
  <1>. SUFFICES ASSUME TypeOK, NEW p \in ProposalIds
                PROVE  [stage |-> StageOf(proposals[p].status), clock |-> Clock(p),
                        ballots |-> votes[p]] \in Ballots!PollState
    BY DEF Polled
  <1>1. StageOf(proposals[p].status) \in {"None", "Open", "Shelved", "Carried", "Lost"}
    BY DEF TypeOK, Proposal, Status, StageOf
  <1>2. Clock(p) \in {"Running", "Over"}
    BY DEF Clock
  <1>3. votes[p] \in [Voters -> Ballots!Ballot]
    BY DEF TypeOK, Vote, VoteType, Ballots!Ballot, Ballots!Type
  <1>. QED
    BY <1>1, <1>2, <1>3 DEF Ballots!PollState

\* What is known of the proposals when a call comes.
PollInv == VotesInv /\ VerdictFollowsVotes /\ NoBallotsYet

\* What a poll is made of
LEMMA PollOf ==
    ASSUME NEW p \in ProposalIds
    PROVE  Polled[p] = [stage |-> StageOf(proposals[p].status), clock |-> Clock(p), ballots |-> votes[p]]
  BY DEF Polled

\* The steps of a poll, field by field
LEMMA StepsOfPoll ==
    ASSUME NEW s, NEW t, NEW clock, NEW ballots
    PROVE  /\ s # "None" => Ballots!Step([stage |-> s, clock |-> "Running", ballots |-> ballots],
                                         [stage |-> s, clock |-> "Over", ballots |-> ballots])
           /\ Ballots!Step([stage |-> "Open", clock |-> clock, ballots |-> ballots],
                           [stage |-> "Shelved", clock |-> clock, ballots |-> ballots])
           /\ /\ s \in {"Open", "Shelved"}
              /\ t = IF Ballots!Carries(ballots) THEN "Carried" ELSE "Lost"
              => Ballots!Step([stage |-> s, clock |-> "Over", ballots |-> ballots],
                              [stage |-> t, clock |-> "Over", ballots |-> ballots])
  <1>1. ASSUME s # "None"
        PROVE  Ballots!End([stage |-> s, clock |-> "Running", ballots |-> ballots],
                           [stage |-> s, clock |-> "Over", ballots |-> ballots])
    BY <1>1 DEF Ballots!End
  <1>2. Ballots!Shelve([stage |-> "Open", clock |-> clock, ballots |-> ballots],
                       [stage |-> "Shelved", clock |-> clock, ballots |-> ballots])
    BY DEF Ballots!Shelve
  <1>3. ASSUME s \in {"Open", "Shelved"},
               t = IF Ballots!Carries(ballots) THEN "Carried" ELSE "Lost"
        PROVE  Ballots!Decide([stage |-> s, clock |-> "Over", ballots |-> ballots],
                              [stage |-> t, clock |-> "Over", ballots |-> ballots])
    BY <1>3 DEF Ballots!Decide
  <1>. QED
    BY <1>1, <1>2, <1>3 DEF Ballots!Step

\* Time may end a poll that no call touches.
LEMMA UntouchedPoll ==
    ASSUME TypeOK, TypeOK', now' >= now, NEW p \in ProposalIds,
           proposals'[p].status = proposals[p].status,
           proposals'[p].end = proposals[p].end, votes'[p] = votes[p]
    PROVE  Ballots!Step(Polled[p], Polled'[p])
  <1>1. now \in Nat /\ now' \in Nat /\ proposals[p].end \in Nat
    BY BoundsAssumption DEF TypeOK, Proposal
  <1>2. Polled'[p] = [stage |-> StageOf(proposals[p].status), clock |-> Clock(p)', ballots |-> votes[p]]
    BY DEF Polled
  <1>3. CASE Clock(p)' = Clock(p)
    BY <1>2, <1>3, PollOf DEF Ballots!Step
  <1>4. CASE Clock(p)' # Clock(p)
    <2>1. Clock(p) = "Running" /\ Clock(p)' = "Over" /\ proposals[p].status # "None"
      BY <1>1, <1>4 DEF Clock, Ended
    <2>2. StageOf(proposals[p].status) # "None"
      BY <2>1 DEF StageOf, TypeOK, Proposal, Status
    <2>3. /\ Polled[p] = [stage |-> StageOf(proposals[p].status), clock |-> "Running", ballots |-> votes[p]]
          /\ Polled'[p] = [stage |-> StageOf(proposals[p].status), clock |-> "Over", ballots |-> votes[p]]
      BY <1>2, <2>1, PollOf
    <2>. QED
      BY <2>2, <2>3, StepsOfPoll
  <1>. QED
    BY <1>3, <1>4

\* A call that sets a status takes its poll by one step, if the status is of one of
\* the four kinds there are, and leaves the others alone.
LEMMA StatusIsStep ==
    ASSUME PollInv, TypeOK', NEW p \in ProposalIds, NEW status \in Status \ {"None"},
           proposals[p].status # "None", SetStatus(p, status),
           \/ StageOf(status) = StageOf(proposals[p].status)
           \/ proposals[p].status = "Active" /\ StageOf(status) = "Shelved"
           \/ /\ StageOf(proposals[p].status) \in {"Open", "Shelved"} /\ Ended(p)
              /\ StageOf(status) = IF Passes(p) THEN "Carried" ELSE "Lost"
    PROVE  \A q \in ProposalIds : Ballots!Step(Polled[q], Polled'[q])
  <1>. TypeOK
    BY DEF PollInv, VotesInv
  <1>1. /\ proposals'[p].status = status
        /\ \A q \in ProposalIds : /\ q # p => proposals'[q] = proposals[q]
                                  /\ proposals'[q].end = proposals[q].end
        /\ votes' = votes /\ now' = now /\ now \in Nat
    BY StatusChange, BoundsAssumption DEF SetStatus, TypeOK
  <1>2. ASSUME NEW q \in ProposalIds, q # p PROVE Ballots!Step(Polled[q], Polled'[q])
    BY <1>1, <1>2, UntouchedPoll
  <1>3. Clock(p)' = Clock(p)
    <2>1. proposals[p].status # "None" /\ status # "None"
      OBVIOUS
    <2>. QED
      BY <1>1, <2>1 DEF Clock, Ended
  <1>4. Polled'[p] = [stage |-> StageOf(status), clock |-> Clock(p), ballots |-> votes[p]]
    <2>1. Polled'[p] = [stage |-> StageOf(proposals'[p].status), clock |-> Clock(p)', ballots |-> votes'[p]]
      BY DEF Polled
    <2>. QED
      BY <1>1, <1>3, <2>1
  <1>5. ASSUME StageOf(status) = StageOf(proposals[p].status)
        PROVE  Ballots!Step(Polled[p], Polled'[p])
    <2>1. Polled'[p] = Polled[p]
      BY <1>4, <1>5, PollOf
    <2>. QED
      BY <2>1 DEF Ballots!Step
  <1>6. ASSUME proposals[p].status = "Active" /\ StageOf(status) = "Shelved"
        PROVE  Ballots!Step(Polled[p], Polled'[p])
    <2>1. StageOf(proposals[p].status) = "Open"
      BY <1>6 DEF StageOf
    <2>2. Polled[p] = [stage |-> "Open", clock |-> Clock(p), ballots |-> votes[p]]
      BY <2>1, PollOf
    <2>3. Polled'[p] = [stage |-> "Shelved", clock |-> Clock(p), ballots |-> votes[p]]
      BY <1>4, <1>6
    <2>. QED
      BY <2>2, <2>3, StepsOfPoll
  <1>7. ASSUME StageOf(proposals[p].status) \in {"Open", "Shelved"}, Ended(p),
               StageOf(status) = IF Passes(p) THEN "Carried" ELSE "Lost"
        PROVE  Ballots!Step(Polled[p], Polled'[p])
    <2>1. Clock(p) = "Over"
      BY <1>7 DEF Clock
    <2>2. StageOf(status) = IF Ballots!Carries(votes[p]) THEN "Carried" ELSE "Lost"
      BY <1>7, BallotsDecide DEF PollInv
    <2>3. /\ Polled[p] = [stage |-> StageOf(proposals[p].status), clock |-> "Over", ballots |-> votes[p]]
          /\ Polled'[p] = [stage |-> StageOf(status), clock |-> "Over", ballots |-> votes[p]]
      BY <1>4, <2>1, PollOf
    <2>. QED
      BY <1>7, <2>2, <2>3, StepsOfPoll
  <1>8. Ballots!Step(Polled[p], Polled'[p])
    BY <1>5, <1>6, <1>7
  <1>. QED
    BY <1>2, <1>8

\* A proposal calls a poll.
LEMMA CreationIsStep ==
    ASSUME PollInv, TypeOK', NEW v \in Voters, NEW h \in Hashes, CreateProposal(v, h)
    PROVE  \A q \in ProposalIds : Ballots!Step(Polled[q], Polled'[q])
  <1>. TypeOK
    BY DEF PollInv, VotesInv
  <1>1. /\ proposals \in [ProposalIds -> Proposal] /\ now \in Nat /\ VotingPeriod \in Nat
        /\ now' = now /\ votes' = votes
        /\ \A q \in ProposalIds : q # count => proposals'[q] = proposals[q]
        /\ count \in ProposalIds => /\ proposals'[count].status = "Active"
                                    /\ proposals'[count].end = now + VotingPeriod
    BY BoundsAssumption, ConfigAssumption DEF CreateProposal, TypeOK
  <1>2. ASSUME NEW q \in ProposalIds, q # count PROVE Ballots!Step(Polled[q], Polled'[q])
    BY <1>1, <1>2, UntouchedPoll
  <1>3. ASSUME count \in ProposalIds PROVE Ballots!Step(Polled[count], Polled'[count])
    <2>1. proposals[count].status = "None"
      BY <1>3 DEF TypeOK, ProposalIds
    <2>2. votes[count] = [w \in Voters |-> [type |-> "Abstain", power |-> 0]]
      BY <1>3, <2>1 DEF PollInv, NoBallotsYet, NoVote
    <2>3. StageOf("None") = "None" /\ StageOf("Active") = "Open" /\ Clock(count) = "Running"
      BY <2>1 DEF StageOf, Clock, Ended
    <2>4. Polled[count] = Ballots!Unused
      BY <1>3, <2>1, <2>2, <2>3, PollOf DEF Ballots!Unused
    <2>5. ASSUME NEW n, n = count, n \in ProposalIds
          PROVE  Polled'[n] = [stage |-> "Open", clock |-> "Running", ballots |-> votes[n]]
      <3>1. Clock(n)' = "Running"
        BY <1>1, <2>5 DEF Clock, Ended
      <3>2. Polled'[n] = [stage |-> StageOf(proposals'[n].status), clock |-> Clock(n)', ballots |-> votes'[n]]
        BY <2>5 DEF Polled
      <3>. QED
        BY <1>1, <2>3, <2>5, <3>1, <3>2
    <2>6. Polled'[count] = [stage |-> "Open", clock |-> "Running", ballots |-> votes[count]]
      BY <1>3, <2>5
    <2>7. Polled'[count] = [Ballots!Unused EXCEPT !.stage = "Open"]
      BY <2>2, <2>6 DEF Ballots!Unused
    <2>. QED
      BY <2>4, <2>7 DEF Ballots!Step, Ballots!Call
  <1>. QED
    BY <1>2, <1>3

\* A vote is a ballot of somebody who had none.
LEMMA VoteIsStep ==
    ASSUME PollInv, TypeOK', NEW p \in ProposalIds, NEW v \in Voters, NEW type \in VoteType,
           CastVote(p, v, type)
    PROVE  \A q \in ProposalIds : Ballots!Step(Polled[q], Polled'[q])
  <1>. TypeOK
    BY DEF PollInv, VotesInv
  <1>1. /\ proposals \in [ProposalIds -> Proposal] /\ votes \in [ProposalIds -> [Voters -> Vote]]
        /\ now \in Nat /\ now' = now
        /\ proposals[p].status = "Active" /\ now <= proposals[p].end
        /\ votes[p][v].power = 0 /\ Power(v) > 0
        /\ proposals' = [proposals EXCEPT ![p].tally[type] = @ + Power(v)]
        /\ votes' = [votes EXCEPT ![p][v] = [type |-> type, power |-> Power(v)]]
    BY BoundsAssumption DEF CastVote, VoteOpen, TypeOK
  <1>2. \A q \in ProposalIds : /\ proposals'[q].status = proposals[q].status
                               /\ proposals'[q].end = proposals[q].end
    BY <1>1 DEF Proposal
  <1>3. ASSUME NEW q \in ProposalIds, q # p PROVE Ballots!Step(Polled[q], Polled'[q])
    <2>1. votes'[q] = votes[q]
      BY <1>1, <1>3
    <2>. QED
      BY <1>1, <1>2, <2>1, UntouchedPoll
  <1>4. Ballots!Step(Polled[p], Polled'[p])
    <2>1. StageOf("Active") = "Open" /\ Clock(p) = "Running" /\ Clock(p)' = "Running"
      <3>1. StageOf("Active") = "Open"
        BY DEF StageOf
      <3>2. proposals[p].end \in Nat
        BY <1>1 DEF Proposal
      <3>. QED
        BY <1>1, <1>2, <3>1, <3>2 DEF Clock, Ended
    <2>2. /\ Polled[p] = [stage |-> "Open", clock |-> "Running", ballots |-> votes[p]]
          /\ Polled'[p] = [stage |-> "Open", clock |-> "Running", ballots |-> votes'[p]]
      <3>1. Polled'[p] = [stage |-> StageOf(proposals'[p].status), clock |-> Clock(p)', ballots |-> votes'[p]]
        BY DEF Polled
      <3>2. Polled[p] = [stage |-> StageOf(proposals[p].status), clock |-> Clock(p), ballots |-> votes[p]]
        BY PollOf
      <3>3. proposals[p].status = "Active" /\ proposals'[p].status = "Active"
        BY <1>1, <1>2
      <3>. QED
        BY <2>1, <3>1, <3>2, <3>3
    <2>3. votes'[p] = [votes[p] EXCEPT ![v] = votes'[p][v]] /\ votes'[p][v].power = Power(v)
      BY <1>1
    <2>4. Polled'[p] = [Polled[p] EXCEPT !.ballots = [votes[p] EXCEPT ![v] = votes'[p][v]]]
      BY <2>2, <2>3
    <2>5. IF TokenWeighted THEN votes'[p][v].power > 0 ELSE votes'[p][v].power = 1
      BY <1>1, <2>3 DEF Power
    <2>6. /\ Polled[p].stage = "Open" /\ Polled[p].clock = "Running"
          /\ Polled[p].ballots = votes[p] /\ Polled'[p].ballots = votes'[p]
      BY <2>2
    <2>. QED
      BY <1>1, <2>4, <2>5, <2>6 DEF Ballots!Step, Ballots!Cast
  <1>. QED
    BY <1>3, <1>4

\* A finalization decides an open or shelved poll, and a decided one as before.
LEMMA FinalizationIsStep ==
    ASSUME PollInv, TypeOK', NEW p \in ProposalIds, FinalizeProposal(p)
    PROVE  \A q \in ProposalIds : Ballots!Step(Polled[q], Polled'[q])
  <1>. DEFINE verdict == IF Passes(p) THEN "Approved" ELSE "Rejected"
  <1>1. /\ Ended(p) /\ SetStatus(p, verdict) /\ proposals[p].status # "None"
        /\ verdict \in Status \ {"None"}
    BY DEF FinalizeProposal, Ended, Status
  <1>2. StageOf(verdict) = IF Passes(p) THEN "Carried" ELSE "Lost"
    BY DEF StageOf
  <1>3. proposals[p].status \in Status
    BY DEF PollInv, VotesInv, TypeOK, Proposal
  <1>. HIDE DEF verdict
  <1>4. CASE proposals[p].status \in {"Approved", "Executed", "Rejected"}
    <2>1. StageOf(proposals[p].status) = StageOf(verdict)
      BY <1>2, <1>4 DEF PollInv, VerdictFollowsVotes, StageOf
    <2>. QED
      BY <1>1, <2>1, StatusIsStep
  <1>5. CASE proposals[p].status \in {"Active", "Cancelled", "Expired"}
    <2>1. StageOf(proposals[p].status) \in {"Open", "Shelved"}
      BY <1>5 DEF StageOf
    <2>. QED
      BY <1>1, <1>2, <2>1, StatusIsStep
  <1>. QED
    BY <1>1, <1>3, <1>4, <1>5 DEF Status

\* Whatever is called, every poll takes one step or none.
LEMMA EveryStepOnPolls ==
    ASSUME PollInv, [Next]_vars
    PROVE  [Ballots!Next]_Polled
  <1>. TypeOK /\ TypeOK'
    BY TypesStep DEF PollInv, VotesInv
  <1>1. ASSUME NEW v \in Voters, NEW h \in Hashes, CreateProposal(v, h)
        PROVE  \A q \in ProposalIds : Ballots!Step(Polled[q], Polled'[q])
    BY <1>1, CreationIsStep
  <1>2. ASSUME NEW p \in ProposalIds, NEW v \in Voters, NEW type \in VoteType,
               CastVote(p, v, type)
        PROVE  \A q \in ProposalIds : Ballots!Step(Polled[q], Polled'[q])
    BY <1>2, VoteIsStep
  <1>3. ASSUME NEW p \in ProposalIds, FinalizeProposal(p)
        PROVE  \A q \in ProposalIds : Ballots!Step(Polled[q], Polled'[q])
    BY <1>3, FinalizationIsStep
  <1>4. ASSUME NEW p \in ProposalIds, ExecuteProposal(p) \/ CancelProposal(p) \/ SweepExpiredProposal(p)
        PROVE  \A q \in ProposalIds : Ballots!Step(Polled[q], Polled'[q])
    <2>1. /\ StageOf("Approved") = StageOf("Executed")
          /\ StageOf("Cancelled") = "Shelved" /\ StageOf("Expired") = "Shelved"
      BY DEF StageOf
    <2>2. PICK status \in Status \ {"None"} :
            /\ SetStatus(p, status)
            /\ \/ proposals[p].status = "Approved" /\ status = "Executed"
               \/ proposals[p].status = "Active" /\ status \in {"Cancelled", "Expired"}
      BY <1>4 DEF ExecuteProposal, CancelProposal, SweepExpiredProposal, Sweepable, Status
    <2>3. proposals[p].status # "None"
      BY <2>2
    <2>4. \/ StageOf(status) = StageOf(proposals[p].status)
          \/ proposals[p].status = "Active" /\ StageOf(status) = "Shelved"
      BY <2>1, <2>2
    <2>. QED
      BY <2>2, <2>3, <2>4, StatusIsStep
  <1>5. ASSUME UNCHANGED <<proposals, votes>>, now' = now \/ now' = now + 1
        PROVE  \A q \in ProposalIds : Ballots!Step(Polled[q], Polled'[q])
    <2>1. now' >= now
      BY <1>5, BoundsAssumption DEF TypeOK
    <2>. QED
      BY <1>5, <2>1, UntouchedPoll
  <1>6. \A q \in ProposalIds : Ballots!Step(Polled[q], Polled'[q])
    BY <1>1, <1>2, <1>3, <1>4, <1>5 DEF Next, TransferTokens, Tick, vars
  <1>7. Polled' \in [ProposalIds -> Ballots!PollState]
    <2>1. (TypeOK => Polled \in [ProposalIds -> Ballots!PollState])'
      BY PollsAreTyped, PTL
    <2>. QED
      BY <2>1
  <1>. QED
    BY <1>6, <1>7 DEF Ballots!Next

\* The governance contract implements the poll: whenever and however often its calls
\* come, ballots are cast once and in time, and they alone decide.
THEOREM GovernanceKeepsPoll == Spec => KeepsPoll
  <1>1. Init => NoBallotsYet
    BY DEF Init, NoBallotsYet
  <1>2. Spec => []NoBallotsYet
    BY <1>1, NoBallotsStep, GovernanceTypes, PTL DEF Spec
  <1>3. Spec => []PollInv
    BY <1>2, VotesInvariant, VerdictsAreTrue, PTL DEF PollInv
  <1>4. Init => Ballots!Init
    <2>. SUFFICES ASSUME Init PROVE Ballots!Init
      OBVIOUS
    <2>1. NoProposal.status = "None"
      BY DEF NoProposal
    <2>2. ASSUME NEW p \in ProposalIds PROVE Polled[p] = Ballots!Unused
      <3>1. proposals[p].status = "None" /\ votes[p] = [v \in Voters |-> NoVote]
        BY <2>1 DEF Init
      <3>2. StageOf("None") = "None" /\ Clock(p) = "Running"
        BY <3>1 DEF StageOf, Clock, Ended
      <3>. QED
        BY <3>1, <3>2, PollOf DEF NoVote, Ballots!Unused
    <2>. QED
      BY <2>2 DEF Polled, Ballots!Init
  <1>5. PollInv /\ [Next]_vars => [Ballots!Next]_Polled
    BY EveryStepOnPolls
  <1>. QED
    BY <1>3, <1>4, <1>5, PTL DEF Spec, KeepsPoll, Ballots!Spec

-----------------------------------------------------------------------------
(* The escrow that is linked *)

\* Whatever the escrow does, the governance contract takes one of its own steps.
LEMMA GateStepsAreSteps == [GateNext]_<<vars, gateVars>> => [Next]_vars
<1> SUFFICES ASSUME [GateNext]_<<vars, gateVars>> PROVE Next \/ UNCHANGED vars
    OBVIOUS
<1>1. ASSUME NEW p \in ProposalIds, ExecuteGovernanceProposal(p) PROVE Next
    BY <1>1 DEF ExecuteGovernanceProposal, Next
<1> QED BY <1>1 DEF GateNext, SetGovernanceContract, SetMinGovernanceVersion, Upgrade,
                    SetVersion

\* The contract with the gate behaves, as far as its proposals and votes go, as the
\* governance module alone does: the only one of its steps that touches them is the
\* execution that governance.rs defines, so all that is proved of Governance holds.
THEOREM GateKeepsGovernance == GateSpec => Spec
<1>1. GateInit => Init
    BY DEF GateInit
<1> QED BY <1>1, GateStepsAreSteps, PTL DEF GateSpec, Spec

\* The votes on record carry the proposal, and its delay has passed.
Carried(p) == Ended(p) /\ Passes(p) /\ DelayElapsed(p)

\* A step keeps what the votes on record and their window are.
VotesKept(p) ==
    /\ proposals'[p].status # "None"
    /\ proposals'[p].end = proposals[p].end
    /\ proposals'[p].tally = proposals[p].tally
    /\ proposals'[p].hash = proposals[p].hash

\* A proposal that is carried stays so, for the same hash: its votes are closed,
\* and no new proposal takes its id.
LEMMA MandateIsKept ==
    ASSUME TypeOK, [Next]_vars, NEW p \in ProposalIds, Carried(p)
    PROVE  Carried(p)' /\ proposals'[p].hash = proposals[p].hash
<1>1. /\ proposals \in [ProposalIds -> Proposal] /\ proposals[p] \in Proposal /\ now \in Nat
      /\ proposals[p].status # "None" /\ p < count /\ count \in Nat
      /\ now > proposals[p].end /\ proposals[p].end \in Nat
      /\ now >= ExecutableAt(p) /\ ExecutableAt(p) \in Nat
  <2>1. proposals \in [ProposalIds -> Proposal] /\ now \in Nat /\ count \in Nat
      BY BoundsAssumption DEF TypeOK
  <2>2. proposals[p].end \in Nat
      BY <2>1 DEF Proposal
  <2>3. ExecutableAt(p) \in Nat
      BY <2>2, ConfigAssumption DEF ExecutableAt
  <2> QED BY <2>1, <2>2, <2>3 DEF TypeOK, Carried, Ended, DelayElapsed
<1>2. ASSUME NEW v \in Voters, NEW h \in Hashes, CreateProposal(v, h) PROVE VotesKept(p)
  <2>1. p # count
      BY <1>1
  <2>2. proposals'[p] = proposals[p]
      BY <1>1, <1>2, <2>1 DEF CreateProposal
  <2> QED BY <1>1, <2>2 DEF VotesKept
<1>3. ASSUME NEW q \in ProposalIds, NEW v \in Voters, NEW type \in VoteType, CastVote(q, v, type)
      PROVE  VotesKept(p)
  <2>1. now <= proposals[q].end
      BY <1>3 DEF CastVote, VoteOpen
  <2>2. q # p
      BY <1>1, <2>1
  <2>3. proposals'[p] = proposals[p]
      BY <1>1, <1>3, <2>2 DEF CastVote
  <2> QED BY <1>1, <2>3 DEF VotesKept
<1>4. ASSUME NEW q \in ProposalIds, NEW status \in Status \ {"None"}, SetStatus(q, status)
      PROVE  VotesKept(p)
  <2>1. proposals' = [proposals EXCEPT ![q].status = status]
      BY <1>4 DEF SetStatus
  <2>2. CASE q = p
      BY <1>1, <2>1, <2>2 DEF Proposal, VotesKept
  <2>3. CASE q # p
    <3>1. proposals'[p] = proposals[p]
        BY <1>1, <2>1, <2>3
    <3> QED BY <1>1, <3>1 DEF VotesKept
  <2> QED BY <2>2, <2>3
<1>5. ASSUME NEW q \in ProposalIds,
             \/ FinalizeProposal(q) \/ ExecuteProposal(q)
             \/ CancelProposal(q) \/ SweepExpiredProposal(q)
      PROVE  VotesKept(p)
  <2>1. \E status \in Status \ {"None"} : SetStatus(q, status)
      BY <1>5 DEF FinalizeProposal, ExecuteProposal, CancelProposal, SweepExpiredProposal, Status
  <2> QED BY <2>1, <1>4
<1>6. ASSUME UNCHANGED proposals PROVE VotesKept(p)
    BY <1>1, <1>6 DEF VotesKept
<1>7. VotesKept(p)
  <2>1. CASE \E v \in Voters, h \in Hashes : CreateProposal(v, h)
      BY <1>2, <2>1
  <2>2. CASE \E q \in ProposalIds :
                \/ \E v \in Voters, type \in VoteType : CastVote(q, v, type)
                \/ FinalizeProposal(q) \/ ExecuteProposal(q)
                \/ CancelProposal(q) \/ SweepExpiredProposal(q)
      BY <1>3, <1>5, <2>2
  <2>3. CASE \E from \in Voters : \E to \in Voters \ {from} : TransferTokens(from, to)
      BY <1>6, <2>3 DEF TransferTokens
  <2>4. CASE Tick \/ UNCHANGED vars
      BY <1>6, <2>4 DEF Tick, vars
  <2> QED BY <2>1, <2>2, <2>3, <2>4 DEF Next
<1>8. now' >= now /\ now' \in Nat
    BY <1>1 DEF Next, CreateProposal, CastVote, FinalizeProposal, ExecuteProposal, CancelProposal,
                SweepExpiredProposal, SetStatus, TransferTokens, Tick, vars
<1>9. Passes(p)'
    BY <1>7, VerdictIsKept DEF Carried, VotesKept
<1>10. ExecutableAt(p)' = ExecutableAt(p)
    BY <1>7 DEF ExecutableAt, VotesKept
<1>11. Ended(p)' /\ DelayElapsed(p)'
    BY <1>1, <1>7, <1>8, <1>10 DEF Ended, DelayElapsed, VotesKept
<1> QED BY <1>7, <1>9, <1>11 DEF Carried, VotesKept

\* What the gate lets through was carried when it was asked for, as an approval
\* and an execution both follow the votes, and is carried ever after.
MandateInv ==
    /\ code = InitialCode \/ \E p \in ProposalIds : proposals[p].hash = code /\ Carried(p)
    /\ consumed \subseteq ProposalIds
    /\ \A p \in consumed : Carried(p)

\* Every step keeps the code the gate installed one that a carried proposal named.
LEMMA MandateStep ==
    ASSUME TypeOK, VerdictFollowsVotes, MandateInv, [GateNext]_<<vars, gateVars>>
    PROVE  MandateInv'
<1>1. [Next]_vars
    BY GateStepsAreSteps
<1>2. \A p \in ProposalIds :
          Carried(p) => Carried(p)' /\ proposals'[p].hash = proposals[p].hash
    BY <1>1, MandateIsKept
<1>3. ASSUME UNCHANGED code
      PROVE  code' = InitialCode \/ \E p \in ProposalIds : proposals'[p].hash = code' /\ Carried(p)'
    BY <1>2, <1>3 DEF MandateInv
<1>4. ASSUME UNCHANGED consumed
      PROVE  consumed' \subseteq ProposalIds /\ \A p \in consumed' : Carried(p)'
    BY <1>2, <1>4 DEF MandateInv
<1>5. ASSUME NEW h \in Hashes, Upgrade(h) PROVE MandateInv'
  <2>1. PICK p \in ProposalIds : /\ proposals[p].status = "Executed" /\ proposals[p].hash = h
                                 /\ now >= ExecutableAt(p)
      BY <1>5 DEF Upgrade, CheckUpgradeApproval, UpgradeApproved
  <2>2. Carried(p)
      BY <2>1 DEF VerdictFollowsVotes, Carried, DelayElapsed
  <2>3. Carried(p)' /\ proposals'[p].hash = h
      BY <1>2, <2>1, <2>2
  <2> QED BY <1>4, <1>5, <2>3 DEF Upgrade, MandateInv
<1>6. ASSUME NEW p \in ProposalIds, ExecuteGovernanceProposal(p) PROVE MandateInv'
  <2>1. Carried(p)
      BY <1>6 DEF ExecuteGovernanceProposal, ExecuteProposal, VerdictFollowsVotes, Carried
  <2>2. code' = code /\ consumed' = consumed \cup {p}
      BY <1>6 DEF ExecuteGovernanceProposal
  <2>3. consumed' \subseteq ProposalIds /\ \A q \in consumed' : Carried(q)'
      BY <1>2, <2>1, <2>2 DEF MandateInv
  <2> QED BY <1>3, <2>2, <2>3 DEF MandateInv
<1>7. CASE UNCHANGED <<code, consumed>>
    BY <1>3, <1>4, <1>7 DEF MandateInv
<1> QED BY <1>5, <1>6, <1>7 DEF GateNext, gateVars, SetGovernanceContract,
                               SetMinGovernanceVersion, SetVersion

\* The code the escrow runs and all it consumed are carried by the votes.
THEOREM GovernedAlwaysHaveMandate == GateSpec => []GovernedHaveMandate
<1>1. GateInit => MandateInv
    BY DEF GateInit, MandateInv
<1>2. MandateInv => GovernedHaveMandate
    BY DEF MandateInv, GovernedHaveMandate, Carried
<1> QED BY <1>1, <1>2, MandateStep, GateKeepsGovernance, GovernanceTypes, VerdictsAreTrue, PTL
        DEF GateSpec

-----------------------------------------------------------------------------
(* Liveness *)

\* What the keeper is assumed to do for one proposal, and the ledger with time
KeeperCalls(p) ==
    /\ WF_<<vars, gateVars>>(FinalizeProposal(p) /\ UNCHANGED gateVars)
    /\ WF_<<vars, gateVars>>(SweepExpiredProposal(p) /\ UNCHANGED gateVars)
    /\ WF_<<vars, gateVars>>(ExecuteProposal(p) /\ UNCHANGED gateVars)
KeeperWorks == \A p \in ProposalIds : KeeperCalls(p)
TimePasses == WF_<<vars, gateVars>>(Tick /\ UNCHANGED gateVars)

\* That a ledger can close and the keeper's calls can be made when their own guards
\* hold.  This unfolds ENABLED, for which the prover has no rule, and says nothing
\* else; the theorems about liveness have it as a hypothesis.
CallsHaveEffect ==
    /\ now < MaxTime => ENABLED <<Tick /\ UNCHANGED gateVars>>_<<vars, gateVars>>
    /\ \A p \in ProposalIds :
          /\ proposals[p].status = "Active" /\ now > proposals[p].end =>
                ENABLED <<SweepExpiredProposal(p) /\ UNCHANGED gateVars>>_<<vars, gateVars>>
          /\ proposals[p].status = "Approved" /\ now >= ExecutableAt(p) =>
                ENABLED <<ExecuteProposal(p) /\ UNCHANGED gateVars>>_<<vars, gateVars>>

\* The times that are still to come, within the model's bound
TimeLeft == now + 1 .. MaxTime
StopsAt(last) == <>[](TimeLeft = last)
TimeStops == \E last : StopsAt(last)
TimeComes(t) == <>[](now >= t)

\* The model's time is long enough for the last proposal to be decided and executed.
TimeSuffices ==
    /\ LastProposal + VotingPeriod < MaxTime
    /\ LastProposal + VotingPeriod + ExecutionDelay <= MaxTime

\* Voting ends within the time of the last proposal.
VotingEnds == \A p \in ProposalIds :
    proposals[p].status # "None" => proposals[p].end <= LastProposal + VotingPeriod

Decided(p) == proposals[p].status \notin {"None", "Active"}

\* The ledger's time does not go back and only closing a ledger moves it.
LEMMA TimeAdvances ==
    ASSUME TypeOK, [Next]_vars
    PROVE  now' \in Nat /\ now \in Nat /\ now <= now'
<1>1. now \in Nat
    BY BoundsAssumption DEF TypeOK
<1> QED BY <1>1 DEF Next, vars, CreateProposal, CastVote, FinalizeProposal, ExecuteProposal,
            CancelProposal, SweepExpiredProposal, SetStatus, TransferTokens, Tick

\* Under the ledger's fairness every time that the model has comes and stays.
LEMMA EveryTimeComes ==
    ASSUME NEW t \in 0 .. MaxTime
    PROVE  FairGateSpec /\ []CallsHaveEffect /\ StopsShrinking(TimeLeft) => TimeComes(t)
<1> DEFINE Context == FairGateSpec /\ []CallsHaveEffect
           Comes == Context => TimeComes(t)
<1>1. TypeOK => IsFiniteSet(TimeLeft)
  <2> SUFFICES ASSUME TypeOK PROVE IsFiniteSet(TimeLeft)
      OBVIOUS
  <2> QED BY BoundsAssumption, FS_Interval DEF TypeOK, TimeLeft
<1>2. TypeOK /\ [Next]_vars => [TimeLeft' \subseteq TimeLeft]_TimeLeft
  <2> SUFFICES ASSUME TypeOK, [Next]_vars PROVE TimeLeft' \subseteq TimeLeft
      OBVIOUS
  <2> QED BY TimeAdvances, BoundsAssumption DEF TimeLeft
<1>3. FairGateSpec => GateSpec /\ TimePasses
    BY PTL DEF FairGateSpec, TimePasses
<1>4. FairGateSpec /\ StopsShrinking(TimeLeft) => TimeStops
    BY <1>1, <1>2, <1>3, GateKeepsGovernance, GovernanceTypes, PTL
       DEF StopsShrinking, TimeStops, StopsAt, Spec
<1>5. ASSUME NEW last PROVE StopsAt(last) => Comes
  <2>1. TypeOK /\ ~(now >= t) => now < MaxTime
      BY BoundsAssumption DEF TypeOK
  <2>2. CallsHaveEffect /\ now < MaxTime
            => ENABLED <<Tick /\ UNCHANGED gateVars>>_<<vars, gateVars>>
      BY DEF CallsHaveEffect
  <2>3. TypeOK /\ TimeLeft = last /\ <<Tick /\ UNCHANGED gateVars>>_<<vars, gateVars>>
            => ~((TimeLeft = last)')
      BY BoundsAssumption DEF TypeOK, Tick, TimeLeft
  <2>4. TypeOK /\ [Next]_vars /\ now >= t => (now >= t)'
    <3> SUFFICES ASSUME TypeOK, [Next]_vars, now >= t PROVE now' >= t
        OBVIOUS
    <3> QED BY TimeAdvances
  <2> QED BY <1>3, <2>1, <2>2, <2>3, <2>4, GateKeepsGovernance, GovernanceTypes, PTL
             DEF StopsAt, TimeComes, TimePasses, Spec
<1> HIDE DEF Comes
<1>6. TimeStops => Comes
    BY <1>5 DEF TimeStops
<1> QED BY <1>4, <1>6, PTL DEF Comes

\* No proposal is created after the last time for it, and its end never moves.
LEMMA VotingAlwaysEnds == Spec => []VotingEnds
<1>1. Init => VotingEnds
    BY DEF Init, VotingEnds, NoProposal
<1>2. TypeOK /\ VotingEnds /\ [Next]_vars => VotingEnds'
  <2> SUFFICES ASSUME TypeOK, VotingEnds, [Next]_vars,
                      NEW p \in ProposalIds, proposals'[p].status # "None"
               PROVE  proposals'[p].end <= LastProposal + VotingPeriod
      BY DEF VotingEnds
  <2>1. proposals \in [ProposalIds -> Proposal] /\ now \in Nat
      BY BoundsAssumption DEF TypeOK
  <2>2. ASSUME NEW v \in Voters, NEW h \in Hashes, CreateProposal(v, h)
        PROVE  proposals'[p].end <= LastProposal + VotingPeriod
    <3>1. CASE p = count
        BY <2>1, <2>2, <3>1, BoundsAssumption, ConfigAssumption DEF CreateProposal
    <3>2. CASE p # count
        BY <2>1, <2>2, <3>2 DEF CreateProposal, VotingEnds
    <3> QED BY <3>1, <3>2
  <2>3. ASSUME NEW q \in ProposalIds, NEW v \in Voters, NEW type \in VoteType,
               CastVote(q, v, type)
        PROVE  /\ proposals'[p].end = proposals[p].end
               /\ proposals[p].status # "None"
      BY <2>1, <2>3 DEF CastVote, VoteOpen, Proposal
  <2>4. ASSUME NEW q \in ProposalIds,
               \/ FinalizeProposal(q) \/ ExecuteProposal(q)
               \/ CancelProposal(q) \/ SweepExpiredProposal(q)
        PROVE  /\ proposals'[p].end = proposals[p].end
               /\ proposals[p].status # "None"
    <3>1. PICK status \in Status : SetStatus(q, status) /\ proposals[q].status # "None"
        BY <2>4 DEF FinalizeProposal, ExecuteProposal, CancelProposal, SweepExpiredProposal,
                    Sweepable, Ended, Status
    <3> QED BY <2>1, <3>1 DEF SetStatus, Proposal
  <2> QED BY <2>2, <2>3, <2>4 DEF VotingEnds, Next, vars, TransferTokens, Tick
<1> QED BY <1>1, <1>2, GovernanceTypes, PTL DEF Spec

\* A proposal that is open stays open or is decided, whatever is called, and one
\* that was approved stays approved or is executed.
LEMMA StatusesAdvance ==
    ASSUME TypeOK, VerdictFollowsVotes, [Next]_vars, NEW p \in ProposalIds
    PROVE  /\ proposals[p].status = "Active" =>
                  proposals'[p].status = "Active" \/ Decided(p)'
           /\ proposals[p].status = "Approved" =>
                  proposals'[p].status \in {"Approved", "Executed"}
<1>1. /\ proposals \in [ProposalIds -> Proposal]
      /\ count \in ProposalIds => proposals[count].status = "None"
    BY DEF TypeOK, ProposalIds
<1>2. ASSUME NEW v \in Voters, NEW h \in Hashes, CreateProposal(v, h)
      PROVE  proposals[p].status # "None" => proposals'[p] = proposals[p]
    BY <1>1, <1>2 DEF CreateProposal
<1>3. ASSUME NEW q \in ProposalIds, NEW v \in Voters, NEW type \in VoteType,
             CastVote(q, v, type)
      PROVE  proposals'[p].status = proposals[p].status
    BY <1>1, <1>3 DEF CastVote, Proposal
<1>4. ASSUME NEW q \in ProposalIds, NEW status \in Status \ {"None"}, SetStatus(q, status)
      PROVE  proposals'[p].status = IF p = q THEN status ELSE proposals[p].status
    BY <1>1, <1>4 DEF SetStatus, Proposal
<1>5. ASSUME NEW q \in ProposalIds, FinalizeProposal(q)
      PROVE  proposals'[p].status = IF p = q THEN IF Passes(q) THEN "Approved" ELSE "Rejected"
                                    ELSE proposals[p].status
    BY <1>4, <1>5 DEF FinalizeProposal, Status
<1>6. ASSUME NEW q \in ProposalIds, ExecuteProposal(q)
      PROVE  /\ proposals[q].status = "Approved"
             /\ proposals'[p].status = IF p = q THEN "Executed" ELSE proposals[p].status
    BY <1>4, <1>6 DEF ExecuteProposal, Status
<1>7. ASSUME NEW q \in ProposalIds, NEW status \in {"Cancelled", "Expired"},
             proposals[q].status = "Active", SetStatus(q, status)
      PROVE  proposals'[p].status = IF p = q THEN status ELSE proposals[p].status
    BY <1>4, <1>7 DEF Status
<1>8. ASSUME NEW q \in ProposalIds, CancelProposal(q) \/ SweepExpiredProposal(q)
      PROVE  \/ proposals'[p].status = proposals[p].status
             \/ proposals[p].status = "Active" /\ Decided(p)'
    BY <1>7, <1>8 DEF CancelProposal, SweepExpiredProposal, Sweepable, Decided
<1>9. ASSUME NEW q \in ProposalIds, FinalizeProposal(q)
      PROVE  /\ proposals'[p].status = proposals[p].status \/ Decided(p)'
             /\ proposals[p].status = "Approved" => proposals'[p].status = "Approved"
    BY <1>5, <1>9 DEF Decided, VerdictFollowsVotes
<1> QED BY <1>2, <1>3, <1>6, <1>8, <1>9 DEF Next, vars, TransferTokens, Tick, Decided

\* Under the keeper's fairness no proposal stays open for ever and every mandate is
\* executed, provided that calls whose guards hold can be made.
THEOREM EveryProposalIsAlwaysDecided ==
    ASSUME TimeSuffices
    PROVE  FairGateSpec /\ []CallsHaveEffect /\ StopsShrinking(TimeLeft)
               => EveryProposalIsDecided
<1> DEFINE Context == FairGateSpec /\ []CallsHaveEffect /\ StopsShrinking(TimeLeft)
           Active(p) == proposals[p].status = "Active"
           Approved(p) == proposals[p].status = "Approved"
           Executed(p) == proposals[p].status = "Executed"
           Close == LastProposal + VotingPeriod
<1>1. SUFFICES ASSUME NEW p \in ProposalIds
               PROVE  Context => (Active(p) ~> Decided(p)) /\ (Approved(p) ~> Executed(p))
    BY <1>1 DEF EveryProposalIsDecided, Decided
<1>2. FairGateSpec => GateSpec /\ KeeperWorks
    BY PTL DEF FairGateSpec, KeeperWorks, KeeperCalls
<1>3. KeeperWorks => KeeperCalls(p)
    BY DEF KeeperWorks
<1>4. /\ Close + 1 \in 0 .. MaxTime
      /\ Close + ExecutionDelay \in 0 .. MaxTime
    BY BoundsAssumption, ConfigAssumption DEF TimeSuffices
<1>5. Context => TimeComes(Close + 1)
    BY <1>4, EveryTimeComes
<1>6. Context => TimeComes(Close + ExecutionDelay)
    BY <1>4, EveryTimeComes
<1>7. TypeOK /\ VotingEnds /\ CallsHaveEffect /\ Active(p) /\ now >= Close + 1
          => ENABLED <<SweepExpiredProposal(p) /\ UNCHANGED gateVars>>_<<vars, gateVars>>
  <2> SUFFICES ASSUME TypeOK, VotingEnds, CallsHaveEffect, Active(p), now >= Close + 1
               PROVE  ENABLED <<SweepExpiredProposal(p) /\ UNCHANGED gateVars>>_<<vars, gateVars>>
      OBVIOUS
  <2>1. now > proposals[p].end
    <3>1. now \in Nat /\ proposals[p].end \in Nat
        BY BoundsAssumption DEF TypeOK, Proposal
    <3> QED BY <3>1, BoundsAssumption, ConfigAssumption DEF VotingEnds
  <2> QED BY <2>1 DEF CallsHaveEffect
<1>8. TypeOK /\ VotingEnds /\ CallsHaveEffect /\ Approved(p) /\ now >= Close + ExecutionDelay
          => ENABLED <<ExecuteProposal(p) /\ UNCHANGED gateVars>>_<<vars, gateVars>>
  <2> SUFFICES ASSUME TypeOK, VotingEnds, CallsHaveEffect, Approved(p),
                      now >= Close + ExecutionDelay
               PROVE  ENABLED <<ExecuteProposal(p) /\ UNCHANGED gateVars>>_<<vars, gateVars>>
      OBVIOUS
  <2>1. now >= ExecutableAt(p)
    <3>1. now \in Nat /\ proposals[p].end \in Nat
        BY BoundsAssumption DEF TypeOK, Proposal
    <3> QED BY <3>1, BoundsAssumption, ConfigAssumption DEF VotingEnds, ExecutableAt
  <2> QED BY <2>1 DEF CallsHaveEffect
<1>9. TypeOK /\ VerdictFollowsVotes /\ [Next]_vars /\ Active(p) => Active(p)' \/ Decided(p)'
    BY StatusesAdvance
<1>10. TypeOK /\ VerdictFollowsVotes /\ [Next]_vars /\ Approved(p) => Approved(p)' \/ Executed(p)'
    BY StatusesAdvance
<1>11. TypeOK /\ SweepExpiredProposal(p) => Decided(p)'
    BY DEF SweepExpiredProposal, SetStatus, TypeOK, Proposal, Decided
<1>12. TypeOK /\ ExecuteProposal(p) => Executed(p)'
    BY DEF ExecuteProposal, SetStatus, TypeOK, Proposal
<1>13. Context => (Active(p) ~> Decided(p))
    BY <1>2, <1>3, <1>5, <1>7, <1>9, <1>11, GateKeepsGovernance, GovernanceTypes,
       VerdictsAreTrue, VotingAlwaysEnds, PTL DEF KeeperCalls, TimeComes, Spec
<1>14. Context => (Approved(p) ~> Executed(p))
    BY <1>2, <1>3, <1>6, <1>8, <1>10, <1>12, GateKeepsGovernance, GovernanceTypes,
       VerdictsAreTrue, VotingAlwaysEnds, PTL DEF KeeperCalls, TimeComes, Spec
<1> QED BY <1>13, <1>14
=============================================================================
