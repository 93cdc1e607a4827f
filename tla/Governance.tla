------------------------------ MODULE Governance ------------------------------
(***************************************************************************)
(* The governance contract (grainlify-core/src/governance.rs): an address  *)
(* with enough stake proposes the hash of an upgrade, every address votes  *)
(* at most once, and after the voting period anybody may finalize the      *)
(* verdict, execute an approved proposal once its delay has passed, or     *)
(* flag a proposal nobody finalized as expired.  The escrow contracts ask  *)
(* whether a hash was approved, and consume proposals by executing them.   *)
(*                                                                         *)
(* init_governance runs once, so its configuration is a set of constants   *)
(* and its checks are the assumptions on them; Init is the state it        *)
(* leaves.  A call that returns an error changes nothing, so an error is a *)
(* guard.  total_votes, created_at and the description decide no guard.    *)
(***************************************************************************)
EXTENDS Sums

CONSTANTS
    Voters,           \* addresses that propose and vote
    Hashes,           \* WASM hashes that may be proposed
    MaxProposals,     \* bound on the number of proposals
    LastProposal,     \* bound on the time of the last proposal
    MaxTime,          \* bound on the ledger timestamp
    MaxInt,           \* stands for i128::MAX
    InitialBalances,  \* governance tokens held at the start
    TokenWeighted,    \* voting_scheme: FALSE is OnePersonOneVote
    TotalPower,       \* total_voting_power of the scheme
    VotingPeriod,     \* voting_period
    ExecutionDelay,   \* execution_delay
    Quorum,           \* quorum_percentage, in basis points
    Threshold,        \* approval_threshold, in basis points
    MinStake          \* min_proposal_stake

ASSUME VotersAssumption ==
    /\ IsFiniteSet(Voters)
    /\ InitialBalances \in [Voters -> Nat]
ASSUME BoundsAssumption ==
    MaxProposals \in Nat /\ LastProposal \in Nat /\ MaxTime \in Nat /\ MaxInt \in Nat
ASSUME ConfigAssumption ==
    /\ TokenWeighted \in BOOLEAN
    /\ VotingPeriod \in Nat /\ ExecutionDelay \in Nat
    /\ Quorum \in 0 .. 10000 /\ Threshold \in 5000 .. 10000
    /\ MinStake \in Nat /\ TotalPower \in Nat \ {0}

ProposalIds == 0 .. MaxProposals - 1

VARIABLES
    now,        \* env.ledger().timestamp()
    proposals,  \* PROPOSALS
    count,      \* PROPOSAL_COUNT
    votes,      \* VOTES
    balances    \* balances of governance_token

vars == <<now, proposals, count, votes, balances>>

-----------------------------------------------------------------------------
(* State *)

Status == {"None", "Active", "Approved", "Rejected", "Executed", "Expired", "Cancelled"}
VoteType == {"For", "Against", "Abstain"}
Tallies == [VoteType -> Nat]

\* An absent vote has power 0
Vote == [type : VoteType, power : Nat]
NoVote == [type |-> "Abstain", power |-> 0]

\* An absent proposal has status "None" and the proposer and hash "nobody" and "nothing"
Proposal == [status : Status, proposer : Voters \cup {"nobody"},
             hash : Hashes \cup {"nothing"}, end : Nat, tally : Tallies]
NoTally == [t \in VoteType |-> 0]
NoProposal == [status |-> "None", proposer |-> "nobody", hash |-> "nothing", end |-> 0,
               tally |-> NoTally]

Init ==
    /\ now = 0
    /\ proposals = [p \in ProposalIds |-> NoProposal]
    /\ count = 0
    /\ votes = [p \in ProposalIds |-> [v \in Voters |-> NoVote]]
    /\ balances = InitialBalances

-----------------------------------------------------------------------------
(* Voting power and the verdict *)

\* derive_voting_power: the balance at the time of the vote
Power(v) == IF TokenWeighted THEN balances[v] ELSE 1

For(p) == proposals[p].tally["For"]
Against(p) == proposals[p].tally["Against"]
Cast(p) == For(p) + Against(p) + proposals[p].tally["Abstain"]

\* The checked arithmetic of finalize_proposal does not overflow.  Below the
\* quorum it returns before it multiplies the votes in favour.
Countable(p) == Cast(p) * 10000 <= MaxInt

MeetsQuorum(p) == (Cast(p) * 10000) \div TotalPower >= Quorum

\* Quorum over all votes, approval over the votes for and against
Passes(p) ==
    /\ MeetsQuorum(p)
    /\ For(p) + Against(p) > 0
    /\ (For(p) * 10000) \div (For(p) + Against(p)) >= Threshold

\* The code's sum saturates at the end of u64, which the clock does not come near
ExecutableAt(p) == proposals[p].end + ExecutionDelay

\* Mutant: the status of the proposal is not looked at
UpgradeApprovedUnexecuted(h) ==
    \E p \in ProposalIds :
        proposals[p].status # "None" /\ proposals[p].hash = h /\ now >= ExecutableAt(p)

\* is_upgrade_approved
UpgradeApproved(h) ==
    \E p \in ProposalIds :
        proposals[p].status = "Executed" /\ proposals[p].hash = h /\ now >= ExecutableAt(p)

-----------------------------------------------------------------------------
(* Calls *)

SetStatus(p, status) ==
    /\ proposals' = [proposals EXCEPT ![p].status = status]
    /\ UNCHANGED <<now, count, votes, balances>>

CreateProposal(v, h) ==
    /\ count < MaxProposals
    /\ now <= LastProposal
    /\ balances[v] >= MinStake
    /\ proposals' = [proposals EXCEPT ![count] =
                        [status |-> "Active", proposer |-> v, hash |-> h,
                         end |-> now + VotingPeriod, tally |-> NoTally]]
    /\ count' = count + 1
    /\ UNCHANGED <<now, votes, balances>>

\* Mutant: who has voted may vote again
VoteOpenToRepeats(p, v) ==
    /\ proposals[p].status = "Active"
    /\ now <= proposals[p].end
    /\ Power(v) > 0

\* A voter who has a vote has one with power
VoteOpen(p, v) ==
    /\ proposals[p].status = "Active"
    /\ now <= proposals[p].end
    /\ votes[p][v].power = 0
    /\ Power(v) > 0

CastVote(p, v, type) ==
    /\ VoteOpen(p, v)
    /\ proposals[p].tally[type] + Power(v) <= MaxInt
    /\ proposals' = [proposals EXCEPT ![p].tally[type] = @ + Power(v)]
    /\ votes' = [votes EXCEPT ![p][v] = [type |-> type, power |-> Power(v)]]
    /\ UNCHANGED <<now, count, balances>>

Ended(p) == proposals[p].status # "None" /\ now > proposals[p].end

\* Looks at no status: any proposal whose voting ended is finalized, again
\* and again
FinalizeProposal(p) ==
    /\ Ended(p)
    /\ Countable(p)
    /\ SetStatus(p, IF Passes(p) THEN "Approved" ELSE "Rejected")

DelayElapsed(p) == now >= ExecutableAt(p)

ExecuteProposal(p) ==
    /\ proposals[p].status = "Approved"
    /\ DelayElapsed(p)
    /\ SetStatus(p, "Executed")

\* By the proposer
CancelProposal(p) ==
    /\ proposals[p].status = "Active"
    /\ SetStatus(p, "Cancelled")

\* Mutant: whatever was not executed is flagged
SweepableUntilExecuted(p) == proposals[p].status # "Executed" /\ Ended(p)

Sweepable(p) == proposals[p].status = "Active" /\ Ended(p)

SweepExpiredProposal(p) == Sweepable(p) /\ SetStatus(p, "Expired")

-----------------------------------------------------------------------------
(* The token contract and time *)

TransferTokens(from, to) ==
    /\ \E amount \in 1 .. balances[from] :
         balances' = [balances EXCEPT ![from] = @ - amount, ![to] = @ + amount]
    /\ UNCHANGED <<now, proposals, count, votes>>

Tick ==
    /\ now < MaxTime
    /\ now' = now + 1
    /\ UNCHANGED <<proposals, count, votes, balances>>

Next ==
    \/ \E v \in Voters, h \in Hashes : CreateProposal(v, h)
    \/ \E p \in ProposalIds :
         \/ \E v \in Voters, type \in VoteType : CastVote(p, v, type)
         \/ FinalizeProposal(p)
         \/ ExecuteProposal(p)
         \/ CancelProposal(p)
         \/ SweepExpiredProposal(p)
    \/ \E from \in Voters : \E to \in Voters \ {from} : TransferTokens(from, to)
    \/ Tick

Spec == Init /\ [][Next]_vars

\* Ledgers keep closing, and a keeper keeps calling what anybody may call
FairSpec ==
    /\ Spec
    /\ WF_vars(Tick)
    /\ \A p \in ProposalIds : /\ WF_vars(FinalizeProposal(p))
                              /\ WF_vars(SweepExpiredProposal(p))
                              /\ WF_vars(ExecuteProposal(p))

-----------------------------------------------------------------------------
(* Properties *)

\* Every variable has its type, and the ids in use are those below the counter.
TypeOK ==
    /\ now \in 0 .. MaxTime
    /\ proposals \in [ProposalIds -> Proposal]
    /\ count \in 0 .. MaxProposals
    /\ votes \in [ProposalIds -> [Voters -> Vote]]
    /\ balances \in [Voters -> Nat]
    /\ \A p \in ProposalIds : p < count <=> proposals[p].status # "None"

\* The recorded weights of the votes of one type
CastFor(p, t) == [v \in Voters |-> IF votes[p][v].type = t THEN votes[p][v].power ELSE 0]

\* The tallies are the weights of the recorded votes, one of each address, at
\* the weight it had when it voted and whatever it has moved away since.
TalliesMatchVotes ==
    \A p \in ProposalIds, t \in VoteType : proposals[p].tally[t] = Sum(CastFor(p, t), Voters)

\* A verdict is what the recorded votes say once voting is over, however often
\* finalize_proposal was called and in whatever state the proposal was, and an
\* execution has waited for its delay.
VerdictFollowsVotes ==
    \A p \in ProposalIds :
        /\ proposals[p].status \in {"Approved", "Executed"} => Ended(p) /\ Passes(p)
        /\ proposals[p].status = "Rejected" => Ended(p) /\ ~Passes(p)
        /\ proposals[p].status = "Executed" => now >= ExecutableAt(p)

\* finalize_proposal looks at no status, and still no call turns a mandate
\* into a rejection or a rejection into a mandate.
VerdictIsStable ==
    [][\A p \in ProposalIds :
          /\ proposals[p].status \in {"Approved", "Executed"} =>
                proposals'[p].status \in {"Approved", "Executed"}
          /\ proposals[p].status = "Rejected" => proposals'[p].status = "Rejected"]_vars

\* The statuses of a proposal are the stages of a poll, in whatever order and however
\* often proposals are finalized, cancelled, swept and executed: nobody votes twice or
\* after the end, and what the ballots decide, by exact parts of their recorded weights
\* although the code keeps tallies and divides integers, is never decided otherwise.
StageOf(status) ==
    CASE status = "None" -> "None"
      [] status = "Active" -> "Open"
      [] status \in {"Cancelled", "Expired"} -> "Shelved"
      [] status \in {"Approved", "Executed"} -> "Carried"
      [] status = "Rejected" -> "Lost"

Clock(p) == IF Ended(p) THEN "Over" ELSE "Running"

Polled ==
    [p \in ProposalIds |-> [stage |-> StageOf(proposals[p].status),
                            clock |-> Clock(p),
                            ballots |-> votes[p]]]

Ballots == INSTANCE Poll WITH Polls <- ProposalIds, Weighted <- TokenWeighted,
                              Everything <- TotalPower, polls <- Polled

KeepsPoll == Ballots!Spec

\* One address has one vote: no proposal collects more votes than there are
\* addresses, however tokens move between them.
OnePersonOneVote ==
    ~TokenWeighted => \A p \in ProposalIds : Cast(p) <= Cardinality(Voters)

\* With a keeper no proposal stays open for ever, also one whose votes
\* overflow the arithmetic of finalize_proposal, and a mandate is executed.
EveryProposalIsDecided ==
    \A p \in ProposalIds :
        /\ (proposals[p].status = "Active") ~> (proposals[p].status \notin {"None", "Active"})
        /\ (proposals[p].status = "Approved") ~> (proposals[p].status = "Executed")
=============================================================================
