---------------------------- MODULE BountyEscrow ----------------------------
(***************************************************************************)
(* The bounty escrow contract (bounty_escrow/contracts/escrow/src/lib.rs): *)
(* depositors lock tokens under a bounty id, the admin releases them to a  *)
(* contributor (at once, in parts, in batches, or as a claim with a        *)
(* window), and anybody may refund what is left once the deadline passed.  *)
(*                                                                         *)
(* A contract call is atomic: a call that returns an error or panics rolls *)
(* back every write, so each action is the successful execution of one     *)
(* entry point and the error returns are its guards.  The initial state is *)
(* the one the successful call of init leaves.                             *)
(*                                                                         *)
(* Who is paid is copied from the call's argument or from a stored record  *)
(* and decides no guard, so recipients are left out; the depositors' own   *)
(* token balances are the environment's.                                   *)
(***************************************************************************)
EXTENDS Sums

CONSTANTS
    Bounties,         \* the ids callers may choose
    Amounts,          \* the amounts callers may lock
    Ceiling,          \* stands for i128::MAX: no amount reaches it
    MaxTime,          \* bound on the ledger timestamp
    MaxGift,          \* bound on the tokens sent to the contract past its entry points
    MaxBatch,         \* MAX_BATCH_SIZE
    Signers,          \* addresses an admin may name as large-release signers
    MultisigConfigs,  \* configurations the admin may set
    AmountPolicies,   \* amount policies the admin may set
    ClaimWindows,     \* claim windows the admin may set
    PauseStates,      \* pause flags the admin moves between
    GovernanceStates  \* answers the linked governance contract may give

ASSUME BountiesAssumption == IsFiniteSet(Bounties)
ASSUME AmountsAssumption ==
    Ceiling \in Nat /\ Amounts \subseteq Nat /\ \A a \in Amounts : a < Ceiling
ASSUME BoundsAssumption ==
    MaxTime \in Nat /\ MaxGift \in Nat /\ MaxBatch \in Nat \ {0}
ASSUME SignersAssumption == IsFiniteSet(Signers)

PauseFlags == [global : BOOLEAN, lock : BOOLEAN, release : BOOLEAN, refund : BOOLEAN]
MultisigConfig == [threshold : Int, signers : SUBSET Signers, slots : Nat, required : Nat]
AmountPolicy == [min : Int, max : Int]

ASSUME ConfigAssumption ==
    /\ MultisigConfigs \subseteq MultisigConfig
    /\ AmountPolicies \subseteq AmountPolicy
    /\ ClaimWindows \subseteq Nat
    /\ PauseStates \subseteq PauseFlags
    /\ GovernanceStates \subseteq BOOLEAN

VARIABLES
    now,              \* env.ledger().timestamp()
    escrow,           \* DataKey::Escrow, refund_history kept as its sum
    claims,           \* DataKey::PendingClaim
    refundApproval,   \* DataKey::RefundApproval
    releaseApproval,  \* DataKey::ReleaseApproval: the signers who approved
    analytics,        \* AnalyticsKey::BountyMetrics
    count,            \* AggregateCounters: count_locked, count_released, count_refunded
    total,            \* AggregateCounters: total_locked, total_released, total_refunded
    held,             \* the contract's balance in the token contract
    multisig,         \* DataKey::MultisigConfig: its signers, the length of their list
    policy,           \* DataKey::AmountPolicy
    claimWindow,      \* DataKey::ClaimWindow
    paused,           \* DataKey::PauseFlags
    govOk             \* what check_governance_version answers now

books == <<escrow, analytics, count, total, held>>
config == <<multisig, policy, claimWindow, paused, govOk>>
vars == <<now, escrow, claims, refundApproval, releaseApproval, analytics,
          count, total, held, multisig, policy, claimWindow, paused, govOk>>

-----------------------------------------------------------------------------
(* State *)

Active == {"Locked", "PartiallyRefunded"}
Settled == {"Released", "Refunded"}

Escrow == [status : {"None"} \cup Active \cup Settled, amount : Nat,
           remaining : Nat, refunded : Nat, deadline : Nat]
Claim == [status : {"None", "Pending", "Claimed"}, amount : Nat, expires : Nat]
RefundApproval == [mode : {"None", "Full", "Partial"}, amount : Nat]
Analytics == [released : Nat, refunded : Nat, remaining : Int]

NoEscrow == [status |-> "None", amount |-> 0, remaining |-> 0, refunded |-> 0, deadline |-> 0]
NoClaim == [status |-> "None", amount |-> 0, expires |-> 0]
NoApproval == [mode |-> "None", amount |-> 0]
NoAnalytics == [released |-> 0, refunded |-> 0, remaining |-> 0]

Init ==
    /\ now = 0
    /\ escrow = [b \in Bounties |-> NoEscrow]
    /\ claims = [b \in Bounties |-> NoClaim]
    /\ refundApproval = [b \in Bounties |-> NoApproval]
    /\ releaseApproval = [b \in Bounties |-> {}]
    /\ analytics = [b \in Bounties |-> NoAnalytics]
    /\ count = [locked |-> 0, released |-> 0, refunded |-> 0]
    /\ total = [locked |-> 0, released |-> 0, refunded |-> 0]
    /\ held = 0
    /\ multisig = [threshold |-> Ceiling, signers |-> {}, slots |-> 0, required |-> 0]
    /\ policy = [min |-> 0, max |-> Ceiling]
    /\ claimWindow = 0
    /\ paused = [global |-> FALSE, lock |-> FALSE, release |-> FALSE, refund |-> FALSE]
    /\ govOk = TRUE

-----------------------------------------------------------------------------
(* Checks the entry points share *)

\* The definitions marked "Mutant" are faults a change to the code could bring
\* in; the specification does not use them.

\* Mutant: the emergency switch is forgotten
PausedGranularOnly(op) == paused[op]

\* check_paused: the emergency switch, then the flag of the operation
Paused(op) == paused.global \/ paused[op]

\* Mutant: the gate looks at what is left, so a split payment passes it
ReleaseApprovedOnRemaining(b) ==
    \/ escrow[b].remaining < multisig.threshold
    \/ /\ releaseApproval[b] # {}
       /\ Cardinality(releaseApproval[b]) >= multisig.required

\* check_release_approval, called with the amount first locked
ReleaseApproved(b) ==
    \/ escrow[b].amount < multisig.threshold
    \/ /\ releaseApproval[b] # {}
       /\ Cardinality(releaseApproval[b]) >= multisig.required

\* Mutant: an expired claim no longer protects the bounty
UndisputedOnceExpired(b) ==
    claims[b].status = "None" \/ (claims[b].status = "Pending" /\ now > claims[b].expires)

\* No PendingClaim entry: a claimed one stays, so it keeps counting as one
Undisputed(b) == claims[b].status = "None"

Releasable(b) == Undisputed(b) /\ escrow[b].status = "Locked"

\* load_refundable_escrow
Refundable(b) == Undisputed(b) /\ escrow[b].status \in Active

\* Mutant: the deadline itself is not yet late enough
SweepableAfterDeadline(b) ==
    Refundable(b) /\ now > escrow[b].deadline /\ escrow[b].remaining > 0

\* What sweep_expired_refunds asks of every bounty of the batch
Sweepable(b) == Refundable(b) /\ now >= escrow[b].deadline /\ escrow[b].remaining > 0

\* An amount policy admits the amounts between its bounds
PolicyAdmits(amount) == policy.min <= amount /\ amount <= policy.max

-----------------------------------------------------------------------------
(* Bookkeeping shared by the entry points *)

\* u32::saturating_sub
Less(n, k) == IF n >= k THEN n - k ELSE 0

\* The token contract takes payment out of the contract's balance, or panics
TransferOut(amount) ==
    /\ amount <= held
    /\ held' = held - amount

\* n bounties leave the locked bucket for the released one
CountReleased(n) ==
    count' = [locked |-> Less(count.locked, n),
              released |-> count.released + n, refunded |-> count.refunded]

\* Mutant: a batch takes one bounty out of the locked bucket
CountRefundedOnce(n) ==
    count' = [locked |-> Less(count.locked, 1),
              released |-> count.released, refunded |-> count.refunded + n]

\* n bounties leave the locked bucket for the refunded one
CountRefunded(n) ==
    count' = [locked |-> Less(count.locked, n),
              released |-> count.released, refunded |-> count.refunded + n]

TotalReleased(amount) ==
    total' = [locked |-> total.locked - amount,
              released |-> total.released + amount, refunded |-> total.refunded]

TotalRefunded(amount) ==
    total' = [locked |-> total.locked - amount,
              released |-> total.released, refunded |-> total.refunded + amount]

\* update_analytics_on_release
OnRelease(a, amount) ==
    [released |-> a.released + amount, refunded |-> a.refunded, remaining |-> a.remaining - amount]

\* Mutant: the refunded amount is overwritten, not accumulated
OnRefundLast(a, amount) ==
    [released |-> a.released, refunded |-> amount, remaining |-> a.remaining - amount]

\* update_analytics_on_refund
OnRefund(a, amount) ==
    [released |-> a.released, refunded |-> a.refunded + amount, remaining |-> a.remaining - amount]

-----------------------------------------------------------------------------
(* Locking *)

\* Stores a Locked escrow for every bounty of S and takes in the tokens
Lock(S, amount, deadline) ==
    /\ \A b \in S : /\ escrow[b].status = "None"
                    /\ deadline[b] > now
                    /\ PolicyAdmits(amount[b])
    /\ ~Paused("lock")
    /\ escrow' = [b \in Bounties |->
                    IF b \in S
                    THEN [status |-> "Locked", amount |-> amount[b],
                          remaining |-> amount[b], refunded |-> 0,
                          deadline |-> deadline[b]]
                    ELSE escrow[b]]
    /\ analytics' = [b \in Bounties |->
                       IF b \in S
                       THEN [released |-> 0, refunded |-> 0, remaining |-> amount[b]]
                       ELSE analytics[b]]
    /\ count' = [locked |-> count.locked + Cardinality(S),
                 released |-> count.released, refunded |-> count.refunded]
    /\ total' = [locked |-> total.locked + Sum(amount, S),
                 released |-> total.released, refunded |-> total.refunded]
    /\ held' = held + Sum(amount, S)
    /\ UNCHANGED <<now, claims, refundApproval, releaseApproval, config>>

\* lock_funds admits a zero amount, batch_lock_funds does not.  Depositors are
\* on the rate limit's whitelist, where check_rate_limit returns early.
LockFunds(b) ==
    \E amount \in [{b} -> Amounts], deadline \in [{b} -> 1 .. MaxTime] :
        Lock({b}, amount, deadline)

BatchLockFunds(S) ==
    \E amount \in [S -> Amounts \ {0}], deadline \in [S -> 1 .. MaxTime] :
        /\ Cardinality(S) \in 1 .. MaxBatch
        /\ Lock(S, amount, deadline)

-----------------------------------------------------------------------------
(* Releasing *)

\* Pays every bounty of S the amount first locked, whatever part of it an
\* earlier partial release has already paid
PayInFull(S) ==
    LET due == [b \in S |-> escrow[b].amount]
    IN  /\ TransferOut(Sum(due, S))
        /\ escrow' = [b \in Bounties |->
                        IF b \in S
                        THEN [escrow[b] EXCEPT !.status = "Released", !.remaining = 0]
                        ELSE escrow[b]]
        /\ analytics' = [b \in Bounties |->
                           IF b \in S THEN OnRelease(analytics[b], due[b])
                           ELSE analytics[b]]
        /\ CountReleased(Cardinality(S))
        /\ TotalReleased(Sum(due, S))

ReleaseFunds(b) ==
    /\ govOk
    /\ Releasable(b)
    /\ ReleaseApproved(b)
    /\ ~Paused("release")
    /\ PayInFull({b})
    /\ releaseApproval' = [releaseApproval EXCEPT ![b] = {}]
    /\ UNCHANGED <<now, claims, refundApproval, config>>

\* The batch asks no signer and leaves the approvals in place
BatchReleaseFunds(S) ==
    /\ govOk
    /\ Cardinality(S) \in 1 .. MaxBatch
    /\ ~Paused("release")
    /\ \A b \in S : Releasable(b)
    /\ PayInFull(S)
    /\ UNCHANGED <<now, claims, refundApproval, releaseApproval, config>>

PartialRelease(b) ==
    \E payout \in 1 .. escrow[b].remaining :
        LET left == escrow[b].remaining - payout
        IN  /\ govOk
            /\ ~Paused("release")
            /\ Releasable(b)
            /\ ReleaseApproved(b)
            /\ TransferOut(payout)
            /\ escrow' = [escrow EXCEPT
                            ![b].remaining = left,
                            ![b].status = IF left = 0 THEN "Released" ELSE @]
            /\ analytics' = [analytics EXCEPT ![b] = OnRelease(@, payout)]
            /\ TotalReleased(payout)
            /\ IF left = 0 THEN CountReleased(1) ELSE UNCHANGED count
            /\ releaseApproval' = [releaseApproval EXCEPT ![b] = {}]
            /\ UNCHANGED <<now, claims, refundApproval, config>>

\* A repeated approval of one signer changes nothing; the bounty may not exist yet
ApproveLargeRelease(b, s) ==
    /\ s \in multisig.signers \ releaseApproval[b]
    /\ releaseApproval' = [releaseApproval EXCEPT ![b] = @ \cup {s}]
    /\ UNCHANGED <<now, books, claims, refundApproval, config>>

-----------------------------------------------------------------------------
(* Claims: an authorised release the recipient must collect in time *)

\* Mutant: what a partial refund left may be claimed
ClaimableWhileActive(b) ==
    /\ escrow[b].status \in Active
    /\ ~(claims[b].status = "Pending" /\ now <= claims[b].expires)

\* A live claim is not overwritten; an expired one is
Claimable(b) ==
    /\ escrow[b].status = "Locked"
    /\ ~(claims[b].status = "Pending" /\ now <= claims[b].expires)

AuthorizeClaim(b) ==
    /\ Claimable(b)
    /\ claimWindow # 0
    /\ claims' = [claims EXCEPT ![b] = [status |-> "Pending",
                                        amount |-> escrow[b].remaining,
                                        expires |-> now + claimWindow]]
    /\ UNCHANGED <<now, books, refundApproval, releaseApproval, config>>

\* Trusts the claim record: it reads neither the escrow's status nor its
\* remaining amount, and leaves the analytics record alone
ClaimFunds(b) ==
    /\ claims[b].status = "Pending"
    /\ now <= claims[b].expires
    /\ ~Paused("release")
    /\ TransferOut(claims[b].amount)
    /\ escrow' = [escrow EXCEPT ![b].status = "Released", ![b].remaining = 0]
    /\ CountReleased(1)
    /\ TotalReleased(claims[b].amount)
    /\ claims' = [claims EXCEPT ![b].status = "Claimed"]
    /\ UNCHANGED <<now, analytics, refundApproval, releaseApproval, config>>

CancelPendingClaim(b) ==
    /\ claims[b].status = "Pending"
    /\ claims' = [claims EXCEPT ![b] = NoClaim]
    /\ UNCHANGED <<now, books, refundApproval, releaseApproval, config>>

-----------------------------------------------------------------------------
(* Refunding *)

ApproveRefund(b) ==
    \E amount \in 1 .. escrow[b].remaining, mode \in {"Full", "Partial"} :
        /\ escrow[b].status \in Active
        /\ refundApproval' = [refundApproval EXCEPT ![b] = [mode |-> mode, amount |-> amount]]
        /\ UNCHANGED <<now, books, claims, releaseApproval, config>>

\* Mutant: the approved amount is ignored
RefundAmountAll(b) == escrow[b].remaining

RefundAmount(b) ==
    IF refundApproval[b].mode = "None" THEN escrow[b].remaining
                                       ELSE refundApproval[b].amount

\* The refund closes the bounty: a Full approval does so whatever it leaves
RefundCloses(b) ==
    \/ refundApproval[b].mode # "Partial"
    \/ refundApproval[b].amount >= escrow[b].remaining

RefundAllowed(b) ==
    /\ govOk
    /\ Refundable(b)
    /\ now >= escrow[b].deadline \/ refundApproval[b].mode # "None"
    /\ RefundAmount(b) \in 1 .. escrow[b].remaining
    /\ ~Paused("refund")

Refund(b) ==
    LET amount == RefundAmount(b)
        closes == RefundCloses(b)
    IN  /\ RefundAllowed(b)
        /\ TransferOut(amount)
        /\ escrow' = [escrow EXCEPT
                        ![b].remaining = @ - amount,
                        ![b].refunded = @ + amount,
                        ![b].status = IF closes THEN "Refunded" ELSE "PartiallyRefunded"]
        /\ analytics' = [analytics EXCEPT ![b] = OnRefund(@, amount)]
        /\ TotalRefunded(amount)
        /\ IF closes THEN CountRefunded(1) ELSE UNCHANGED count
        /\ refundApproval' = [refundApproval EXCEPT ![b] = NoApproval]
        /\ UNCHANGED <<now, claims, releaseApproval, config>>

\* One bounty that may not be swept rejects the batch; approvals are not consulted
SweepExpiredRefunds(S) ==
    LET due == [b \in S |-> escrow[b].remaining]
    IN  /\ govOk
        /\ Cardinality(S) \in 1 .. MaxBatch
        /\ \A b \in S : Sweepable(b)
        /\ ~Paused("refund")
        /\ TransferOut(Sum(due, S))
        /\ escrow' = [b \in Bounties |->
                        IF b \in S
                        THEN [escrow[b] EXCEPT !.status = "Refunded", !.remaining = 0,
                                               !.refunded = @ + due[b]]
                        ELSE escrow[b]]
        /\ analytics' = [b \in Bounties |->
                           IF b \in S THEN OnRefund(analytics[b], due[b])
                           ELSE analytics[b]]
        /\ TotalRefunded(Sum(due, S))
        /\ CountRefunded(Cardinality(S))
        /\ UNCHANGED <<now, claims, refundApproval, releaseApproval, config>>

-----------------------------------------------------------------------------
(* The admin's configuration, the linked governance contract, the token    *)
(* contract, and time                                                      *)

\* The list may name a signer twice: its length bounds the quorum, its members approve
UpdateMultisigConfig ==
    /\ \E m \in MultisigConfigs : m.required <= m.slots /\ multisig' = m
    /\ UNCHANGED <<now, books, claims, refundApproval, releaseApproval,
                   policy, claimWindow, paused, govOk>>

SetAmountPolicy ==
    /\ \E p \in AmountPolicies : p.min <= p.max /\ policy' = p
    /\ UNCHANGED <<now, books, claims, refundApproval, releaseApproval,
                   multisig, claimWindow, paused, govOk>>

SetClaimWindow ==
    /\ claimWindow' \in ClaimWindows
    /\ UNCHANGED <<now, books, claims, refundApproval, releaseApproval,
                   multisig, policy, paused, govOk>>

\* set_paused moves any of the three granular flags
SetPaused ==
    /\ govOk
    /\ \E p \in PauseStates : p.global = paused.global /\ paused' = p
    /\ UNCHANGED <<now, books, claims, refundApproval, releaseApproval,
                   multisig, policy, claimWindow, govOk>>

SetEmergencyPause ==
    /\ govOk
    /\ \E v \in BOOLEAN : paused' = [paused EXCEPT !.global = v]
    /\ paused' \in PauseStates
    /\ UNCHANGED <<now, books, claims, refundApproval, releaseApproval,
                   multisig, policy, claimWindow, govOk>>

\* The version of the linked contract, or the minimum asked of it, changes
GovernanceChange ==
    /\ govOk' \in GovernanceStates
    /\ UNCHANGED <<now, books, claims, refundApproval, releaseApproval,
                   multisig, policy, claimWindow, paused>>

\* Anybody may send tokens to the contract without calling it: what it holds
\* then exceeds what it counts as locked
Gift ==
    /\ held < total.locked + MaxGift
    /\ held' = held + 1
    /\ UNCHANGED <<now, escrow, analytics, count, total, claims, refundApproval,
                   releaseApproval, config>>

Tick ==
    /\ now < MaxTime
    /\ now' = now + 1
    /\ UNCHANGED <<books, claims, refundApproval, releaseApproval, config>>

Configure ==
    \/ UpdateMultisigConfig
    \/ SetAmountPolicy
    \/ SetClaimWindow
    \/ SetPaused
    \/ SetEmergencyPause
    \/ GovernanceChange

Next ==
    \/ \E b \in Bounties : \/ LockFunds(b)
                           \/ ReleaseFunds(b)
                           \/ PartialRelease(b)
                           \/ AuthorizeClaim(b)
                           \/ ClaimFunds(b)
                           \/ CancelPendingClaim(b)
                           \/ ApproveRefund(b)
                           \/ Refund(b)
                           \/ \E s \in Signers : ApproveLargeRelease(b, s)
    \/ \E S \in SUBSET Bounties : \/ BatchLockFunds(S)
                                  \/ BatchReleaseFunds(S)
                                  \/ SweepExpiredRefunds(S)
    \/ Configure
    \/ Gift
    \/ Tick

Spec == Init /\ [][Next]_vars

\* Ledgers keep closing, and a keeper keeps sweeping every expired bounty
FairSpec ==
    /\ Spec
    /\ WF_vars(Tick)
    /\ \A b \in Bounties : WF_vars(SweepExpiredRefunds({b}))

-----------------------------------------------------------------------------
(* Properties *)

\* Every variable has its type.  held and total are not here: BalanceIsTracked
\* and LockedIsExplained say what they are.
TypeOK ==
    /\ now \in 0 .. MaxTime
    /\ escrow \in [Bounties -> Escrow]
    /\ claims \in [Bounties -> Claim]
    /\ refundApproval \in [Bounties -> RefundApproval]
    /\ releaseApproval \in [Bounties -> SUBSET Signers]
    /\ analytics \in [Bounties -> Analytics]
    /\ count \in [locked : Nat, released : Nat, refunded : Nat]
    /\ multisig \in MultisigConfig
    /\ policy \in AmountPolicy
    /\ claimWindow \in Nat
    /\ paused \in PauseFlags
    /\ govOk \in BOOLEAN

\* What claim(), which keeps no analytics, has paid out for the bounty
Claimed(b) == IF claims[b].status = "Claimed" THEN claims[b].amount ELSE 0

\* Everything the contract has paid out for the bounty
PaidOut(b) == analytics[b].released + analytics[b].refunded + Claimed(b)

InBucket(states) == Cardinality({b \in Bounties : escrow[b].status \in states})

\* The incremental counters count what get_aggregate_stats_full_scan would
\* find, through single calls, batches, claims and partial refunds; so the
\* saturating subtraction of count_locked never hides a step.
CountsMatchScan ==
    /\ count.locked = InBucket(Active)
    /\ count.released = InBucket({"Released"})
    /\ count.refunded = InBucket({"Refunded"})

\* The contract never holds fewer tokens than it counts as locked, through every
\* call, also where the count leaves the sum of the remaining amounts.  It may
\* hold more, sent to it past its entry points, and once an overpayment was made
\* out of those tokens the count is below zero.
BalanceIsTracked == held \in Nat /\ total.locked <= held

\* total_locked is what was locked less what the analytics records and the
\* claim records say was paid, over all bounties together.
LockedIsExplained ==
    total.locked = Sum([b \in Bounties |-> escrow[b].amount - PaidOut(b)], Bounties)

\* A bounty's remaining amount is what was locked less what was paid, until it
\* is released; a released one paid at least its amount, and at most the amount
\* again on top of its partial releases.
BooksBalance ==
    \A b \in Bounties :
        IF escrow[b].status = "Released"
        THEN PaidOut(b) \in escrow[b].amount .. 2 * escrow[b].amount
        ELSE escrow[b].remaining = escrow[b].amount - PaidOut(b)

\* claim() reads nothing of the escrow, so its record must stay true: while a
\* claim is pending the escrow is Locked and still owes what the record says,
\* and once claimed the escrow is Released.
ClaimsAreBacked ==
    \A b \in Bounties :
        /\ claims[b].status = "Pending" =>
             escrow[b].status = "Locked" /\ claims[b].amount = escrow[b].remaining
        /\ claims[b].status = "Claimed" => escrow[b].status = "Released"

\* A bounty is either paid to contributors or refunded: the first refund,
\* partial or not, closes every way of releasing the rest.
NoReleaseAfterRefund ==
    \A b \in Bounties :
        /\ escrow[b].status = "Released" => escrow[b].refunded = 0
        /\ escrow[b].status = "PartiallyRefunded" => escrow[b].refunded > 0
        /\ escrow[b].refunded = analytics[b].refunded

\* Every call takes every bounty by one step of the lifecycle its depositor and
\* contributor were promised: no payment after a refund, none past a claim,
\* nothing after settlement, and what is paid never less than what was owed.
Accounts ==
    [b \in Bounties |-> [status |-> escrow[b].status,
                        owed |-> escrow[b].remaining,
                        paid |-> analytics[b].released + Claimed(b),
                        refunded |-> escrow[b].refunded,
                        claim |-> claims[b].status]]

Lifecycle == INSTANCE BountyLifecycle WITH accounts <- Accounts

KeepsLifecycle == Lifecycle!Spec

\* A settled bounty is never paid, refunded, claimed or reopened again,
\* whatever approvals and claims were left behind when it settled.
SettledIsFinal ==
    [][\A b \in Bounties : escrow[b].status \in Settled =>
          escrow'[b] = escrow[b] /\ PaidOut(b)' = PaidOut(b)]_vars

\* While a claim is pending nothing but the claim itself moves the bounty's
\* money: no release, batch, partial release, refund or sweep.
ClaimFreezesBounty ==
    [][\A b \in Bounties :
          claims[b].status = "Pending" /\ escrow'[b] # escrow[b] =>
              claims'[b].status = "Claimed"]_vars

\* What stops payments stops them at every entry point, batches and claims
\* included: under the emergency switch no token leaves and no total moves,
\* lock_paused stops deposits, release_paused payouts and refund_paused refunds.  While the
\* governance contract's version is too low, the only tokens that leave are
\* those of claims authorised before, and no pause flag moves.
ControlsHold ==
    [][/\ paused.global => held' >= held /\ total' = total
       /\ paused.lock => total'.locked <= total.locked
       /\ paused.release => total'.released = total.released
       /\ paused.refund => total'.refunded = total.refunded
       /\ ~govOk =>
             /\ total'.refunded = total.refunded
             /\ total'.released # total.released =>
                   \E b \in Bounties : claims[b].status = "Pending" /\ claims'[b].status = "Claimed"
             /\ paused' = paused]_vars

\* A large bounty cannot be split past the signers: each part paid out needs a
\* quorum of its own, because the payment uses the approvals up.
PartsNeedQuorum ==
    [][\A b \in Bounties :
          /\ escrow[b].status = "Locked" /\ escrow[b].amount >= multisig.threshold
          /\ escrow'[b].status = "Locked" /\ escrow'[b].remaining < escrow[b].remaining
          => /\ Cardinality(releaseApproval[b]) >= multisig.required
             /\ releaseApproval[b] # {}
             /\ releaseApproval'[b] = {}]_vars

\* A refund before the deadline follows an approval and pays what it says.
EarlyRefundsAreApproved ==
    [][\A b \in Bounties :
          escrow'[b].refunded > escrow[b].refunded /\ now < escrow[b].deadline =>
              /\ refundApproval[b].mode # "None"
              /\ escrow'[b].refunded - escrow[b].refunded = refundApproval[b].amount]_vars

\* An expired bounty that owes something is settled in the end, unless it is
\* under a claim, refunds are held up, or the balance cannot cover it.
Expired(b) ==
    escrow[b].status \in Active /\ escrow[b].remaining > 0 /\ now >= escrow[b].deadline

ExpiredIsSettled ==
    \A b \in Bounties :
        Expired(b) ~> \/ escrow[b].status \in Settled
                      \/ ~Undisputed(b)
                      \/ Paused("refund") \/ ~govOk
                      \/ held < escrow[b].remaining
=============================================================================
