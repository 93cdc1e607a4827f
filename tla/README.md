# Grainlify contracts: models and proofs

TLA+ models of the Soroban contracts in this repository, TLC configurations
that check them on small instances, and TLAPS proofs that hold for every value
of the constants. Paths are relative to the repository.

## 1. The system

| Component | State it keeps | Operations | Who calls |
|---|---|---|---|
| **Bounty escrow** `bounty_escrow/contracts/escrow/src/lib.rs` | one `Escrow` per bounty, pending claims, refund and release approvals, aggregate counters, per-bounty analytics, pause flags, large-release signers, amount policy, claim window; tokens in a Stellar asset contract | lock, release, partial release, authorize/claim/cancel, approve refund, refund, sweep, and batches of lock and release | depositors, the admin, signers, recipients, anybody (refund, sweep) |
| **Program escrow** `program-escrow/src/lib.rs` | one prize pool with a remaining balance, payout history, release schedules, disputes, pause flags, admin and pending admin | lock, single and batch payout, schedule, trigger/manual/automatic release, open/resolve/cancel dispute, upgrade, lists of schedules, propose/accept admin | payout key, admin, recipients |
| **Circuit breaker** `*/error_recovery.rs` | Closed/Open/HalfOpen, failure and success counts, error log | check, record failure/success, retry, reset, configure | the escrows, the breaker admin |
| **Queries and views** both `lib.rs` | `EscrowIndex`, `DepositorIndex`, the list of schedules | filtered and paginated lists, scans that verify the counters, refund eligibility | clients, the admin |
| **Rate limiter** `anti_abuse` in both `lib.rs` | per-address window counter and last operation | check, configure, whitelist | every lock |
| **Governance** `grainlify-core/src/governance.rs` | proposals, votes, a configuration fixed at initialisation | create, vote, finalize, execute, cancel, sweep | token holders or voters, anybody |
| **Multisig** `grainlify-core/src/multisig.rs` | signers, threshold, proposals with snapshots, execution nonce | propose, approve, execute, add/remove/rotate signers | signers |
| **Core: upgrades** `grainlify-core/src/lib.rs` | upgrade mode, scheduled upgrade, version, migration record | init (three exclusive ways), schedule, upgrade, set version, migrate | admin, or one of the two above |
| **Governance gates** `*/governance_integration.rs` | address and minimum version of the linked core contract | check version, execute proposal | the escrows |
| SDK, scripts, monitoring, events, soroban prototypes | none of the protocol's | | |

**How they interact.** The escrows call the token contract (transfer in and
out) and the linked core contract (version, proposal status) synchronously,
within one call. The contracts share nothing else. A call is atomic: an error
or a panic rolls back every write, its own and those of the contracts it
called. So concurrency is the order in which the calls of many parties arrive,
and the passing of ledger time between them.

**What is hard.** Long sequences of legal calls (partial releases, refunds in
parts, claims that expire, approvals that outlive what they approved), several
copies of the same fact (the token balance, `total_locked`, the sum of the
remaining amounts, the analytics; counters against a scan), records that are
trusted later without being re-read (`claim` pays what its record says), batch
calls that move many records and shared counters at once, controls that nine
entry points consult in different places, and boundaries of ledger time.

**What makes each component correct.**
* Bounty escrow: each bounty follows its lifecycle; books, counters and token
  balance agree; approvals and claims are used once and only while true; the
  controls hold everywhere; an expired bounty is settled in the end.
* Program escrow: the pool pays each schedule once and never more than it
  holds; disputes and pauses stop what they cover.
* Circuit breaker: never closed with a full count of failures but after a new
  configuration, closes only by resets and successes, and no retry gets past it. Rate
  limiter: bursts are bounded, operations are a cooldown apart, nobody is locked out.
* Queries: a client that pages through a list misses and repeats nothing it should not;
  both indexes list the same; the views and the calls they announce agree.
* Governance gates: what an escrow becomes or consumes is carried by the votes.
* Governance: a verdict follows from the votes of distinct voters and never
  flips; execution waits for its delay. Multisig: every execution has its quorum
  of the signers of its time and a nonce of its own; the threshold stays
  reachable. Upgrades: one authority; nothing runs before its timelock.

## 2. Modules

| Module | What it is |
|---|---|
| `BountyLifecycle` | abstract: what one bounty promises its depositor and contributor |
| `PrizePool` | abstract: what a program promises its sponsor and those it is to pay |
| `Poll` | abstract: what a vote promises those who take part in it |
| `UpgradeLog` | abstract: what a multisig promises, whoever its signers are at the moment |
| `BountyEscrow` | the contract: one action per entry point, its properties, the refinement mapping |
| `EscrowViews` | the scans, volumes and refund eligibility of the same contract, related to its counters and calls |
| `EscrowQueries` | the filtered and paginated queries, their indexes, and a client that walks a list; its bounties follow `BountyLifecycle` |
| `Paging`, `Lists` | the loop that all paginated queries of both escrows run, and the filtered lists and slices it returns |
| `Sums` | a sum over a finite set |
| `BountyEscrowDocs`, `ProgramEscrowDocs`, `GovernanceDocs`, `GovernanceGateDocs` | what documents and tests say and the code does not do |
| `CircuitBreaker` | the breaker's three states; `ProgramEscrow` extends it, `ErrorRecovery` implements it |
| `ErrorRecovery` | the breaker as the library has it: counts, thresholds, log, and `execute_with_retry` |
| `RateLimit` | `check_rate_limit`, the whitelist, the fund caps and their administration |
| `ProgramEscrow` | the pool, payouts, schedules, disputes and controls |
| `ProgramViews` | its statistics and its lists of schedules |
| `Governance` | proposals, votes, verdicts, the governance token underneath |
| `GovernanceGate` | an escrow linked to that contract: version, upgrade, consumption of proposals (extends `Governance`) |
| `MultiSig` | upgrade proposals, approvals, executions, signer rotation |
| `CoreUpgrade` | initialisation, the admin's upgrades, versions, migrations; composed with `MultiSig` (`M == INSTANCE MultiSig`) |
| `MC*` + `.cfg` | instances for TLC, one configuration per run |
| `Descent` | the formula by which liveness proofs descend (section 4) |
| `DataProofs` | facts about sums, filtered lists and slices, and the induction they rest on; the other proofs cite them |
| `BountyEscrowProofs` | types, what a call does to one bounty, safety, the lifecycle, sums, controls, counters, views |
| `EscrowQueryProofs` | the indexes, and what a walk sees |
| `GuardProofs` | the breaker with its retry, the breaker's refinement, the rate limiter and its bursts |
| `GovernanceProofs` | verdicts, tallies, the refinement of `Poll`, the mandate of what an escrow becomes, the keeper |
| `MultiSigProofs` | type correctness, reachability, quorum, nonces, snapshots, the refinement of `UpgradeLog`, willing signers |
| `ProgramProofs` | schedules recorded and paid once, the pool and its histories, the refinement of `PrizePool`, the views, the controls, the trigger |
| `CoreUpgradeProofs` | one authority, the review window, migrations, what is scheduled |

How they compose:

    BountyLifecycle <- implemented by - BountyEscrow <- EscrowViews <- BountyEscrowDocs
           ^
           `- extended by EscrowQueries -> Paging <- ProgramViews -> ProgramEscrow -> CircuitBreaker
                                                                                         ^
    GovernanceGate -> Governance        CoreUpgrade -> MultiSig     ErrorRecovery -------' implements
                          |                               |
                          ' implements Poll               ' implements UpgradeLog

    ProgramEscrow - implements -> PrizePool

### From the code to `BountyEscrow`

* `escrow[b]` is `DataKey::Escrow(b)`; `refund_history` is kept as the sum of its
  amounts, because nothing reads more of it. Depositor, contributor and recipient
  are copied and decide no guard, so they are left out here; `EscrowQueries` has the
  depositor.
* `claims`, `refundApproval`, `releaseApproval`, `analytics` are the records under
  the keys of those names; a missing record is the value with status or mode
  `"None"` (an empty set of approvals: a stored record holds at least one).
* `count` and `total` are `AggregateCounters`. `held` is the contract's balance
  in the token contract. `count_locked` is a `u32` that subtracts with saturation
  (`Less`); `total_locked` is an `i128`, where saturation needs an amount near
  `i128::MIN`.
* Each action is the successful execution of an entry point; its error returns
  are its guards, in conjunction, since a failed call changes nothing. A failed
  token transfer is a failed guard (`TransferOut`).
* `Gift` is a transfer of tokens straight to the contract's address, which the contract
  cannot refuse and does not count: `held` may exceed `total_locked`, and only `>=` is
  claimed of the two. A bounty that is paid twice may take such tokens; the subtraction
  then leaves `total_locked` below zero, as an `i128` allows.
* A large-release configuration keeps the set of its signers and the length of its list
  (`slots`): the list may name a signer twice, and the required number is compared with
  its length.
* `govOk` is the answer of `check_governance_version`; where it comes from is in
  `GovernanceGate`. `Tick` is the ledger closing at a later timestamp.
* The circuit breaker and the rate limiter are not in this module. `check_and_allow` is
  asked, but no entry point of this contract records a failure, so it opens only if the
  library is told so; the limiter only ever refuses. Both are modelled by themselves.

### From the contracts to what they promise

Each abstract specification is written from the side of those who rely on the contract and
knows none of its entry points. The refinement mappings stand beside the properties:

* `Lifecycle` in `BountyEscrow`: one bounty at a time, its status, payments and claim.
* `Pool` in `ProgramEscrow`: schedules are promises; deposits, gifts, awards and promises
  kept are all that moves money. Three entry points and their batches become one action
  that keeps a set of open promises and takes exactly their sum.
* `Ballots` in `Governance`: `Executed` is a poll that carried, `Cancelled` and `Expired` one
  that is shelved, which its ballots may still decide (section 5). The abstract verdict
  multiplies where the code divides integers and sums ballots where the code keeps tallies.
* `Log` in `MultiSig`: the log is read off the nonces: its entry n is the proposal that took
  nonce n. The signers of the moment, their threshold and the counter are not in it.

### From the code to `EscrowViews`, `EscrowQueries` and `Paging`

* Views write nothing: `EscrowViews` adds no action. `ScanReconciles` states where the
  counters, the scans, the volumes and the analytics agree, and `RefundIsAsAnnounced`
  what `get_refund_eligibility` promises about `refund` and `sweep_expired_refunds`.
* `EscrowQueries` has the indexes as sequences. Its bounties take the steps of
  `BountyLifecycle`, which `LifecycleIsKept` proves of the contract, instead of twenty
  entry points. The client of `walk` uses the number of results it has as the next
  offset, as the documentation of the queries tells it to; `walk.steady` is a history
  variable, the bounties that matched since the walk began.
* A filter stands for one query with one threshold; `Matches` has what each asks of an
  escrow. Limits above the cap occur, and a limit after which `offset + limit` does not
  fit in a `u32`.
* `Filtered` in `Lists` is `SelectSeq`, written with the rank of each element instead of a
  recursion, so that it can be reasoned about. `FilteredSelects` in `MCEscrowQueries` has
  TLC compare the two on all short lists.
* `RefundPossible` states the guards of `refund` and of a sweep of one bounty without
  `ENABLED`; `RefundIsAsAnnounced` has TLC check that they are exactly what enables the calls.

### From the code to `ErrorRecovery`, `CircuitBreaker` and `RateLimit`

* `execute_with_retry` runs in one transaction: its attempts are steps of the model, and
  between them only the operation itself acts, which may report failures of its own.
* The log is a sequence of numbers, the place of each failure in its streak. Timestamps
  and texts of the entries are left out, no guard reads them.
* `CircuitBreaker` is what is left when failures are: every `record_failure` of the
  program escrow is followed by a panic that rolls it back, so there the count stays 0
  and only `emergency_open_circuit` opens the circuit.
* `RateLimit` keeps `u64` saturation (`LastTime` is `u64::MAX`) and a last operation of 0,
  which the code cannot tell from none. `stamps` is a history of what was let through.
  `update_rate_limit_config` is admitted by the governance gate and refuses limits of zero;
  the module leaves both guards out and so allows more configurations than the contract.

### From the code to `ProgramEscrow` and `ProgramViews`

* `Init` is the state that `initialize_program` and `initialize_contract` leave. `paid`
  is `payout_history` summed up by recipient, `entries` counts the entries of each
  schedule in `RELEASE_HISTORY`, `held` and `received` are the token's balances.
* The three releases share `Release` and differ as the code does: only the trigger
  compares amounts with the remaining balance and writes to `payout_history`; only the
  manual one ignores the time; none asks for the pause or the governance version. The
  trigger aborts as a whole when one schedule is not covered, which is `Covered`: the
  amounts are positive, so the last comparison of the loop implies the others.
* A dispute is open or not; a resolved and a cancelled one differ in no guard.
* `Gift` is a token transfer that bypasses the entry points; it is what lets a single
  release take more than the remaining balance, which then is negative.
* `Controls` names which of the admin's controls an instance uses, `MaxControls` how many
  kinds at a time.

### From the code to `Governance` and `GovernanceGate`

* `init_governance` runs once, so its arguments are constants and its checks the
  assumption `ConfigAssumption`; `Init` is what it leaves.
* `proposals`, `count`, `votes` are the stores of those names. A missing proposal has
  status `"None"`, a missing vote has power 0: `cast_vote` refuses a power of 0.
  `ProposalStatus::Pending` exists in the source and no code uses it.
* `TransferTokens` is the token contract: anybody moves tokens at any time.
* `Countable` is the checked arithmetic of `finalize_proposal`: when the votes times
  10000 exceed `i128::MAX` (`MaxInt`) the call fails. The status is not a guard of it,
  because the code does not read it.
* `ExecutableAt` adds where the code saturates at `u64::MAX`, which the clock does not
  come near.
* The gate's `linked` is the contract under `GOV_ADDR`: none, the governance contract of
  this module, or another core contract that an admin controls (`"other"`). `stored` is
  `DataKey::Version` of the two: the same code reads and writes it in both, `init_admin`
  stores an admin and a version, `init_governance` neither, so there `get_ver` answers 0
  and nobody may set it. The other contract has no proposals, as an instance is claimed by
  one authority (`OneAuthority`). `contract` says which escrow it is, since only the bounty
  escrow knows encoded versions and only some entry points exist in both.

### From the code to `MultiSig` and `CoreUpgrade`

* The signer lists hold no address twice and their order decides nothing: sets.
* Each proposal carries its snapshot of signers and threshold; `execute_upgrade` of the
  core contract reads the stored action and passes it on, so `ActionMismatch` cannot
  occur through it. `Install` is the replacement of the contract's code by the host.
* Signers add, remove and rotate with their own authorisation only, as in the code.
* All three ways of upgrading live in one contract. `mode` is `DataKey::UpgradeMode`;
  `admin` is whether `DataKey::Admin` is stored, since every use requires the stored
  address to sign. Governance is the mode it claims: `execute_proposal` records a
  decision and installs nothing, so nothing of its state is read or written here.
* The multisig's variables are empty until `init`; its actions are those of `MultiSig`,
  whose own guards refuse every call before.
* `version` is `Absent` (-1) while nothing is stored, which is not the version 0 that
  `set_version` may store. `schedule` and `migration` are options: sets of at most one.
* `runs` counts how often each migration step has run; the code does not keep it.
* `Migrate` returns without an effect when the record covers the target, before it
  looks at the version, as the code does.

A definition whose comment begins with "Mutant" is a plausible wrong version of the
definition after it. Replacing the one by the other makes the run violate the property
`PROJECT.json` names, which shows that the property notices.

## 3. What the runs check

| Run | Instance | States | Shows |
|---|---|---|---|
| `escrow_core` | 2 bounties, amounts 0, 1, 2, time 0..2, batches of up to 2, a gift, a keeper that sweeps | 271,444 | counters match a scan, books balance, the balance covers what is locked and that is explained, claims backed, scans and eligibility reconcile, lifecycle refinement (settled is final, a claim freezes its bounty), early refunds are approved, an expired bounty is settled |
| `escrow_controls` | 1 bounty, amounts 1 and 3, all pause flags, governance on and off, 2 signers, 2 policies, a gift | 1,049,760 | every control holds at every entry point it is meant for; every part of a large bounty needs its own quorum |
| `escrow_queries` | 3 bounties with two kinds of terms, all filters, limits 1 and 3 over a cap of 2 | 249,809 | walks miss nothing and repeat nothing, the indexes agree |
| `guards` | thresholds 1 and 3, success thresholds 0 and 2, logs of 0 to 3, retry budgets 0, 1, 3; three limiter configurations, time 0..6 | 52,478 | log, threshold, retries, the breaker's refinement; bursts and recovery of the limiter |
| `program` | 2 recipients, 3 schedules of 1 out of a pool of 2, batches of up to 2, a gift, each kind of control, a backend that triggers | 402,742 | refinement of `PrizePool`: promises are kept once and in full; books, histories, token, views agree; every control holds; what is due and covered can be released, and is |
| `governance_gate` | 1 proposal, 2 holders of 2 tokens and 1, moving, `MaxInt` of 3 votes times 10000, minimum versions plain and encoded, either escrow, a keeper | 794,160 | refinement of `Poll`: ballots are cast once and in time, stay, and alone decide; what the escrow runs and consumed has a mandate; every proposal is decided and every mandate executed |
| `multisig_upgrades` | 2 proposals, 3 addresses, every rotation, fair signers | 88,464 | refinement of `UpgradeLog`: every execution has the quorum of its own snapshot and its place in the log; reachable threshold; willing signers see an open proposal executed |
| `core_upgrades` | 3 initialisers, 2 signers with 2 proposals, delays below, at and above the minimum and up to saturation, versions 0..4, time 0..4, an admin who carries out what is scheduled | 54,270 | one authority, a mandate for every change of the code (review window or quorum), a true migration record; what is scheduled is installed or replaced |
| `escrow_solvency`, `governance_cancelled`, `governance_minimum`, `program_breaker` | 2 bounties and no gift; 1 proposal; 1 proposal, one person one vote, minimum 2; 1 recipient | violated | each finds a behaviour that contradicts a quoted statement; section 5 |

**Bounds.** Two bounties are enough for a batch to mix bounties of different
histories and for one bounty to be paid with the other's tokens. Amount 2 can be
paid in parts, of which each may be approved, released or refunded, 1 cannot be split, 0
is the edge `lock_funds` admits; 3, with unequal parts, is in `escrow_controls`. A gift of
1 (`MaxGift`) makes the balance exceed what is counted, so that a payment is covered which
the locked tokens alone would not cover; `escrow_solvency` has none, so that its
counterexample is a payment.
Time 0..2 has a moment before, at and after each deadline and claim expiry; a
claim window of 1 lets a claim be valid, expire and be renewed. `Ceiling` stands
for `i128::MAX`; `MaxTime` and the sets of amounts bound the state space and occur
only in the guards of `Tick` and of locking.

Queries: with three bounties, pages of one and a cap of two, a walk has up to four pages,
so bounties leave and join the list before, at and after its offset; the three thresholds
are 0 and 1, where the two kinds of terms differ.

Guards: thresholds of 1 and 3 with a log of 2 and of 0 make the log shorter and longer than
the streak; success thresholds 0 and 2 let the half-open circuit close at once and after
one more success; `MaxFailures` of 5 is past every threshold. The limiter's three
configurations are several operations per window, spaced operations, and none at all
with a cooldown that outlasts the timestamps; `LastTime` of 6 is three short windows.

Governance: the voting period of 1 and the delay of 2 differ, so the end of voting,
the time of a verdict and the time of execution are different moments, and `MaxTime`
reaches past all three for a proposal made at `LastProposal`. The holders of
`governance_gate` have 3 tokens, whose votes fill `MaxInt`, and tokens that move on after a
vote vote again, so the overflow happens. Minimums 0, 2 and
20 with versions 1 and 2 and a `Major` of 10 fall below, at and above, plain and encoded.
One proposal suffices: two of them meet only in the counter, in `MaxProposals`, and in the
approval of a hash that both name, where either is enough; the proofs cover any number.

Multisig and upgrades: two proposals of three addresses let one execution take the nonce
another one read, and every signer set of at most three occurs with every threshold. One
hash besides the initial code suffices in `multisig_upgrades`, where no guard reads it;
that a hash nobody approved is never installed is checked with two hashes in
`core_upgrades` and proved for any number of them. The
minimal delay of 1, the default of 2 and `MaxTime` of 4 leave room for a schedule, a longer
delay and a second schedule, and `Ceiling` makes `now + 9` saturate.

Program: three schedules, batches of two and tokens for fewer than they promise make a
trigger that has to stop at its bound, that is not covered, and that follows manual
releases; `MaxGift` of 1 makes the remaining balance negative. One kind of control is in
use at a time: the properties about controls speak of one at a time, and each occurs.

Runs that do not check deadlock are those in which nothing may be left to do: the pool is
empty and the bounded locking is used up (`program`, `program_breaker`), governance has
claimed the core contract (`core_upgrades`), the client has all pages and every bounty is
settled (`escrow_queries`), the clock and the count of failures are at their bounds
(`guards`).

**Fairness.** `FairSpec` of each module assumes that ledgers keep closing (`Tick`) and
otherwise only of calls what their authorisation justifies:
* `BountyEscrow`: for each bounty somebody keeps calling `sweep_expired_refunds` while
  that is possible; it needs no authorisation. Nothing is assumed of the admin,
  recipients or signers, which is why a pending claim may hold a bounty forever.
* `Governance`, `GovernanceGate`: a keeper calls finalize, sweep and execute, which anybody
  may call.
* `MultiSig`: the signers of a proposal's snapshot keep approving it, and somebody
  executes with the current nonce. The property is conditional on that willingness.
* `CoreUpgrade`: the admin calls `upgrade` for what it has itself scheduled
  (`InstallScheduled`). The property
  is about who wants the upgrade and finds it postponed, not about an idle admin.
* `ProgramEscrow`: the backend that holds the payout key keeps triggering. Admins owe
  nothing, so `DueIsReleased` allows for every control they may leave closed.

There is no model of crashes or of lost messages because the contracts meet none: a call
is one transaction that happens or does not, and the ledger keeps what it wrote. What a
caller may do twice, late or in another order is in the interleavings of the actions.

## 4. What is proved

**Sums and lists** (`DataProofs`). Most balances, counters and histories are sums over sets,
and the queries return filtered lists. What `Sum`, `Rank`, `Filtered` and `Slice` compute is
proved by induction. The induction theorems of the prover's library take an operator as a
parameter, which the provers cannot instantiate; `SubsetInduction` and `CountInduction` take
a set of good elements instead, are first-order, and rest on minimal elements (`WFMin`).
1. `SumTable` and `SumsOf`: `Sum` equals the recursive table over all subsets. From it come
   `SumInsert`, `SumChange`, `SumSplit`, `SumPlus`, `SumGroups` (a sum over groups of sums),
   `SumCount` and the others that the invariants cite.
2. `FilteredIs`: the element at place k is the one that matches and has rank k, none is left
   out. `RankGrows`, `RanksAreTaken`, `RankEqual`, `RankMonotone` compare ranks in one list
   or two; `FilteredAppend` is what a new bounty does to every list.
3. `SliceIs`, `SlicesContinue`, `SlicedElements`: what a page holds, and that two pages in a
   row are one.

**Bounty escrow**, for every set of bounties, amounts, batch size, time bound and
configuration that satisfy the named assumptions of `BountyEscrow` (finite sets of bounties
and signers, amounts that are naturals below the ceiling, configurations of the declared
types):

1. `TypesAreKept`: `TypeOK`.
2. `EveryStepHasAnEffect` (lemma): whatever call is made, each single bounty is kept,
   opened, released in full or in part, refunded in part, or has its claim set, paid or
   dropped, with the guard that belongs to it. Everything below argues from these eight
   kinds of step instead of from twenty entry points.
3. `ClaimsAreAlwaysBacked`: inductive given `TypeOK`.
4. `NeverReleasedAfterRefund`: by the strengthening `RefundsAreRecorded`, which adds
   that a bounty that is `Locked` or unused has no refund (without it a release from
   `Locked` could follow a refund). It needs `ClaimsAreBacked`, as `claim` looks at
   no status.
5. `BooksAlwaysBalance`, `SettledIsAlwaysFinal`, `ClaimsAlwaysFreeze`: from the same two.
6. `BalanceIsAlwaysTracked`: every call moves the balance and the locked total alike, and a
   gift only raises the balance, so what it exceeds the total by never shrinks.
7. `CountsAlwaysMatchScan`: batches move whole sets of bounties between buckets; the
   lemmas `BucketGains` and `BucketLoses` count them, so the saturation never bites.
8. `LifecycleIsKept`: with `TypeOK`, `ClaimsAreBacked` and `BooksBalance`, every kind of
   step of the contract is a step of the lifecycle.
9. `PartsAlwaysNeedQuorum`, `EarlyRefundsAlwaysApproved`: action properties, by
   `WhoMovesABounty`: only a partial release keeps a bounty locked with less in it, and only
   a refund raises what was refunded before the deadline.
10. `TotalsAreAlwaysSums`: the three running totals are sums of what was
   locked, paid and refunded over all bounties. `LockedIsExplained` alone is not inductive,
   as it does not say which of the totals a step moves. With it goes `Unopened` (a bounty
   without an escrow has no records). Every call that moves money deposits to, pays from or
   reimburses a set of bounties, of one or of a batch, and moves one of the sums by what its
   set adds up to.
11. `LockedIsAlwaysExplained` and `ScanAlwaysReconciles`: from 10, `BooksBalance` and
   `CountsMatchScan`; the scans are the same sums, regrouped by status.
12. `ControlsAlwaysHold`: from the guards, and from 10 where a control stops one of the
   totals.
13. `RefundsAlwaysAnnounced`: the eligibility view tells what the guards of the two
   refunding calls admit, with the exceptions `RefundAnnounced` names, and no call refunds
   what it calls not refundable. It needs that a stored approval is for at least 1.

**Queries**, for every set of bounties and depositors, every cap and limits:

1. `IndexesAlwaysAgree`: `IndexInv` says that a depositor's index is the contract's index
   filtered by the depositor. Each new bounty is appended to both (`FilteredAppend`).
2. `WalksNeverMiss`, `WalksNeverRepeat`: `WalkInv` speaks of ranks. While a walk through a
   list that bounties do not leave is under way, every steady bounty whose rank is at most
   the number of results is among them (`Reached`); in a list that no old bounty joins every
   bounty among the results has such a rank (`Passed`). The properties say nothing until a
   walk ends, so they are not inductive.

**Guards**, for any admins, thresholds, log sizes and budgets; any callers, configurations
and last timestamp:

1. `BreakerTypes`, `ThresholdAlwaysHolds`: every call records a success or a failure, resets,
   or leaves the breaker alone (`StepsOnBreaker`); only a failure raises the count, and it
   opens the circuit when the count is full.
2. `RetriesAlwaysRespectCircuit`: from the types and `StepsOnRetry`, the steps of one retry.
3. `LogAlwaysEndsWithStreak`: `TrimmedLog` says which entry an entry of the trimmed log was.
4. `IsAlwaysCircuitBreaker`: with `successThreshold` mapped to the configuration, every step
   is one of `CircuitBreaker` or leaves its variables alone.
5. `LimiterAlwaysRecovers`, `CooldownAlwaysHolds`: from `RateInv`, which ties the stored
   state to the history: nobody's last operation is later than now or earlier than one
   that is on record.
6. `BurstsAreAlwaysBounded`: `BurstInv` adds what is known of the window under way
   (`WindowInv`): how many locks it holds, with and without the one that opened it, and that
   the end of the window before holds no opening lock, so less than a maximum. Any period as
   long as a window meets at most these two.

**Governance**, for every set of voters, balance and configuration:

1. `GovernanceTypes`: `TypeOK`.
2. `VerdictsAreTrue`: `VerdictFollowsVotes` is inductive given `TypeOK`. The argument: a
   vote needs an open voting period and a verdict a closed one, so no tally changes once
   there is a verdict; setting a status leaves the tallies alone, so finalizing again
   finds what it found before.
3. `VerdictsAreStable`: from 2, since a second verdict must be true as well.
   `GovernanceKeepsPoll` (`Spec => KeepsPoll`): `PollInv` joins 2 and 6 with `NoBallotsYet` (under
   an id that was not given out nothing is stored at all). `BallotsDecide` shows that tallies and
   integer quotients decide exactly as the ballots do (`QuotientReaches`), `UntouchedPoll` that
   time may end a poll no call touches. `finalize_proposal` reads no status: of a proposal
   that has a verdict it is a stutter, because the verdict it gives is the one on record.
4. `GateKeepsGovernance`: the composition with a linked escrow implements `Governance`, so
   1 to 3 hold in it.
5. `GovernedAlwaysHaveMandate`: `MandateInv` is inductive given 1 and 2: an approval and an
   execution need a verdict of their time, and `MandateIsKept` shows that what the votes
   carry after its delay they carry ever after, though its status may still change.
6. `TalliesAlwaysMatchVotes`, `OnePersonAlwaysOneVote`: `VotesInv` adds that no vote is
   stored under an id that was not given out yet (a new proposal starts with empty tallies)
   and that unweighted votes weigh at most 1, whoever holds the tokens.

**Multisig**, for every set of addresses and every initial configuration:

1. `MultiSigTypes`: `TypeOK`. That nonces stay within their bound is not inductive by
   itself: it follows from `NoncesNumberExecutions`, which maps executed proposals onto
   the nonces consumed, so there are at most as many nonces as proposals.
2. `ThresholdStaysReachable`, `ExecutionsAlwaysHaveQuorum`, `ExecutedStaysFinal`,
   `NoncesAlwaysNumber`, `SnapshotsGovern`: by the lemma `EveryStepOnProposals`, which says
   what a call does to one proposal: made, approved, executed or left alone.
3. `MultiSigKeepsLog` (`Spec => KeepsLog`): the log is a function of the proposals
   (`WithNonce`), so that an execution appends to it and leaves the rest alone has to be
   shown: nobody has a nonce above the current one, everybody below has exactly one
   (`NoncesFindExecutions`, `LogGrows`).

**Program escrow**, for every set of recipients, batch size and number of schedules:

1. `ReleasesAreAlwaysRecorded`: `ReleasesAreRecorded` strengthened by the types of the
   schedules and by `UnusedIsUnreleased` (a new schedule takes an id that no release has
   touched), in `ScheduleInv`. `WaysOfReleasing` reduces the three entry points to one
   kind of step.
2. `SchedulesAlwaysPayOnce`: from the same invariant.
3. `PoolIsAlwaysBacked`: `PoolInv` adds that what was locked and does not remain is what the
   recipients got, that exactly the released schedules have a releaser, and that schedules
   have recipients. Batches and triggers pay sums grouped by recipient (`BatchPays`,
   `SchedulingGroups`). `TypeOK` of this module is part of it, since balances are sums.
4. `ViewsAlwaysReconcile`: from 1 and 3 with the facts on lists. The proof showed that the
   list of due schedules answers for the trigger only when a page holds a whole batch:
   `PageAssumption`, as `MAX_BATCH_SIZE` and `MAX_QUERY_LIMIT` of that contract are both 100.
   `TriggerFollowsList` is its core: where the first ones listed and the first ones
   triggered differ, an earlier schedule on the list is under dispute or off the whitelist.
5. `ProgramKeepsPool` (`Spec => KeepsPool`): from `PoolInv` and `ScheduleInv`; each entry point
   is a deposit, a gift, an award of at most what is left, a promise made, or a set of
   promises kept, whose sums by recipient are those that `Release` pays.
6. `ControlsAlwaysHold`: every call is a payout (`PayoutObeys`), a release
   (`ReleaseObeys`) or pays nobody (`QuietObeys`); that a release pays a recipient only by a schedule of his own needs that a
   sum over no schedule is 0.

**Core upgrades**, for every set of hashes, delays and versions, every multisig, and a
clock that stays `MinDelay` below the end of `u64` (`TimeAssumption`; a later schedule would
saturate to a shorter window):

1. `UpgradeTypes`, `OneAuthorityOnly`, `MigrationRecordStaysTrue`: conjuncts of `UpgradeInv`,
   which adds `WindowIsKept` (the delay and the pending schedule each leave the minimal
   window; without it the window would depend on how the schedule came about).
   `MultisigNeedsClaim` shows that no multisig call succeeds unless `init` ran.
2. `ChangesAlwaysHaveMandate`, `MigrationsAlwaysAdvance`: action properties from
   `UpgradeInv`.
3. `ClaimsAreFinal`: from the guards of the three initialisers alone.

**Liveness.** Each of the five liveness properties follows from its module's `FairSpec` and two
kinds of hypotheses that the prover cannot supply:

| Theorem | What is called again and again | That it has an effect | What shrinks |
|---|---|---|---|
| `ExpiredAlwaysSettled` | `sweep_expired_refunds` of a bounty | `RefundIsAsAnnounced` | |
| `EveryProposalIsAlwaysDecided` | finalize, sweep, execute; ledgers close | `CallsHaveEffect` | the time left |
| `EveryProposalIsAlwaysExecuted` | approvals by the snapshot, an execution | `CallsHaveEffect` | the signers missing |
| `ScheduledIsAlwaysInstalled` | `upgrade` of what is scheduled; ledgers close | `CallsHaveEffect` | the time left |
| `DueIsAlwaysReleased` | `trigger_program_releases` | `DueCanBeReleased` | the unreleased schedules |

The third column says `ENABLED`, which no backend understands, so the theorems take it as a
hypothesis. `RefundIsAsAnnounced` and `DueCanBeReleased` say what a caller finds and are
checked by TLC in the runs whose properties they are. `CallsHaveEffect`, one in each of the
three proof modules, only unfolds `ENABLED`: a call can be made when its own guard holds.
That the guard holds is in the proofs, such as that an admin is there for every schedule
(`ScheduleAlwaysHasAdmin`). The
last column are instances of `StopsShrinking` (module `Descent`): a finite set from which
elements are only taken away stops shrinking. The formula is true of every behaviour, but
deriving it needs induction under temporal operators, and the temporal logic of the prover
is propositional. What the proofs do show is the rest: that the call which fairness forces
settles the matter or shrinks the set, that no other call undoes it or grows the set, and
that the set is finite. `EveryProposalIsAlwaysDecided` also assumes `TimeSuffices`, that the
model's clock does not stop before the delay of the last proposal has passed.

The type invariants, `NoReleaseAfterRefund`, `SettledIsFinal`, `ClaimFreezesBounty`,
`BalanceIsTracked`, `LockedIsExplained`, `PoolIsBacked`, `SchedulesPayOnce`,
`TalliesMatchVotes`, `VerdictFollowsVotes`, `VerdictIsStable`, `ExecutionsHaveQuorum`,
`SnapshotGoverns`, `ExecutedIsFinal`, `NoncesNumberExecutions`, `CooldownHolds`,
`ClaimIsFinal` and `MigrationsAdvance` are theorems without a run of their own: each holds
in every instance, and what a run checks instead implies it or rests on it.
`OnePersonOneVote` has no run either: without weights the code reads no token.

**Only model-checked.** What says `ENABLED`: `DueCanBeReleased`, and of `RefundIsAsAnnounced` the half that the
guards named in `RefundSucceeds` and `SweepSucceeds` suffice for the calls to succeed. That
they are necessary is `RefundNeedsGuards`, and the rest is `RefundsAlwaysAnnounced`. Every
other safety property of a passing run is a theorem without hypotheses, and every liveness
property one with those above.

## 5. Where documents and code differ

Four have a run:

* `release_funds` and `batch_release_funds` pay `escrow.amount`, not what remains
  (`escrow_solvency`). `BooksBalance` states the bound that does hold, twice the amount, and
  so tolerates the payment, as the views do: only `escrow_solvency` shows it.
* `finalize_proposal` reads no status, so a cancelled proposal that has the votes is
  approved after the voting period and can be executed (`governance_cancelled`). What
  does hold is that the votes decide it (`VerdictFollowsVotes`).
* `test_circuit_breaker_integration.rs:12-13` of the program escrow, and the comment at
  `program-escrow/src/lib.rs:1993`, have failed payouts open the circuit; the panic that
  follows rolls each failure back (`program_breaker`).
* A contract that governance initialised stores no version, so it reports version 0 and an
  escrow linked to it with a minimum above 0 refuses what the version gates, upgrades
  included (`governance_minimum`). `docs/GOVERNANCE_INTEGRATION.md:186-190` and `:249-257`
  recommend a minimum of 2, and the tests of both escrows upgrade under one, against a mock
  that reports 2.

Met while modelling, each without a run of its own:

* `finalize_proposal` makes an executed proposal `Approved` again, and it may be executed a
  second time; `docs/GOVERNANCE_INTEGRATION.md:304` says that `Executed` prevents this.
* An approval that became larger than the rest makes `refund` fail after the deadline, while
  `docs/bounty_escrow/SECURITY.md:48` lets anybody refund then; `sweep_expired_refunds`
  ignores approvals and still works (`RefundIsAsAnnounced`).
* A `Full` approval of less than what remains closes the bounty with the rest in it
  (`docs/bounty_escrow/SECURITY.md:49`).
* `batch_release_funds` asks no large-release signer, while
  `test_multisig_enforcement.rs:327` has every release gated.
* `authorize_claim` ignores the emergency pause; `update_multisig_config` is not gated by
  governance.
* A walk through the locked bounties, a list that bounties leave while it is read, may skip
  some that stay; the documentation at `bounty_escrow/contracts/escrow/src/lib.rs:2733` calls
  pagination stable with any filter. `WalksMissNothing` states for which filters it is.
* Partly refunded bounties stay in `count_locked`, and the volume of the released grows with
  partial releases, where the scans tell other numbers (`ScanReconciles` states how they
  relate).
* Releasing one program schedule writes to the release history and not to
  `payout_history`, which `program-escrow/src/lib.rs:84` calls full (`PoolIsBacked` states
  what does hold).
* `create_program_release_schedule` reserves nothing and payouts spend what is scheduled, so
  pending schedules may exceed the remaining balance, which
  `program-escrow/src/test_balance_invariant.rs:85` calls a violated invariant.
* `grainlify-core/src/lib.rs:1579` says that `migrate` records its state to prevent double
  migration. After `migrate(2)` from version 1, `set_version(1)` and `migrate(3)`, the step
  to version 2 runs again: the record only stops targets it covers (`MigrationsAdvance`).
* `docs/bounty_escrow/SECURITY.md` describes a two-step admin handover; the bounty escrow
  has no such entry points, so there is nothing to model.

## 6. Plan

The order in which the modules were written, the most important behaviour first, all of it
done: the bounty escrow with its lifecycle and proofs; governance and multisig; the program
escrow with its breaker; the upgrade authority composed with the multisig; the gate that
joins an escrow with governance; the breaker and the limiter by themselves; views and
queries. The proofs followed in the same order; sums and lists came last, with the lemmas of
`DataProofs`.

After the single properties came the proofs about implementation, each module as a
refinement of what it promises (`BountyLifecycle`, `CircuitBreaker`, `PrizePool`, `Poll`,
`UpgradeLog`), and the liveness arguments.

What would come next: a composition in which `Governance` decides what `CoreUpgrade` installs,
should the contract ever execute its proposals, and `StopsShrinking` and the invariants with
`ENABLED` as theorems, once the prover has the rules for them.

## 7. Not modelled

* Events of all contracts and the monitoring counters: no contract reads them back, so
  no property depends on them.
* The reentrancy guard of the program escrow: a flag set and cleared within one call; the
  host refuses re-entry by itself, so the guard never decides anything.
* The fee configuration of both escrows and the large-payout threshold: stored and
  announced, applied by no payment. The anti-abuse admin of the bounty escrow: stored and
  read back, it gates nothing.
* Small, and apart from everything else: the two-step rotation of the program escrow's
  admin (the model knows the admin's calls, not who the admin is), the admin's audit view,
  the lists of payout and release records with their filters, and getters that return a
  stored value.
* The expiry of storage entries (TTL): what the host does with an expired entry is not in
  this repository.
* The client SDK, which encodes and submits calls and keeps no state of the protocol; the
  deployment scripts, which act through the entry points; the soroban prototypes, which the
  contracts above supersede.
