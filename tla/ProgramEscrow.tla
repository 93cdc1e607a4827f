---------------------------- MODULE ProgramEscrow ----------------------------
(***************************************************************************)
(* The program escrow (program-escrow/src/lib.rs): one prize pool, paid    *)
(* out directly in batches, or by schedules that a payout key releases one *)
(* by one or all at once when they are due.  Disputes over the program, a  *)
(* recipient or a schedule, pauses, a whitelist, the version of the linked *)
(* governance contract and the circuit breaker stop some of these calls.   *)
(*                                                                         *)
(* Init is the state initialize_program and initialize_contract leave.  A  *)
(* call that panics changes nothing, so a panic is a guard.  The rate      *)
(* limiter and the fund caps, which only ever refuse a lock, are in        *)
(* RateLimit.                                                              *)
(***************************************************************************)
EXTENDS CircuitBreaker, Sequences, Sums

CONSTANTS
    Recipients,    \* addresses that may be paid
    Amounts,       \* amounts that are locked, paid or scheduled
    ReleaseTimes,  \* release timestamps that are scheduled
    MaxBatch,      \* MAX_BATCH_SIZE
    MaxSchedules,  \* bound on the number of schedules
    MaxTotal,      \* bound on the tokens that are locked
    MaxGift,       \* bound on the tokens sent to the contract past its entry points
    MaxTime,       \* bound on the ledger timestamp
    Controls,      \* the kinds of control that the admins use
    MaxControls    \* bound on the kinds of control in use at a time

ASSUME RecipientsAssumption == IsFiniteSet(Recipients)
ASSUME AmountsAssumption == Amounts \subseteq Nat \ {0} /\ ReleaseTimes \subseteq Nat
ASSUME BoundsAssumption ==
    /\ MaxBatch \in Nat \ {0} /\ MaxSchedules \in Nat
    /\ MaxTotal \in Nat /\ MaxGift \in Nat /\ MaxTime \in Nat
ASSUME ControlsAssumption ==
    /\ MaxControls \in Nat
    /\ Controls \subseteq {"pause", "dispute", "whitelist", "governance", "circuit"}

Ids == 1 .. MaxSchedules

VARIABLES
    now,                \* env.ledger().timestamp()
    totalFunds,         \* ProgramData.total_funds
    remaining,          \* ProgramData.remaining_balance
    paid,               \* ProgramData.payout_history, summed up by recipient
    schedules,          \* SCHEDULES
    nextId,             \* NEXT_SCHEDULE_ID
    entries,            \* number of entries of each schedule in RELEASE_HISTORY
    held, received,     \* balances of the contract and the recipients in the token
    globalDispute,      \* DataKey::Dispute is open
    recipientDisputes,  \* recipients with an open DataKey::RecipientDispute
    scheduleDisputes,   \* schedules with an open DataKey::ScheduleDispute
    paused,             \* DataKey::PauseFlags
    enforced,           \* DataKey::WhitelistEnforced
    whitelist,          \* addresses with DataKey::Whitelist
    govOk               \* whether check_governance_version succeeds

poolVars == <<totalFunds, remaining, paid, held, received>>
scheduleVars == <<schedules, nextId, entries>>
disputeVars == <<globalDispute, recipientDisputes, scheduleDisputes>>
controlVars == <<paused, enforced, whitelist, govOk>>
vars == <<now, poolVars, scheduleVars, disputeVars, controlVars, circuitVars>>

-----------------------------------------------------------------------------
(* State *)

Nobody == "nobody"

\* by is released_by: the payout key, or the contract itself
Schedule == [recipient : Recipients \cup {Nobody}, amount : Nat, at : Nat,
             released : BOOLEAN, releasedAt : Nat, by : {Nobody, "key", "contract"}]

\* What is under an id that was not used yet, where nothing is stored
NoSchedule == [recipient |-> Nobody, amount |-> 0, at |-> 0, released |-> FALSE,
               releasedAt |-> 0, by |-> Nobody]

Scheduled == 1 .. nextId - 1
Pending == {i \in Scheduled : ~schedules[i].released}

\* What the schedules of I pay, in all and to one recipient
Scheduling(I) == Sum([i \in Ids |-> schedules[i].amount], I)
SchedulingTo(r, I) == Scheduling({i \in I : schedules[i].recipient = r})

Nothing == [r \in Recipients |-> 0]

Init ==
    /\ now = 0
    /\ totalFunds = 0 /\ remaining = 0 /\ held = 0
    /\ paid = Nothing /\ received = Nothing
    /\ schedules = [i \in Ids |-> NoSchedule]
    /\ nextId = 1
    /\ entries = [i \in Ids |-> 0]
    /\ globalDispute = FALSE /\ recipientDisputes = {} /\ scheduleDisputes = {}
    /\ paused = [lock |-> FALSE, release |-> FALSE]
    /\ enforced = FALSE /\ whitelist = {} /\ govOk = TRUE
    /\ CircuitInit

-----------------------------------------------------------------------------
(* Locking and direct payouts *)

LockProgramFunds(amount) ==
    /\ ~paused.lock
    /\ totalFunds + amount <= MaxTotal
    /\ held + amount >= remaining + amount
    /\ totalFunds' = totalFunds + amount
    /\ remaining' = remaining + amount
    /\ held' = held + amount
    /\ UNCHANGED <<now, paid, received, scheduleVars, disputeVars, controlVars, circuitVars>>

\* The token contract moves to each recipient what the function says
Transfer(payment) ==
    LET total == Sum(payment, Recipients)
    IN  /\ total <= held
        /\ held' = held - total
        /\ received' = [r \in Recipients |-> received[r] + payment[r]]

Payable(r) == enforced => r \in whitelist

\* Mutant: of several recipients one in dispute is overlooked
UndisputedSome(R) == ~globalDispute /\ ~(R \subseteq recipientDisputes)

Undisputed(R) == ~globalDispute /\ R \cap recipientDisputes = {}

PayoutsOpen == CheckAndAllow /\ ~paused.release /\ govOk

BatchPayout(recipients, amounts) ==
    LET payment == [r \in Recipients |-> Sum(amounts, {i \in DOMAIN recipients : recipients[i] = r})]
        total == Sum(amounts, DOMAIN amounts)
        R == {recipients[i] : i \in DOMAIN recipients}
    IN  /\ PayoutsOpen
        /\ Undisputed(R)
        /\ \A r \in R : Payable(r)
        /\ total <= remaining
        /\ Transfer(payment)
        /\ remaining' = remaining - total
        /\ paid' = [r \in Recipients |-> paid[r] + payment[r]]
        /\ RecordSuccess
        /\ UNCHANGED <<now, totalFunds, scheduleVars, disputeVars, controlVars>>

SinglePayout(recipient, amount) ==
    /\ PayoutsOpen
    /\ Undisputed({recipient})
    /\ Payable(recipient)
    /\ amount <= remaining
    /\ Transfer([r \in Recipients |-> IF r = recipient THEN amount ELSE 0])
    /\ remaining' = remaining - amount
    /\ paid' = [paid EXCEPT ![recipient] = @ + amount]
    /\ RecordSuccess
    /\ UNCHANGED <<now, totalFunds, scheduleVars, disputeVars, controlVars>>

-----------------------------------------------------------------------------
(* Schedules *)

CreateSchedule(recipient, amount, at) ==
    /\ nextId <= MaxSchedules
    /\ Payable(recipient)
    /\ schedules' = [schedules EXCEPT ![nextId] =
                        [recipient |-> recipient, amount |-> amount, at |-> at,
                         released |-> FALSE, releasedAt |-> 0, by |-> Nobody]]
    /\ nextId' = nextId + 1
    /\ UNCHANGED <<now, poolVars, entries, disputeVars, controlVars, circuitVars>>

\* Mutant: of several schedules only the last is subtracted
BookedLast(I) == remaining - schedules[Max(I)].amount

Booked(I) == remaining - Scheduling(I)

\* Schedules of I are released by the payout key or the contract and paid
Release(I, by) ==
    /\ Transfer([r \in Recipients |-> SchedulingTo(r, I)])
    /\ remaining' = Booked(I)
    /\ schedules' = [i \in Ids |->
           IF i \in I THEN [schedules[i] EXCEPT !.released = TRUE, !.releasedAt = now, !.by = by]
           ELSE schedules[i]]
    /\ entries' = [i \in Ids |-> IF i \in I THEN entries[i] + 1 ELSE entries[i]]
    /\ RecordSuccess
    /\ UNCHANGED <<now, totalFunds, nextId, disputeVars, controlVars>>

Free(i) == i \notin scheduleDisputes /\ schedules[i].recipient \notin recipientDisputes

\* Mutant: whether the schedule was released already is not looked at
ReleasableTwice(i) ==
    /\ i \in Scheduled
    /\ ~globalDispute /\ Free(i)
    /\ Payable(schedules[i].recipient)

Releasable(i) ==
    /\ i \in Pending
    /\ ~globalDispute /\ Free(i)
    /\ Payable(schedules[i].recipient)

\* Mutant: a schedule is due a moment before its time
IsDueEarly(i) == now + 1 >= schedules[i].at

IsDue(i) == now >= schedules[i].at

\* Neither release of a single schedule looks at the remaining balance, nor
\* writes to the payout history
ReleaseManual(i) ==
    /\ CheckAndAllow
    /\ Releasable(i)
    /\ Release({i}, "key")
    /\ UNCHANGED paid

ReleaseAutomatic(i) ==
    /\ CheckAndAllow
    /\ Releasable(i)
    /\ IsDue(i)
    /\ Release({i}, "contract")
    /\ UNCHANGED paid

Due == {i \in Pending : IsDue(i) /\ Free(i) /\ Payable(schedules[i].recipient)}

\* Mutant: the bound is on the schedules looked at, not on those released
TriggeredOfFirst == {i \in Due : i <= MaxBatch}

\* The first MAX_BATCH_SIZE of those that are not skipped
Triggered == {i \in Due : Cardinality({j \in Due : j < i}) < MaxBatch}

\* The loop compares each schedule with what the ones before it have left
Covered == Scheduling(Triggered) <= remaining

\* A call that finds nothing to release changes nothing
TriggerReleases ==
    /\ CheckAndAllow
    /\ ~globalDispute
    /\ Triggered # {}
    /\ Covered
    /\ Release(Triggered, "contract")
    /\ paid' = [r \in Recipients |-> paid[r] + SchedulingTo(r, Triggered)]

-----------------------------------------------------------------------------
(* Disputes and controls, by the admin *)

Disputable == Scheduled

\* The controls that are not as they were at first, and the bound on them
InUse ==
    {c \in Controls :
        \/ c = "dispute" /\ (globalDispute \/ recipientDisputes # {} \/ scheduleDisputes # {})
        \/ c = "pause" /\ (paused.lock \/ paused.release)
        \/ c = "whitelist" /\ (enforced \/ whitelist # {})
        \/ c = "governance" /\ ~govOk
        \/ c = "circuit" /\ (circuit # "Closed" \/ successThreshold # 1)}

MayUse(c) == c \in Controls /\ Cardinality(InUse \ {c}) < MaxControls

OpenDispute ==
    /\ MayUse("dispute")
    /\ \/ /\ ~globalDispute
          /\ globalDispute' = TRUE
          /\ UNCHANGED <<recipientDisputes, scheduleDisputes>>
       \/ \E r \in Recipients \ recipientDisputes :
             /\ recipientDisputes' = recipientDisputes \cup {r}
             /\ UNCHANGED <<globalDispute, scheduleDisputes>>
       \/ \E i \in Disputable \ scheduleDisputes :
             /\ scheduleDisputes' = scheduleDisputes \cup {i}
             /\ UNCHANGED <<globalDispute, recipientDisputes>>
    /\ UNCHANGED <<now, poolVars, scheduleVars, controlVars, circuitVars>>

\* Resolving and cancelling differ only in what the record says afterwards
CloseDispute ==
    /\ \/ /\ globalDispute
          /\ globalDispute' = FALSE
          /\ UNCHANGED <<recipientDisputes, scheduleDisputes>>
       \/ \E r \in recipientDisputes :
             /\ recipientDisputes' = recipientDisputes \ {r}
             /\ UNCHANGED <<globalDispute, scheduleDisputes>>
       \/ \E i \in scheduleDisputes :
             /\ scheduleDisputes' = scheduleDisputes \ {i}
             /\ UNCHANGED <<globalDispute, recipientDisputes>>
    /\ UNCHANGED <<now, poolVars, scheduleVars, controlVars, circuitVars>>

SetPaused(lock, release) ==
    /\ MayUse("pause")
    /\ govOk
    /\ paused' = [lock |-> lock, release |-> release]
    /\ UNCHANGED <<now, poolVars, scheduleVars, disputeVars, enforced, whitelist, govOk,
                   circuitVars>>

SetWhitelist(r, whitelisted) ==
    /\ MayUse("whitelist")
    /\ whitelist' = IF whitelisted THEN whitelist \cup {r} ELSE whitelist \ {r}
    /\ UNCHANGED <<now, poolVars, scheduleVars, disputeVars, paused, enforced, govOk, circuitVars>>

SetWhitelistEnforced(enabled) ==
    /\ MayUse("whitelist")
    /\ enforced' = enabled
    /\ UNCHANGED <<now, poolVars, scheduleVars, disputeVars, paused, whitelist, govOk, circuitVars>>

\* The admin links a governance contract or sets the minimum version, or the
\* version of the linked contract changes
GovernanceChanges ==
    /\ MayUse("governance")
    /\ govOk' = ~govOk
    /\ UNCHANGED <<now, poolVars, scheduleVars, disputeVars, paused, enforced, whitelist,
                   circuitVars>>

\* By the admin of the circuit breaker
ControlCircuit ==
    /\ MayUse("circuit")
    /\ \/ EmergencyOpen
       \/ ResetCircuit
       \/ \E threshold \in SuccessThresholds : ConfigureCircuit(threshold)
    /\ UNCHANGED <<now, poolVars, scheduleVars, disputeVars, controlVars>>

-----------------------------------------------------------------------------
(* The token contract and time *)

\* Anybody may send tokens to the contract without calling it
Gift ==
    /\ held + Sum(received, Recipients) < totalFunds + MaxGift
    /\ held' = held + 1
    /\ UNCHANGED <<now, totalFunds, remaining, paid, received, scheduleVars, disputeVars,
                   controlVars, circuitVars>>

Tick ==
    /\ now < MaxTime
    /\ now' = now + 1
    /\ UNCHANGED <<poolVars, scheduleVars, disputeVars, controlVars, circuitVars>>

Next ==
    \/ \E amount \in Amounts : LockProgramFunds(amount)
    \/ \E n \in 1 .. MaxBatch :
         \E recipients \in [1 .. n -> Recipients], amounts \in [1 .. n -> Amounts] :
             BatchPayout(recipients, amounts)
    \/ \E r \in Recipients, amount \in Amounts : SinglePayout(r, amount)
    \/ \E r \in Recipients, amount \in Amounts, at \in ReleaseTimes : CreateSchedule(r, amount, at)
    \/ \E i \in Ids : ReleaseManual(i) \/ ReleaseAutomatic(i)
    \/ TriggerReleases
    \/ OpenDispute
    \/ CloseDispute
    \/ \E lock, release \in BOOLEAN : SetPaused(lock, release)
    \/ \E r \in Recipients, whitelisted \in BOOLEAN : SetWhitelist(r, whitelisted)
    \/ \E enabled \in BOOLEAN : SetWhitelistEnforced(enabled)
    \/ GovernanceChanges
    \/ ControlCircuit
    \/ Gift
    \/ Tick

Spec == Init /\ [][Next]_vars

\* Ledgers keep closing, and the service that holds the payout key keeps
\* triggering the schedules that are due
FairSpec == Spec /\ WF_vars(Tick) /\ WF_vars(TriggerReleases)

-----------------------------------------------------------------------------
(* Properties *)

\* Every variable has its type; no recipient is paid for less than nothing,
\* while the remaining balance may be negative.
TypeOK ==
    /\ now \in 0 .. MaxTime
    /\ totalFunds \in 0 .. MaxTotal
    /\ remaining \in Int /\ held \in Nat
    /\ paid \in [Recipients -> Nat] /\ received \in [Recipients -> Nat]
    /\ schedules \in [Ids -> Schedule]
    /\ nextId \in 1 .. MaxSchedules + 1
    /\ entries \in [Ids -> Nat]
    /\ globalDispute \in BOOLEAN
    /\ recipientDisputes \subseteq Recipients /\ scheduleDisputes \subseteq Scheduled
    /\ paused \in [lock : BOOLEAN, release : BOOLEAN]
    /\ enforced \in BOOLEAN /\ whitelist \subseteq Recipients /\ govOk \in BOOLEAN
    /\ CircuitTypeOK

\* The contract holds at least what its books say remains, whatever mix of
\* payouts, single releases and triggered releases reduced them and whatever
\* was sent to it past them.  What a recipient got is in the payout history, but
\* for schedules released one by one, which are in the release history instead:
\* the payout key's never are in both.
PoolIsBacked ==
    LET releasedBy(who) == {i \in Scheduled : schedules[i].by \in who}
    IN  /\ held >= remaining
        /\ \A r \in Recipients :
              /\ received[r] >= paid[r] + SchedulingTo(r, releasedBy({"key"}))
              /\ received[r] <= paid[r] + SchedulingTo(r, releasedBy({"key", "contract"}))

\* The release history has one entry for every released schedule, whichever of
\* three ways released it, and only the payout key's own release came early.
ReleasesAreRecorded ==
    \A i \in Ids :
        /\ entries[i] = IF schedules[i].released THEN 1 ELSE 0
        /\ schedules[i].by = "contract" => schedules[i].releasedAt >= schedules[i].at

\* A released schedule is never changed again, and the call that releases
\* schedules pays each recipient exactly what they say.
SchedulesPayOnce ==
    [][LET released == {i \in Pending : schedules'[i].released}
       IN  /\ \A i \in Scheduled \ Pending : schedules'[i] = schedules[i]
           /\ released # {} =>
                \A r \in Recipients : received'[r] = received[r] + SchedulingTo(r, released)]_vars

\* Five entry points and any number of schedules move one pool, and each of their calls
\* is one of the few things a pool may do: it takes a deposit, pays an award that the
\* books cover, makes a promise, or keeps open promises in full, each once, and pays
\* nobody anything else.
Promised ==
    [i \in Ids |-> [stage |-> IF i \notin Scheduled THEN "None"
                             ELSE IF schedules[i].released THEN "Kept" ELSE "Open",
                    to |-> schedules[i].recipient,
                    amount |-> schedules[i].amount]]

Pool == INSTANCE PrizePool WITH Promises <- Ids, fund <- totalFunds, left <- remaining,
                                promises <- Promised

KeepsPool == Pool!Spec

\* Every control stops what it is there to stop, at all of the five ways to pay
\* and whatever was scheduled before: a dispute what it covers, the whitelist
\* who is off it, an open circuit everything, and a pause or an old governance
\* contract everything but schedules.  No call closes an open circuit.
ControlsHold ==
    [][/\ \A r \in Recipients : received'[r] # received[r] =>
             ~globalDispute /\ r \notin recipientDisputes /\ (enforced => r \in whitelist)
       /\ \A i \in scheduleDisputes : schedules'[i].released = schedules[i].released
       /\ circuit = "Open" => received' = received /\ circuit' # "Closed"
       /\ paused.release \/ ~govOk =>
             \A r \in Recipients : received'[r] = received[r]
                 + SchedulingTo(r, {i \in Pending : schedules'[i].released})]_vars

\* A trigger succeeds whenever something is due and the remaining balance covers
\* what it would release: schedules that are skipped use up none of its bound, and
\* the token never has less than the books, whatever reduced them.
DueCanBeReleased ==
    Due # {} /\ CheckAndAllow /\ ~globalDispute /\ Covered <=> ENABLED <<TriggerReleases>>_vars

\* A schedule that is due and stopped by nothing is released in the end, if
\* the pool covers what is due with it.
DueIsReleased ==
    \A i \in Ids :
        (i \in Pending /\ now >= schedules[i].at)
            ~> \/ i \notin Pending \/ ~Free(i) \/ ~Payable(schedules[i].recipient)
               \/ globalDispute \/ ~CheckAndAllow \/ ~Covered
=============================================================================
