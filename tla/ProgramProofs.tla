---------------------------- MODULE ProgramProofs ----------------------------
(***************************************************************************)
(* Theorems about ProgramEscrow and ProgramViews, for every value of their *)
(* constants: the schedules, the pool and its payment history, the views,  *)
(* and the controls.                                                       *)
(***************************************************************************)
EXTENDS ProgramViews, DataProofs, Descent

\* The part of the types that schedules need.
SchedulesTyped ==
    /\ now \in Nat
    /\ schedules \in [Ids -> Schedule]
    /\ nextId \in 1 .. MaxSchedules + 1
    /\ entries \in [Ids -> Nat]

\* An id that was not given out yet has no released schedule.
UnusedIsUnreleased == \A i \in Ids : i >= nextId => ~schedules[i].released

ScheduleInv == SchedulesTyped /\ UnusedIsUnreleased /\ ReleasesAreRecorded

\* What the three ways of releasing have in common
Releases(I, by) ==
    /\ I \subseteq Pending
    /\ by \in {"key", "contract"}
    /\ by = "contract" => \A i \in I : IsDue(i)
    /\ Release(I, by)

\* Ids that are in use are ids.
LEMMA ScheduledAreIds == ASSUME SchedulesTyped PROVE Scheduled \subseteq Ids
<1>1. MaxSchedules \in Nat /\ nextId \in 1 .. MaxSchedules + 1
    BY BoundsAssumption DEF SchedulesTyped
<1> QED BY <1>1 DEF Scheduled, Ids

\* A release changes the schedules it releases, and no other.
LEMMA ReleaseChanges ==
    ASSUME SchedulesTyped, NEW I, NEW by, Releases(I, by), NEW i \in Ids
    PROVE  /\ i \in I => /\ schedules'[i] \in Schedule
                         /\ schedules'[i].released /\ schedules'[i].by = by
                         /\ schedules'[i].releasedAt = now
                         /\ schedules'[i].at = schedules[i].at
                         /\ schedules'[i].recipient = schedules[i].recipient
                         /\ schedules'[i].amount = schedules[i].amount
                         /\ entries'[i] = entries[i] + 1
           /\ i \notin I => schedules'[i] = schedules[i] /\ entries'[i] = entries[i]
<1>1. schedules[i] \in Schedule /\ now \in Nat /\ by \in {"key", "contract"}
    BY DEF SchedulesTyped, Releases
<1>2. schedules'[i] = IF i \in I
                      THEN [schedules[i] EXCEPT !.released = TRUE, !.releasedAt = now, !.by = by]
                      ELSE schedules[i]
    BY DEF Releases, Release
<1>3. entries'[i] = IF i \in I THEN entries[i] + 1 ELSE entries[i]
    BY DEF Releases, Release
<1>4. CASE i \in I
  <2> DEFINE s == [schedules[i] EXCEPT !.released = TRUE, !.releasedAt = now, !.by = by]
  <2>1. /\ s \in Schedule /\ s.released /\ s.by = by /\ s.releasedAt = now
        /\ s.at = schedules[i].at
        /\ s.recipient = schedules[i].recipient /\ s.amount = schedules[i].amount
      BY <1>1 DEF Schedule
  <2>2. schedules'[i] = s
      BY <1>2, <1>4
  <2> HIDE DEF s
  <2> QED BY <1>3, <1>4, <2>1, <2>2
<1>5. CASE i \notin I
    BY <1>2, <1>3, <1>5
<1> QED BY <1>4, <1>5

\* What is pending and becomes released is what the release was given.
LEMMA ReleasedSet ==
    ASSUME SchedulesTyped, NEW I, NEW by, Releases(I, by)
    PROVE  {i \in Pending : schedules'[i].released} = I
<1>1. I \subseteq Pending /\ Pending \subseteq Ids
    BY ScheduledAreIds DEF Releases, Pending
<1>2. \A i \in Pending : i \notin I => schedules'[i] = schedules[i]
    BY <1>1, ReleaseChanges
<1>3. \A i \in I : schedules'[i].released
    BY <1>1, ReleaseChanges
<1> QED BY <1>1, <1>2, <1>3 DEF Pending

\* Each way of releasing is a release of schedules that are pending.
LEMMA WaysOfReleasing ==
    /\ \A i \in Ids : ReleaseManual(i) => Releases({i}, "key")
    /\ \A i \in Ids : ReleaseAutomatic(i) => Releases({i}, "contract")
    /\ TriggerReleases => Releases(Triggered, "contract")
BY DEF ReleaseManual, ReleaseAutomatic, TriggerReleases, Releases, Releasable, Triggered, Due

\* A step creates a schedule, releases some, or leaves all alone.
LEMMA StepsOnSchedules ==
    ASSUME [Next]_vars
    PROVE  \/ \E r \in Recipients, amount \in Amounts, at \in ReleaseTimes :
                 CreateSchedule(r, amount, at)
           \/ \E I, by : Releases(I, by)
           \/ UNCHANGED scheduleVars /\ (Tick \/ UNCHANGED now)
<1>1. CASE \E i \in Ids : ReleaseManual(i) \/ ReleaseAutomatic(i)
    BY <1>1, WaysOfReleasing
<1>2. CASE TriggerReleases
    BY <1>2, WaysOfReleasing
<1>3. CASE \E amount \in Amounts : LockProgramFunds(amount)
    BY <1>3 DEF LockProgramFunds
<1>4. CASE \E n \in 1 .. MaxBatch :
               \E recipients \in [1 .. n -> Recipients], amounts \in [1 .. n -> Amounts] :
                   BatchPayout(recipients, amounts)
    BY <1>4 DEF BatchPayout
<1>5. CASE OpenDispute \/ CloseDispute
    BY <1>5 DEF OpenDispute, CloseDispute
<1>6. CASE \/ \E lock, release \in BOOLEAN : SetPaused(lock, release)
           \/ \E r \in Recipients, whitelisted \in BOOLEAN : SetWhitelist(r, whitelisted)
           \/ \E enabled \in BOOLEAN : SetWhitelistEnforced(enabled)
           \/ GovernanceChanges
           \/ ControlCircuit
    BY <1>6 DEF SetPaused, SetWhitelist, SetWhitelistEnforced, GovernanceChanges, ControlCircuit
<1>7. CASE Gift \/ Tick
    BY <1>7 DEF Gift, Tick
<1>8. CASE \E r \in Recipients, amount \in Amounts : SinglePayout(r, amount)
    BY <1>8 DEF SinglePayout
<1>9. CASE UNCHANGED vars
    BY <1>9 DEF vars
<1> QED BY <1>1, <1>2, <1>3, <1>4, <1>5, <1>6, <1>7, <1>8, <1>9 DEF Next

-----------------------------------------------------------------------------
(* The inductive invariant *)

\* No schedule exists in the initial state.
LEMMA InitSchedules == Init => ScheduleInv
<1> SUFFICES ASSUME Init PROVE ScheduleInv
    OBVIOUS
<1>1. schedules \in [Ids -> Schedule] /\ entries \in [Ids -> Nat]
    BY DEF Init, NoSchedule, Schedule
<1>2. nextId \in 1 .. MaxSchedules + 1 /\ now \in Nat
    BY BoundsAssumption DEF Init
<1>3. \A i \in Ids : /\ ~schedules[i].released /\ schedules[i].by # "contract"
                     /\ entries[i] = 0
    BY DEF Init, NoSchedule, Nobody
<1> QED BY <1>1, <1>2, <1>3 DEF ScheduleInv, SchedulesTyped, UnusedIsUnreleased, ReleasesAreRecorded

\* A schedule that is created takes the next identifier and is not released.
LEMMA CreateKeepsSchedules ==
    ASSUME ScheduleInv, NEW r \in Recipients, NEW amount \in Amounts, NEW at \in ReleaseTimes,
           CreateSchedule(r, amount, at)
    PROVE  ScheduleInv'
<1> DEFINE s == [recipient |-> r, amount |-> amount, at |-> at,
                 released |-> FALSE, releasedAt |-> 0, by |-> Nobody]
<1>1. s \in Schedule /\ ~s.released /\ s.by # "contract"
  <2>1. amount \in Nat /\ at \in Nat
      BY AmountsAssumption
  <2> QED BY <2>1 DEF Schedule, Nobody
<1>2. nextId \in Ids /\ nextId' \in 1 .. MaxSchedules + 1
  <2>1. MaxSchedules \in Nat /\ nextId \in 1 .. MaxSchedules + 1 /\ nextId <= MaxSchedules
      BY BoundsAssumption DEF ScheduleInv, SchedulesTyped, CreateSchedule
  <2>2. nextId' = nextId + 1
      BY DEF CreateSchedule
  <2> QED BY <2>1, <2>2 DEF Ids
<1>3. /\ schedules' = [schedules EXCEPT ![nextId] = s]
      /\ nextId' = nextId + 1 /\ entries' = entries /\ now' = now
    BY DEF CreateSchedule
<1>4. SchedulesTyped'
    BY <1>1, <1>2, <1>3 DEF ScheduleInv, SchedulesTyped
<1>5. \A i \in Ids : schedules'[i] = IF i = nextId THEN s ELSE schedules[i]
    BY <1>2, <1>3 DEF ScheduleInv, SchedulesTyped
<1>6. UnusedIsUnreleased'
  <2>1. \A i \in Ids : i >= nextId + 1 => i >= nextId
      BY <1>2 DEF Ids
  <2> QED BY <1>1, <1>3, <1>5, <2>1 DEF ScheduleInv, UnusedIsUnreleased
<1>7. ReleasesAreRecorded'
  <2>1. entries[nextId] = 0
    <3>1. ~schedules[nextId].released
        BY <1>2 DEF ScheduleInv, UnusedIsUnreleased, Ids
    <3> QED BY <1>2, <3>1 DEF ScheduleInv, ReleasesAreRecorded
  <2> QED BY <1>1, <1>3, <1>5, <2>1 DEF ScheduleInv, ReleasesAreRecorded
<1> QED BY <1>4, <1>6, <1>7 DEF ScheduleInv

\* A release marks schedules that were not released, and enters each in the history once.
LEMMA ReleaseKeepsSchedules ==
    ASSUME ScheduleInv, NEW I, NEW by, Releases(I, by)
    PROVE  ScheduleInv'
<1>1. SchedulesTyped
    BY DEF ScheduleInv
<1>2. I \subseteq Ids /\ \A i \in I : ~schedules[i].released /\ i < nextId
  <2>1. I \subseteq Pending /\ nextId \in Int
      BY <1>1 DEF Releases, SchedulesTyped
  <2> QED BY <1>1, <2>1, ScheduledAreIds DEF Pending, Scheduled
<1>3. now' = now /\ nextId' = nextId
    BY DEF Releases, Release
<1>4. SchedulesTyped'
  <2>1. \A i \in Ids : schedules'[i] \in Schedule /\ entries'[i] \in Nat
      BY <1>1, ReleaseChanges DEF SchedulesTyped
  <2>2. /\ schedules' = [i \in Ids |-> schedules'[i]]
        /\ entries' = [i \in Ids |-> entries'[i]]
      BY DEF Releases, Release
  <2>3. schedules' \in [Ids -> Schedule] /\ entries' \in [Ids -> Nat]
      BY <2>1, <2>2
  <2> QED BY <1>1, <1>3, <2>3 DEF SchedulesTyped
<1>5. UnusedIsUnreleased'
  <2> SUFFICES ASSUME NEW i \in Ids, i >= nextId PROVE ~schedules'[i].released
      BY <1>3 DEF UnusedIsUnreleased
  <2>1. i \notin I
    <3>1. i \in Int /\ nextId \in Int
        BY <1>1 DEF Ids, SchedulesTyped
    <3> QED BY <1>2, <3>1
  <2>2. schedules'[i] = schedules[i]
      BY <1>1, <2>1, ReleaseChanges
  <2> QED BY <2>2 DEF ScheduleInv, UnusedIsUnreleased
<1>6. ReleasesAreRecorded'
  <2> SUFFICES ASSUME NEW i \in Ids
               PROVE  /\ entries'[i] = IF schedules'[i].released THEN 1 ELSE 0
                      /\ schedules'[i].by = "contract" =>
                            schedules'[i].releasedAt >= schedules'[i].at
      BY DEF ReleasesAreRecorded
  <2>1. CASE i \notin I
      BY <1>1, <2>1, ReleaseChanges DEF ScheduleInv, ReleasesAreRecorded
  <2>2. CASE i \in I
    <3>1. entries[i] = 0
        BY <1>2, <2>2 DEF ScheduleInv, ReleasesAreRecorded
    <3>2. by = "contract" => now >= schedules[i].at
        BY <2>2 DEF Releases, IsDue
    <3> QED BY <1>1, <2>2, <3>1, <3>2, ReleaseChanges
  <2> QED BY <2>1, <2>2
<1> QED BY <1>4, <1>5, <1>6 DEF ScheduleInv

\* Every operation keeps schedules and release history in agreement.
LEMMA StepKeepsSchedules == ScheduleInv /\ [Next]_vars => ScheduleInv'
<1> SUFFICES ASSUME ScheduleInv, [Next]_vars PROVE ScheduleInv'
    OBVIOUS
<1>1. CASE \E r \in Recipients, amount \in Amounts, at \in ReleaseTimes :
               CreateSchedule(r, amount, at)
    BY <1>1, CreateKeepsSchedules
<1>2. CASE \E I, by : Releases(I, by)
    BY <1>2, ReleaseKeepsSchedules
<1>3. CASE UNCHANGED scheduleVars /\ (Tick \/ UNCHANGED now)
  <2>1. now' \in Nat
      BY <1>3 DEF Tick, ScheduleInv, SchedulesTyped
  <2> QED BY <1>3, <2>1 DEF scheduleVars, ScheduleInv, SchedulesTyped, UnusedIsUnreleased,
                            ReleasesAreRecorded
<1> QED BY <1>1, <1>2, <1>3, StepsOnSchedules

\* So schedules and release history agree in every reachable state.
LEMMA SchedulesInvariant == Spec => []ScheduleInv
<1> QED BY InitSchedules, StepKeepsSchedules, PTL DEF Spec

-----------------------------------------------------------------------------
(* Theorems *)

\* The release history has exactly one entry for every released schedule, and
\* the contract never releases one before its time.
THEOREM ReleasesAreAlwaysRecorded == Spec => []ReleasesAreRecorded
<1>1. ScheduleInv => ReleasesAreRecorded
    BY DEF ScheduleInv
<1> QED BY <1>1, SchedulesInvariant, PTL

\* A released schedule never changes, and a call that releases schedules, one
\* or many, pays every recipient the sum of what they say.
THEOREM SchedulesAlwaysPayOnce == Spec => SchedulesPayOnce
<1> DEFINE Step ==
        LET released == {i \in Pending : schedules'[i].released}
        IN  /\ \A i \in Scheduled \ Pending : schedules'[i] = schedules[i]
            /\ released # {} =>
                 \A r \in Recipients : received'[r] = received[r] + SchedulingTo(r, released)
<1>1. ASSUME ScheduleInv, [Next]_vars PROVE Step
  <2>1. SchedulesTyped /\ Scheduled \subseteq Ids
      BY <1>1, ScheduledAreIds DEF ScheduleInv
  <2>2. CASE \E r \in Recipients, amount \in Amounts, at \in ReleaseTimes :
                 CreateSchedule(r, amount, at)
    <3>1. \A i \in Scheduled : schedules'[i] = schedules[i]
      <4>1. nextId \in Int /\ \A i \in Scheduled : i # nextId
          BY <2>1 DEF Scheduled, SchedulesTyped
      <4>2. \A i \in Ids : i # nextId => schedules'[i] = schedules[i]
          BY <2>1, <2>2 DEF CreateSchedule, SchedulesTyped
      <4> QED BY <2>1, <4>1, <4>2
    <3> QED BY <3>1 DEF Pending
  <2>3. CASE \E I, by : Releases(I, by)
    <3> PICK I, by : Releases(I, by)
        BY <2>3
    <3>1. I \subseteq Pending
        BY DEF Releases
    <3>2. \A i \in Scheduled : i \notin I => schedules'[i] = schedules[i]
        BY <2>1, ReleaseChanges
    <3>4. {i \in Pending : schedules'[i].released} = I
        BY <2>1, ReleasedSet
    <3>5. \A r \in Recipients : received'[r] = received[r] + SchedulingTo(r, I)
        BY DEF Releases, Release, Transfer
    <3> QED BY <3>1, <3>2, <3>4, <3>5 DEF Pending
  <2>4. CASE UNCHANGED scheduleVars
      BY <2>4 DEF scheduleVars, Pending
  <2> QED BY <1>1, <2>2, <2>3, <2>4, StepsOnSchedules
<1>2. (ScheduleInv /\ [Next]_vars) => [Step]_vars
    BY <1>1
<1> QED BY <1>2, SchedulesInvariant, PTL DEF Spec, SchedulesPayOnce

-----------------------------------------------------------------------------
(* Payments *)

\* A payment moves the total of what it pays from the pool to the recipients.
Pays(payment, total) ==
    /\ payment \in [Recipients -> Nat]
    /\ total \in Nat
    /\ Sum(payment, Recipients) = total
    /\ Transfer(payment)
    /\ remaining' = remaining - total
    /\ UNCHANGED <<now, totalFunds, nextId, disputeVars, controlVars>>
    /\ RecordSuccess

\* The invariant of the pool.  What was locked and does not remain is what the
\* recipients got; that the schedules a release pays are not among those that
\* are released already takes the link between released and released_by.
Locked == totalFunds - remaining = Sum(received, Recipients)

ReleasedHaveReleaser ==
    \A i \in Ids : schedules[i].by # Nobody <=> schedules[i].released

ScheduledHaveRecipient == \A i \in Scheduled : schedules[i].recipient \in Recipients

PoolInv ==
    /\ TypeOK
    /\ Locked
    /\ ReleasedHaveReleaser
    /\ ScheduledHaveRecipient
    /\ PoolIsBacked

\* TypeOK has the types the schedules need.
LEMMA TypesOfSchedules == TypeOK => SchedulesTyped
<1>1. TypeOK => now \in Nat
    BY BoundsAssumption DEF TypeOK
<1> QED BY <1>1 DEF TypeOK, SchedulesTyped

\* Sets of ids are finite, and what their schedules pay is a natural number.
LEMMA SchedulingType ==
    ASSUME SchedulesTyped, NEW I \in SUBSET Ids
    PROVE  /\ IsFiniteSet(I)
           /\ Scheduling(I) \in Nat
           /\ \A r : SchedulingTo(r, I) \in Nat
<1>1. IsFiniteSet(Ids)
    BY FS_Interval, BoundsAssumption DEF Ids
<1>2. \A J \in SUBSET Ids : IsFiniteSet(J)
    BY <1>1, FS_Subset
<1> DEFINE f == [i \in Ids |-> schedules[i].amount]
<1>3. \A i \in Ids : f[i] \in Nat
  <2>1. \A i \in Ids : schedules[i] \in Schedule
      BY DEF SchedulesTyped
  <2> QED BY <2>1 DEF Schedule
<1>4. \A J \in SUBSET Ids : Sum(f, J) \in Nat
  <2> HIDE DEF f
  <2> QED BY <1>2, <1>3, SumNat
<1>5. \A J \in SUBSET Ids : Scheduling(J) \in Nat
    BY <1>4 DEF Scheduling
<1>6. \A r : {i \in I : schedules[i].recipient = r} \in SUBSET Ids
    OBVIOUS
<1> QED BY <1>2, <1>5, <1>6 DEF SchedulingTo

\* What schedules pay to all recipients is what they pay.
LEMMA SchedulingGroups ==
    ASSUME SchedulesTyped, NEW I \in SUBSET Ids,
           \A i \in I : schedules[i].recipient \in Recipients
    PROVE  Sum([r \in Recipients |-> SchedulingTo(r, I)], Recipients) = Scheduling(I)
<1> DEFINE f == [i \in Ids |-> schedules[i].amount]
           k == [i \in Ids |-> schedules[i].recipient]
<1>1. IsFiniteSet(I)
    BY SchedulingType
<1>2. \A i \in I : f[i] \in Int /\ k[i] \in Recipients
  <2>1. \A i \in I : schedules[i] \in Schedule
      BY DEF SchedulesTyped
  <2> QED BY <2>1 DEF Schedule
<1>3. ASSUME NEW r \in Recipients
      PROVE  SchedulingTo(r, I) = Sum(f, {i \in I : k[i] = r})
  <2>1. {i \in I : schedules[i].recipient = r} = {i \in I : k[i] = r}
      OBVIOUS
  <2> QED BY <2>1, Zenon DEF SchedulingTo, Scheduling
<1>4. [r \in Recipients |-> SchedulingTo(r, I)] =
      [r \in Recipients |-> Sum(f, {i \in I : k[i] = r})]
    BY <1>3
<1>5. Scheduling(I) = Sum(f, I)
    BY DEF Scheduling
<1> HIDE DEF f, k
<1>6. Sum([r \in Recipients |-> Sum(f, {i \in I : k[i] = r})], Recipients) = Sum(f, I)
    BY <1>1, <1>2, SumGroups, RecipientsAssumption
<1> QED BY <1>4, <1>5, <1>6, Zenon

\* What the payments of a batch add up to is what its amounts add up to.
LEMMA BatchPays ==
    ASSUME TypeOK, NEW n \in 1 .. MaxBatch, NEW recipients \in [1 .. n -> Recipients],
           NEW amounts \in [1 .. n -> Amounts], BatchPayout(recipients, amounts)
    PROVE  \E payment, total :
              /\ Pays(payment, total) /\ total <= remaining
              /\ paid' = [r \in Recipients |-> paid[r] + payment[r]]
              /\ UNCHANGED scheduleVars
<1> DEFINE payment == [r \in Recipients |-> Sum(amounts, {i \in DOMAIN recipients : recipients[i] = r})]
           total == Sum(amounts, DOMAIN amounts)
<1>1. n \in Nat /\ IsFiniteSet(1 .. n) /\ DOMAIN recipients = 1 .. n /\ DOMAIN amounts = 1 .. n
    BY FS_Interval, BoundsAssumption
<1>2. \A i \in 1 .. n : amounts[i] \in Nat
    BY AmountsAssumption
<1>3. total \in Nat
  <2>1. Sum(amounts, 1 .. n) \in Nat
      BY <1>1, <1>2, SumNat
  <2> QED BY <1>1, <2>1, Zenon
<1>4. \A r \in Recipients : payment[r] \in Nat
  <2> SUFFICES ASSUME NEW r \in Recipients PROVE Sum(amounts, {i \in 1 .. n : recipients[i] = r}) \in Nat
      BY <1>1
  <2>1. IsFiniteSet({i \in 1 .. n : recipients[i] = r})
      BY <1>1, FS_Subset
  <2> QED BY <1>2, <2>1, SumNat
<1>5. Sum(payment, Recipients) = total
  <2>1. Sum([r \in Recipients |-> Sum(amounts, {i \in 1 .. n : recipients[i] = r})], Recipients)
            = Sum(amounts, 1 .. n)
    <3> DEFINE S == 1 .. n
    <3>1. IsFiniteSet(S) /\ IsFiniteSet(Recipients)
        BY <1>1, RecipientsAssumption
    <3>2. \A i \in S : amounts[i] \in Int
        BY <1>2
    <3>3. \A i \in S : recipients[i] \in Recipients
        OBVIOUS
    <3> HIDE DEF S, payment, total
    <3>4. Sum([r \in Recipients |-> Sum(amounts, {i \in S : recipients[i] = r})], Recipients)
              = Sum(amounts, S)
        BY <3>1, <3>2, <3>3, SumGroups
    <3> QED BY <3>4 DEF S
  <2>2. payment = [r \in Recipients |-> Sum(amounts, {i \in 1 .. n : recipients[i] = r})]
      BY <1>1
  <2> QED BY <1>1, <2>1, <2>2, Zenon
<1>6. /\ Transfer(payment) /\ remaining' = remaining - total /\ total <= remaining
      /\ RecordSuccess
      /\ paid' = [r \in Recipients |-> paid[r] + payment[r]]
      /\ UNCHANGED <<now, totalFunds, scheduleVars, disputeVars, controlVars>>
    BY DEF BatchPayout
<1>7. payment \in [Recipients -> Nat]
    BY <1>4
<1> HIDE DEF payment, total
<1>8. Pays(payment, total)
    BY <1>3, <1>5, <1>6, <1>7 DEF Pays, scheduleVars
<1> QED BY <1>6, <1>8

\* A single payout pays its amount.
LEMMA SinglePays ==
    ASSUME TypeOK, NEW recipient \in Recipients, NEW amount \in Amounts,
           SinglePayout(recipient, amount)
    PROVE  \E payment, total :
              /\ Pays(payment, total) /\ total <= remaining
              /\ paid' = [r \in Recipients |-> paid[r] + payment[r]]
              /\ UNCHANGED scheduleVars
<1> DEFINE payment == [r \in Recipients |-> IF r = recipient THEN amount ELSE 0]
<1>1. amount \in Nat
    BY AmountsAssumption
<1>2. payment \in [Recipients -> Nat]
    BY <1>1
<1>3. Sum(payment, Recipients) = amount
  <2> DEFINE none == [r \in Recipients |-> 0]
  <2>1. /\ \A r \in Recipients : none[r] = 0 /\ payment[r] \in Int
        /\ payment[recipient] = amount
        /\ \A r \in Recipients \ {recipient} : payment[r] = none[r]
      BY <1>1
  <2> HIDE DEF none, payment
  <2>2. Sum(none, Recipients) = 0
      BY <2>1, SumZero, RecipientsAssumption
  <2>3. \A r \in Recipients : none[r] \in Int
      BY <2>1
  <2>4. Sum(payment, Recipients) = Sum(none, Recipients) + (payment[recipient] - none[recipient])
      BY <2>1, <2>3, SumChange, RecipientsAssumption
  <2> QED BY <1>1, <2>1, <2>2, <2>4
<1>4. paid' = [r \in Recipients |-> paid[r] + payment[r]]
  <2>1. paid \in [Recipients -> Nat] /\ paid' = [paid EXCEPT ![recipient] = @ + amount]
      BY DEF TypeOK, SinglePayout
  <2>2. DOMAIN paid' = Recipients /\ \A r \in Recipients : paid'[r] = paid[r] + payment[r]
      BY <1>1, <2>1
  <2>3. paid' = [r \in Recipients |-> paid'[r]]
      BY <2>1
  <2> HIDE DEF payment
  <2> QED BY <2>2, <2>3
<1>5. /\ Transfer(payment) /\ remaining' = remaining - amount /\ amount <= remaining
      /\ RecordSuccess
      /\ UNCHANGED <<now, totalFunds, scheduleVars, disputeVars, controlVars>>
    BY DEF SinglePayout
<1> HIDE DEF payment
<1>6. Pays(payment, amount)
    BY <1>1, <1>2, <1>3, <1>5 DEF Pays, scheduleVars
<1> QED BY <1>4, <1>5, <1>6

\* A release pays what its schedules say.
LEMMA ReleasePays ==
    ASSUME TypeOK, ScheduledHaveRecipient, NEW I, NEW by, Releases(I, by)
    PROVE  Pays([r \in Recipients |-> SchedulingTo(r, I)], Scheduling(I))
<1>1. SchedulesTyped /\ I \in SUBSET Ids /\ \A i \in I : schedules[i].recipient \in Recipients
    BY TypesOfSchedules, ScheduledAreIds DEF Releases, Pending, ScheduledHaveRecipient
<1>2. /\ Scheduling(I) \in Nat
      /\ [r \in Recipients |-> SchedulingTo(r, I)] \in [Recipients -> Nat]
    BY <1>1, SchedulingType
<1>3. Sum([r \in Recipients |-> SchedulingTo(r, I)], Recipients) = Scheduling(I)
    BY <1>1, SchedulingGroups
<1> QED BY <1>2, <1>3 DEF Releases, Release, Booked, Pays

\* What a payment does to the pool.
LEMMA PaymentKeepsPool ==
    ASSUME TypeOK, Locked, held >= remaining, NEW payment, NEW total, Pays(payment, total)
    PROVE  /\ held' \in Nat /\ remaining' \in Int
           /\ received' \in [Recipients -> Nat]
           /\ \A r \in Recipients : received'[r] = received[r] + payment[r]
           /\ Locked' /\ held' >= remaining'
<1>1. /\ payment \in [Recipients -> Nat] /\ total \in Nat
      /\ Sum(payment, Recipients) = total
      /\ total <= held /\ held' = held - total
      /\ received' = [r \in Recipients |-> received[r] + payment[r]]
      /\ remaining' = remaining - total /\ totalFunds' = totalFunds
  <2>1. Sum(payment, Recipients) = total /\ Transfer(payment)
      BY DEF Pays
  <2> QED BY <2>1, Zenon DEF Pays, Transfer
<1>2. /\ held \in Nat /\ remaining \in Int /\ totalFunds \in Int
      /\ received \in [Recipients -> Nat]
    BY DEF TypeOK
<1>3. \A r \in Recipients : received'[r] = received[r] + payment[r]
    BY <1>1
<1>4. received' \in [Recipients -> Nat]
    BY <1>1, <1>2
<1>5. Sum(received', Recipients) = Sum(received, Recipients) + Sum(payment, Recipients)
  <2>1. \A r \in Recipients : received[r] \in Int /\ payment[r] \in Int
      BY <1>1, <1>2
  <2> QED BY <1>3, <2>1, SumPlus, RecipientsAssumption
<1>6. Locked'
  <2>1. totalFunds - remaining = Sum(received, Recipients)
      BY DEF Locked
  <2>2. totalFunds' - remaining' = Sum(received', Recipients)
      BY <1>1, <1>2, <1>5, <2>1
  <2> QED BY <2>2 DEF Locked
<1> QED BY <1>1, <1>2, <1>3, <1>4, <1>6

\* What a set of schedules pays to a recipient depends on these schedules only.
LEMMA SchedulingKept ==
    ASSUME SchedulesTyped, NEW J \in SUBSET Ids, NEW r,
           \A i \in J : /\ schedules'[i].amount = schedules[i].amount
                        /\ schedules'[i].recipient = schedules[i].recipient
    PROVE  SchedulingTo(r, J)' = SchedulingTo(r, J)
<1> DEFINE f == [i \in Ids |-> schedules[i].amount]
           g == [i \in Ids |-> schedules'[i].amount]
           K == {i \in J : schedules[i].recipient = r}
<1>1. K \subseteq Ids /\ {i \in J : schedules'[i].recipient = r} = K
    OBVIOUS
<1>2. IsFiniteSet(K)
    BY <1>1, SchedulingType
<1>3. \A i \in K : f[i] \in Int /\ g[i] = f[i]
  <2>1. \A i \in J : schedules[i] \in Schedule
      BY DEF SchedulesTyped
  <2> QED BY <2>1 DEF Schedule
<1>4. SchedulingTo(r, J) = Sum(f, K) /\ SchedulingTo(r, J)' = Sum(g, K)
    BY <1>1, Zenon DEF SchedulingTo, Scheduling
<1> HIDE DEF f, g, K
<1>5. Sum(g, K) = Sum(f, K)
    BY <1>2, <1>3, SumEqual
<1> QED BY <1>4, <1>5

\* Sets of schedules with nothing in common pay what each of them pays.
LEMMA SchedulingUnion ==
    ASSUME SchedulesTyped, NEW J \in SUBSET Ids, NEW I \in SUBSET Ids, J \cap I = {}, NEW r
    PROVE  SchedulingTo(r, J \cup I) = SchedulingTo(r, J) + SchedulingTo(r, I)
<1> DEFINE f == [i \in Ids |-> schedules[i].amount]
           of(K) == {i \in K : schedules[i].recipient = r}
           S == of(J \cup I)
           R == of(J)
<1>1. S \in SUBSET Ids /\ R \in SUBSET S /\ S \ R = of(I)
    OBVIOUS
<1>2. IsFiniteSet(S)
    BY <1>1, SchedulingType
<1>3. \A i \in S : f[i] \in Int
  <2>1. \A i \in Ids : schedules[i] \in Schedule
      BY DEF SchedulesTyped
  <2> QED BY <2>1 DEF Schedule
<1>4. \A K : SchedulingTo(r, K) = Sum(f, of(K))
    BY Zenon DEF SchedulingTo, Scheduling
<1>5. /\ SchedulingTo(r, J \cup I) = Sum(f, S) /\ SchedulingTo(r, J) = Sum(f, R)
      /\ SchedulingTo(r, I) = Sum(f, of(I))
    BY <1>4, Zenon
<1> HIDE DEF f, of, S, R
<1>6. Sum(f, S) = Sum(f, R) + Sum(f, S \ R)
    BY <1>1, <1>2, <1>3, SumSplit
<1> QED BY <1>1, <1>5, <1>6, Zenon

ReleasedBy(who) == {i \in Scheduled : schedules[i].by \in who}

\* A release adds what it pays to what its releaser has released.
LEMMA ReleaseAdds ==
    ASSUME SchedulesTyped, ReleasedHaveReleaser, NEW I, NEW by, Releases(I, by),
           NEW who \in SUBSET {"key", "contract"}, NEW r
    PROVE  SchedulingTo(r, ReleasedBy(who))' =
               SchedulingTo(r, ReleasedBy(who)) + (IF by \in who THEN SchedulingTo(r, I) ELSE 0)
<1> PICK J : J = ReleasedBy(who)
    OBVIOUS
<1>1. /\ I \subseteq Pending /\ Pending \subseteq Scheduled /\ Scheduled \subseteq Ids
      /\ by \in {"key", "contract"}
      /\ Scheduled' = Scheduled
    BY ScheduledAreIds DEF Releases, Release, Pending, Scheduled
<1>2. I \in SUBSET Ids /\ J \in SUBSET Ids
    BY <1>1 DEF ReleasedBy
<1>3. J \cap I = {}
  <2>1. \A i \in I : schedules[i].by = Nobody
      BY <1>1, <1>2 DEF Pending, ReleasedHaveReleaser
  <2> QED BY <2>1 DEF ReleasedBy, Nobody
<1>4. \A i \in Ids : /\ schedules'[i].by = IF i \in I THEN by ELSE schedules[i].by
                     /\ schedules'[i].amount = schedules[i].amount
                     /\ schedules'[i].recipient = schedules[i].recipient
    BY ReleaseChanges
<1>5. ReleasedBy(who)' = {i \in Scheduled' : schedules'[i].by \in who}
    BY DEF ReleasedBy
<1>6. SchedulingTo(r, J) \in Nat
    BY <1>2, SchedulingType
<1>7. CASE by \in who
  <2>1. ReleasedBy(who)' = J \cup I
      BY <1>1, <1>2, <1>4, <1>5, <1>7 DEF ReleasedBy
  <2>2. J \cup I \in SUBSET Ids
      BY <1>2
  <2>3. SchedulingTo(r, J \cup I)' = SchedulingTo(r, J \cup I)
      BY <1>4, <2>2, SchedulingKept
  <2>4. SchedulingTo(r, J \cup I) = SchedulingTo(r, J) + SchedulingTo(r, I)
      BY <1>2, <1>3, SchedulingUnion
  <2>5. SchedulingTo(r, ReleasedBy(who))' = SchedulingTo(r, J \cup I)'
      BY <2>1, Zenon DEF SchedulingTo, Scheduling
  <2> QED BY <1>7, <2>3, <2>4, <2>5
<1>8. CASE by \notin who
  <2>1. ReleasedBy(who)' = J
      BY <1>1, <1>2, <1>3, <1>4, <1>5, <1>8 DEF ReleasedBy
  <2>2. SchedulingTo(r, J)' = SchedulingTo(r, J)
      BY <1>2, <1>4, SchedulingKept
  <2>3. SchedulingTo(r, ReleasedBy(who))' = SchedulingTo(r, J)'
      BY <2>1, Zenon DEF SchedulingTo, Scheduling
  <2> QED BY <1>6, <1>8, <2>2, <2>3
<1> QED BY <1>7, <1>8

\* A new schedule is released by nobody, so it adds nothing.
LEMMA CreateAddsNothing ==
    ASSUME SchedulesTyped, NEW s, s.by = Nobody,
           NEW who \in SUBSET {"key", "contract"}, NEW r, nextId \in Ids,
           schedules' = [schedules EXCEPT ![nextId] = s], nextId' = nextId + 1
    PROVE  SchedulingTo(r, ReleasedBy(who))' = SchedulingTo(r, ReleasedBy(who))
<1> PICK J : J = ReleasedBy(who)
    OBVIOUS
<1>1. Scheduled \subseteq Ids /\ nextId \in Nat /\ Scheduled = 1 .. nextId - 1
    BY ScheduledAreIds DEF Ids, Scheduled
<1>2. \A i \in Ids : schedules'[i] = IF i = nextId THEN s ELSE schedules[i]
    BY DEF SchedulesTyped
<1>3. J \in SUBSET Ids /\ nextId \notin J
    BY <1>1 DEF ReleasedBy
<1>4. Scheduled' = Scheduled \cup {nextId}
  <2>1. nextId >= 1
      BY DEF Ids
  <2> QED BY <1>1, <2>1 DEF Scheduled
<1>5. ReleasedBy(who)' = {i \in Scheduled' : schedules'[i].by \in who}
    BY DEF ReleasedBy
<1>6. ReleasedBy(who)' = J
    BY <1>1, <1>2, <1>3, <1>4, <1>5 DEF ReleasedBy, Nobody
<1>7. SchedulingTo(r, J)' = SchedulingTo(r, J)
    BY <1>2, <1>3, SchedulingKept
<1>8. SchedulingTo(r, ReleasedBy(who))' = SchedulingTo(r, J)'
    BY <1>6, Zenon DEF SchedulingTo, Scheduling
<1> QED BY <1>7, <1>8

-----------------------------------------------------------------------------
(* Types *)

\* The part of the types that is about neither tokens nor schedules.
RestTyped ==
    /\ now \in 0 .. MaxTime
    /\ globalDispute \in BOOLEAN
    /\ recipientDisputes \subseteq Recipients /\ scheduleDisputes \subseteq Scheduled
    /\ paused \in [lock : BOOLEAN, release : BOOLEAN]
    /\ enforced \in BOOLEAN /\ whitelist \subseteq Recipients /\ govOk \in BOOLEAN
    /\ CircuitTypeOK

\* Every call of the circuit breaker keeps its types.
LEMMA CircuitStep ==
    ASSUME CircuitTypeOK,
           RecordSuccess \/ ControlCircuit \/ UNCHANGED circuitVars
    PROVE  CircuitTypeOK'
<1>1. CASE RecordSuccess
    BY <1>1 DEF CircuitTypeOK, RecordSuccess, MoveTo, CircuitState, circuitVars
<1>2. CASE ControlCircuit
    BY <1>2 DEF CircuitTypeOK, ControlCircuit, EmergencyOpen, ResetCircuit, ConfigureCircuit,
                MoveTo, CircuitState
<1>3. CASE UNCHANGED circuitVars
    BY <1>3 DEF CircuitTypeOK, circuitVars
<1> QED BY <1>1, <1>2, <1>3

\* Every operation keeps the types of the state beside the schedules.
LEMMA RestStep ==
    ASSUME RestTyped, SchedulesTyped, [Next]_vars
    PROVE  RestTyped'
<1>1. ASSUME UNCHANGED <<now, nextId, disputeVars, controlVars>>,
             RecordSuccess \/ UNCHANGED circuitVars
      PROVE  RestTyped'
  <2>1. CircuitTypeOK'
      BY <1>1, CircuitStep DEF RestTyped
  <2> QED BY <1>1, <2>1 DEF RestTyped, disputeVars, controlVars, Scheduled
<1>2. ASSUME NEW r \in Recipients, NEW amount \in Amounts, NEW at \in ReleaseTimes,
             CreateSchedule(r, amount, at)
      PROVE  RestTyped'
  <2>1. Scheduled \subseteq Scheduled'
    <3>1. nextId \in Int /\ nextId' = nextId + 1
        BY <1>2 DEF CreateSchedule, SchedulesTyped
    <3> QED BY <3>1 DEF Scheduled
  <2>2. UNCHANGED <<now, disputeVars, controlVars, circuitVars>>
      BY <1>2 DEF CreateSchedule
  <2>3. CircuitTypeOK'
      BY <2>2, CircuitStep DEF RestTyped
  <2> QED BY <2>1, <2>2, <2>3 DEF RestTyped, disputeVars, controlVars
<1>3. ASSUME UNCHANGED <<nextId, circuitVars>>,
             \/ OpenDispute \/ CloseDispute
             \/ \E lock, release \in BOOLEAN : SetPaused(lock, release)
             \/ \E r \in Recipients, whitelisted \in BOOLEAN : SetWhitelist(r, whitelisted)
             \/ \E enabled \in BOOLEAN : SetWhitelistEnforced(enabled)
             \/ GovernanceChanges
      PROVE  RestTyped'
  <2>1. CircuitTypeOK' /\ Scheduled' = Scheduled
      BY <1>3, CircuitStep DEF RestTyped, Scheduled
  <2>2. CASE OpenDispute
      BY <2>1, <2>2 DEF RestTyped, OpenDispute, controlVars, Disputable
  <2>3. CASE CloseDispute
      BY <2>1, <2>3 DEF RestTyped, CloseDispute, controlVars
  <2>4. ASSUME NEW lock \in BOOLEAN, NEW release \in BOOLEAN, SetPaused(lock, release)
        PROVE  RestTyped'
      BY <2>1, <2>4 DEF RestTyped, SetPaused, disputeVars
  <2>5. ASSUME NEW r \in Recipients, NEW whitelisted \in BOOLEAN, SetWhitelist(r, whitelisted)
        PROVE  RestTyped'
      BY <2>1, <2>5 DEF RestTyped, SetWhitelist, disputeVars
  <2>6. ASSUME NEW enabled \in BOOLEAN, SetWhitelistEnforced(enabled) PROVE RestTyped'
      BY <2>1, <2>6 DEF RestTyped, SetWhitelistEnforced, disputeVars
  <2>7. CASE GovernanceChanges
      BY <2>1, <2>7 DEF RestTyped, GovernanceChanges, disputeVars
  <2> QED BY <1>3, <2>2, <2>3, <2>4, <2>5, <2>6, <2>7
<1>4. CASE ControlCircuit
  <2>1. CircuitTypeOK'
      BY <1>4, CircuitStep DEF RestTyped
  <2> QED BY <1>4, <2>1 DEF RestTyped, ControlCircuit, disputeVars, controlVars, scheduleVars, Scheduled
<1>5. CASE Tick
  <2>1. CircuitTypeOK'
      BY <1>5, CircuitStep DEF RestTyped, Tick
  <2> QED BY <1>5, <2>1, BoundsAssumption DEF RestTyped, Tick, disputeVars, controlVars, scheduleVars, Scheduled
<1>6. CASE \/ \E amount \in Amounts : LockProgramFunds(amount)
           \/ Gift \/ UNCHANGED vars
    BY <1>1, <1>6 DEF LockProgramFunds, Gift, vars, scheduleVars
<1>7. CASE \/ \E n \in 1 .. MaxBatch :
                  \E recipients \in [1 .. n -> Recipients], amounts \in [1 .. n -> Amounts] :
                      BatchPayout(recipients, amounts)
           \/ \E r \in Recipients, amount \in Amounts : SinglePayout(r, amount)
    BY <1>1, <1>7 DEF BatchPayout, SinglePayout, scheduleVars
<1>8. CASE (\E i \in Ids : ReleaseManual(i) \/ ReleaseAutomatic(i)) \/ TriggerReleases
    BY <1>1, <1>8 DEF ReleaseManual, ReleaseAutomatic, TriggerReleases, Release
<1>9. CASE \E r \in Recipients, amount \in Amounts, at \in ReleaseTimes : CreateSchedule(r, amount, at)
    BY <1>2, <1>9
<1>10. CASE \/ OpenDispute \/ CloseDispute
            \/ \E lock, release \in BOOLEAN : SetPaused(lock, release)
            \/ \E r \in Recipients, whitelisted \in BOOLEAN : SetWhitelist(r, whitelisted)
            \/ \E enabled \in BOOLEAN : SetWhitelistEnforced(enabled)
            \/ GovernanceChanges
  <2>1. UNCHANGED <<nextId, circuitVars>>
      BY <1>10 DEF OpenDispute, CloseDispute, SetPaused, SetWhitelist, SetWhitelistEnforced,
                   GovernanceChanges, scheduleVars
  <2> QED BY <1>3, <1>10, <2>1
<1> QED BY <1>4, <1>5, <1>6, <1>7, <1>8, <1>9, <1>10 DEF Next

-----------------------------------------------------------------------------
(* The pool *)

\* What each recipient got is in the histories.
Receipts ==
    \A r \in Recipients :
        /\ received[r] >= paid[r] + SchedulingTo(r, ReleasedBy({"key"}))
        /\ received[r] <= paid[r] + SchedulingTo(r, ReleasedBy({"key", "contract"}))

\* The pool is backed just when the balance covers what remains and the receipts add up.
LEMMA BackedParts == PoolIsBacked <=> held >= remaining /\ Receipts
BY DEF PoolIsBacked, Receipts, ReleasedBy

\* Releasers release sets of ids, so what they released pays a natural number.
LEMMA ReleasedByType ==
    ASSUME SchedulesTyped, NEW who, NEW r
    PROVE  SchedulingTo(r, ReleasedBy(who)) \in Nat
<1> PICK J : J = ReleasedBy(who)
    OBVIOUS
<1>1. J \in SUBSET Ids
    BY ScheduledAreIds DEF ReleasedBy
<1> QED BY <1>1, SchedulingType

\* A release keeps the receipts explained, when the history of payouts gets all
\* it pays, or nothing of it.
LEMMA ReleaseKeepsReceipts ==
    ASSUME TypeOK, PoolInv, NEW I, NEW by, Releases(I, by),
           \/ UNCHANGED paid
           \/ by = "contract" /\ paid' = [r \in Recipients |-> paid[r] + SchedulingTo(r, I)]
    PROVE  Receipts' /\ paid' \in [Recipients -> Nat]
<1>1. /\ SchedulesTyped /\ I \in SUBSET Ids
      /\ paid \in [Recipients -> Nat] /\ received \in [Recipients -> Nat]
    BY TypesOfSchedules, ScheduledAreIds DEF TypeOK, Releases, Pending
<1>2. ASSUME NEW r \in Recipients
      PROVE  /\ received'[r] >= paid'[r] + SchedulingTo(r, ReleasedBy({"key"}))'
             /\ received'[r] <= paid'[r] + SchedulingTo(r, ReleasedBy({"key", "contract"}))'
             /\ paid'[r] \in Nat
  <2> DEFINE x == SchedulingTo(r, I)
             k == SchedulingTo(r, ReleasedBy({"key"}))
             a == SchedulingTo(r, ReleasedBy({"key", "contract"}))
  <2>1. x \in Nat /\ k \in Nat /\ a \in Nat /\ received[r] \in Nat /\ paid[r] \in Nat
      BY <1>1, SchedulingType, ReleasedByType
  <2>2. received[r] >= paid[r] + k /\ received[r] <= paid[r] + a
      BY BackedParts DEF PoolInv, Receipts
  <2>3. received'[r] = received[r] + x
      BY DEF Releases, Release, Transfer
  <2>4. by \in {"key", "contract"}
      BY DEF Releases
  <2>5. k' = k + (IF by \in {"key"} THEN x ELSE 0)
      BY <1>1, ReleaseAdds DEF PoolInv
  <2>6. a' = a + (IF by \in {"key", "contract"} THEN x ELSE 0)
      BY <1>1, ReleaseAdds DEF PoolInv
  <2>7. paid'[r] = paid[r] \/ (by = "contract" /\ paid'[r] = paid[r] + x)
      OBVIOUS
  <2> HIDE DEF x, k, a
  <2>8. /\ received'[r] >= paid'[r] + k' /\ received'[r] <= paid'[r] + a' /\ paid'[r] \in Nat
      BY <2>1, <2>2, <2>3, <2>4, <2>5, <2>6, <2>7
  <2> QED BY <2>8 DEF k, a
<1>3. paid' \in [Recipients -> Nat]
    BY <1>1, <1>2
<1> QED BY <1>2, <1>3 DEF Receipts

\* While schedules stay, what releasers released stays.
LEMMA ReceiptsKept ==
    ASSUME UNCHANGED scheduleVars, NEW who, NEW r
    PROVE  SchedulingTo(r, ReleasedBy(who))' = SchedulingTo(r, ReleasedBy(who))
BY DEF scheduleVars, SchedulingTo, Scheduling, ReleasedBy, Scheduled

\* A step that leaves the schedules alone keeps what is said about them.
LEMMA QuietSchedules ==
    ASSUME ReleasedHaveReleaser, ScheduledHaveRecipient, UNCHANGED scheduleVars
    PROVE  ReleasedHaveReleaser' /\ ScheduledHaveRecipient'
BY DEF ReleasedHaveReleaser, ScheduledHaveRecipient, scheduleVars, Scheduled

\* So does a release.
LEMMA ReleaseKeepsReleasers ==
    ASSUME SchedulesTyped, ReleasedHaveReleaser, ScheduledHaveRecipient,
           NEW I, NEW by, Releases(I, by)
    PROVE  ReleasedHaveReleaser' /\ ScheduledHaveRecipient'
<1>1. by # Nobody /\ Scheduled' = Scheduled /\ Scheduled \subseteq Ids
    BY ScheduledAreIds DEF Releases, Release, Nobody, Scheduled
<1>2. \A i \in Ids : /\ i \in I => schedules'[i].released /\ schedules'[i].by = by
                     /\ i \notin I => schedules'[i] = schedules[i]
                     /\ schedules'[i].recipient = schedules[i].recipient
    BY ReleaseChanges
<1>3. ReleasedHaveReleaser'
    BY <1>1, <1>2 DEF ReleasedHaveReleaser
<1>4. ScheduledHaveRecipient'
    BY <1>1, <1>2 DEF ScheduledHaveRecipient
<1> QED BY <1>3, <1>4

\* The types, put together from their parts.
LEMMA TypeParts ==
    TypeOK <=> /\ RestTyped
               /\ schedules \in [Ids -> Schedule] /\ nextId \in 1 .. MaxSchedules + 1
               /\ entries \in [Ids -> Nat]
               /\ totalFunds \in 0 .. MaxTotal
               /\ remaining \in Int /\ held \in Nat
               /\ paid \in [Recipients -> Nat] /\ received \in [Recipients -> Nat]
BY DEF TypeOK, RestTyped

Inv == PoolInv /\ ScheduleInv

\* What a step has to show beyond what every step does.
LEMMA PoolParts ==
    ASSUME Inv, [Next]_vars,
           totalFunds' \in 0 .. MaxTotal, remaining' \in Int, held' \in Nat,
           paid' \in [Recipients -> Nat], received' \in [Recipients -> Nat],
           Locked', held' >= remaining', Receipts',
           ReleasedHaveReleaser', ScheduledHaveRecipient'
    PROVE  Inv'
<1>1. ScheduleInv'
    BY StepKeepsSchedules DEF Inv
<1>2. RestTyped'
    BY RestStep, TypeParts, TypesOfSchedules DEF Inv, PoolInv
<1>3. TypeOK'
    BY <1>1, <1>2 DEF ScheduleInv, SchedulesTyped, TypeOK, RestTyped
<1>4. PoolIsBacked'
    BY DEF PoolIsBacked, Receipts, ReleasedBy
<1> QED BY <1>1, <1>3, <1>4 DEF Inv, PoolInv

\* A payment that no schedule asks for goes to the history of payouts.
LEMMA PayoutKeepsPool ==
    ASSUME Inv, [Next]_vars, NEW payment, NEW total, Pays(payment, total),
           paid' = [r \in Recipients |-> paid[r] + payment[r]],
           UNCHANGED scheduleVars
    PROVE  Inv'
<1>1. TypeOK /\ Locked /\ held >= remaining /\ Receipts /\ SchedulesTyped
      /\ ReleasedHaveReleaser /\ ScheduledHaveRecipient
    BY BackedParts, TypesOfSchedules DEF Inv, PoolInv
<1>2. /\ held' \in Nat /\ remaining' \in Int
      /\ received' \in [Recipients -> Nat]
      /\ \A r \in Recipients : received'[r] = received[r] + payment[r]
      /\ Locked' /\ held' >= remaining'
    BY <1>1, PaymentKeepsPool
<1>3. /\ payment \in [Recipients -> Nat] /\ totalFunds' = totalFunds
      /\ paid \in [Recipients -> Nat] /\ received \in [Recipients -> Nat]
      /\ totalFunds \in 0 .. MaxTotal
    BY <1>1 DEF Pays, TypeOK
<1>4. paid' \in [Recipients -> Nat]
    BY <1>3
<1>5. Receipts'
  <2> SUFFICES ASSUME NEW r \in Recipients
               PROVE  /\ received'[r] >= paid'[r] + SchedulingTo(r, ReleasedBy({"key"}))'
                      /\ received'[r] <= paid'[r] + SchedulingTo(r, ReleasedBy({"key", "contract"}))'
      BY DEF Receipts
  <2> DEFINE k == SchedulingTo(r, ReleasedBy({"key"}))
             a == SchedulingTo(r, ReleasedBy({"key", "contract"}))
  <2>1. k \in Nat /\ a \in Nat /\ k' = k /\ a' = a
      BY <1>1, ReleasedByType, ReceiptsKept
  <2>2. received[r] >= paid[r] + k /\ received[r] <= paid[r] + a
      BY <1>1 DEF Receipts
  <2>3. received'[r] = received[r] + payment[r] /\ paid'[r] = paid[r] + payment[r]
      BY <1>2
  <2>4. received[r] \in Nat /\ paid[r] \in Nat /\ payment[r] \in Nat
      BY <1>3
  <2> HIDE DEF k, a
  <2>5. received'[r] >= paid'[r] + k' /\ received'[r] <= paid'[r] + a'
      BY <2>1, <2>2, <2>3, <2>4
  <2> QED BY <2>5 DEF k, a
<1>6. ReleasedHaveReleaser' /\ ScheduledHaveRecipient'
    BY <1>1, QuietSchedules
<1> QED BY <1>2, <1>3, <1>4, <1>5, <1>6, PoolParts

\* A release of any kind keeps the invariant.
LEMMA ReleaseKeepsPool ==
    ASSUME Inv, [Next]_vars, NEW I, NEW by, Releases(I, by),
           \/ UNCHANGED paid
           \/ by = "contract" /\ paid' = [r \in Recipients |-> paid[r] + SchedulingTo(r, I)]
    PROVE  Inv'
<1>1. TypeOK /\ PoolInv /\ Locked /\ held >= remaining /\ SchedulesTyped
      /\ ReleasedHaveReleaser /\ ScheduledHaveRecipient
    BY BackedParts, TypesOfSchedules DEF Inv, PoolInv
<1>2. Pays([r \in Recipients |-> SchedulingTo(r, I)], Scheduling(I))
    BY <1>1, ReleasePays
<1>3. /\ held' \in Nat /\ remaining' \in Int
      /\ received' \in [Recipients -> Nat]
      /\ Locked' /\ held' >= remaining'
    BY <1>1, <1>2, PaymentKeepsPool
<1>4. totalFunds' \in 0 .. MaxTotal
    BY <1>1, <1>2 DEF Pays, TypeOK
<1>5. Receipts' /\ paid' \in [Recipients -> Nat]
    BY <1>1, ReleaseKeepsReceipts
<1>6. ReleasedHaveReleaser' /\ ScheduledHaveRecipient'
    BY <1>1, ReleaseKeepsReleasers
<1> QED BY <1>3, <1>4, <1>5, <1>6, PoolParts

\* A new schedule keeps it.
LEMMA CreateKeepsPool ==
    ASSUME Inv, NEW r \in Recipients, NEW amount \in Amounts, NEW at \in ReleaseTimes,
           CreateSchedule(r, amount, at), [Next]_vars
    PROVE  Inv'
<1> DEFINE s == [recipient |-> r, amount |-> amount, at |-> at,
                 released |-> FALSE, releasedAt |-> 0, by |-> Nobody]
<1>1. TypeOK /\ Locked /\ held >= remaining /\ Receipts /\ SchedulesTyped
      /\ ReleasedHaveReleaser /\ ScheduledHaveRecipient
    BY BackedParts, TypesOfSchedules DEF Inv, PoolInv
<1>2. /\ schedules' = [schedules EXCEPT ![nextId] = s] /\ nextId' = nextId + 1
      /\ UNCHANGED poolVars
    BY DEF CreateSchedule
<1>3. s.by = Nobody /\ ~s.released /\ s.recipient = r
    OBVIOUS
<1>4. nextId \in Ids
  <2>1. MaxSchedules \in Nat /\ nextId \in 1 .. MaxSchedules + 1 /\ nextId <= MaxSchedules
      BY <1>1, BoundsAssumption DEF SchedulesTyped, CreateSchedule
  <2> QED BY <2>1 DEF Ids
<1> HIDE DEF s
<1>5. \A i \in Ids : schedules'[i] = IF i = nextId THEN s ELSE schedules[i]
    BY <1>1, <1>2, <1>4 DEF SchedulesTyped
<1>6. Receipts'
  <2>1. ASSUME NEW q \in Recipients
        PROVE  /\ SchedulingTo(q, ReleasedBy({"key"}))' = SchedulingTo(q, ReleasedBy({"key"}))
               /\ SchedulingTo(q, ReleasedBy({"key", "contract"}))'
                      = SchedulingTo(q, ReleasedBy({"key", "contract"}))
      BY <1>1, <1>2, <1>3, <1>4, CreateAddsNothing
  <2> QED BY <1>1, <1>2, <2>1 DEF Receipts, poolVars
<1>7. ReleasedHaveReleaser'
    BY <1>1, <1>3, <1>5 DEF ReleasedHaveReleaser
<1>8. ScheduledHaveRecipient'
  <2>1. Scheduled' = Scheduled \cup {nextId} /\ Scheduled \subseteq Ids
    <3>1. nextId \in Nat /\ nextId >= 1
        BY <1>4 DEF Ids
    <3> QED BY <1>1, <1>2, <3>1, ScheduledAreIds DEF Scheduled
  <2> QED BY <1>1, <1>3, <1>4, <1>5, <2>1 DEF ScheduledHaveRecipient
<1>9. Locked'
    BY <1>1, <1>2 DEF Locked, poolVars
<1>10. /\ totalFunds' \in 0 .. MaxTotal /\ remaining' \in Int /\ held' \in Nat
       /\ paid' \in [Recipients -> Nat] /\ received' \in [Recipients -> Nat]
       /\ held' >= remaining'
    BY <1>1, <1>2 DEF TypeOK, poolVars
<1> QED BY <1>6, <1>7, <1>8, <1>9, <1>10, PoolParts

\* A step that pays nobody and touches no schedule: tokens may come in.
LEMMA QuietKeepsPool ==
    ASSUME Inv, [Next]_vars, UNCHANGED <<paid, received, scheduleVars>>,
           NEW locked \in Nat, NEW gift \in Nat, totalFunds + locked <= MaxTotal,
           totalFunds' = totalFunds + locked, remaining' = remaining + locked,
           held' = held + locked + gift
    PROVE  Inv'
<1>1. TypeOK /\ Locked /\ held >= remaining /\ Receipts /\ SchedulesTyped
      /\ ReleasedHaveReleaser /\ ScheduledHaveRecipient
    BY BackedParts, TypesOfSchedules DEF Inv, PoolInv
<1>2. /\ totalFunds \in Nat /\ remaining \in Int /\ held \in Nat /\ MaxTotal \in Nat
      /\ paid' \in [Recipients -> Nat] /\ received' \in [Recipients -> Nat]
    BY <1>1, BoundsAssumption DEF TypeOK
<1>3. /\ totalFunds' \in 0 .. MaxTotal /\ remaining' \in Int /\ held' \in Nat
      /\ held' >= remaining'
    BY <1>1, <1>2
<1>4. Locked'
  <2>1. totalFunds' - remaining' = totalFunds - remaining
      BY <1>2
  <2> QED BY <1>1, <2>1 DEF Locked
<1>5. Receipts'
    BY <1>1, ReceiptsKept DEF Receipts
<1>6. ReleasedHaveReleaser' /\ ScheduledHaveRecipient'
    BY <1>1, QuietSchedules
<1> QED BY <1>2, <1>3, <1>4, <1>5, <1>6, PoolParts

\* Every operation keeps the pool, the balance and the receipts in step.
LEMMA PoolStep ==
    ASSUME Inv, [Next]_vars
    PROVE  Inv'
<1>1. TypeOK /\ PoolInv
    BY DEF Inv, PoolInv
<1>2. totalFunds \in Nat /\ totalFunds <= MaxTotal /\ remaining \in Int /\ held \in Nat
    BY <1>1, BoundsAssumption DEF TypeOK
<1>3. ASSUME NEW amount \in Amounts, LockProgramFunds(amount) PROVE Inv'
  <2>1. amount \in Nat
      BY AmountsAssumption
  <2>2. /\ UNCHANGED <<paid, received, scheduleVars>> /\ totalFunds + amount <= MaxTotal
        /\ totalFunds' = totalFunds + amount /\ remaining' = remaining + amount
        /\ held' = held + amount + 0
      BY <1>2, <1>3, <2>1 DEF LockProgramFunds
  <2> QED BY <2>1, <2>2, QuietKeepsPool
<1>4. ASSUME UNCHANGED <<totalFunds, remaining, paid, received, scheduleVars>>,
             held' = held \/ held' = held + 1
      PROVE  Inv'
  <2>1. PICK gift \in Nat : held' = held + 0 + gift
      BY <1>2, <1>4
  <2>2. totalFunds + 0 <= MaxTotal /\ totalFunds' = totalFunds + 0 /\ remaining' = remaining + 0
      BY <1>2, <1>4
  <2> QED BY <1>4, <2>1, <2>2, QuietKeepsPool
<1>5. CASE \E n \in 1 .. MaxBatch :
               \E recipients \in [1 .. n -> Recipients], amounts \in [1 .. n -> Amounts] :
                   BatchPayout(recipients, amounts)
    BY <1>1, <1>5, BatchPays, PayoutKeepsPool
<1>6. CASE \E r \in Recipients, amount \in Amounts : SinglePayout(r, amount)
    BY <1>1, <1>6, SinglePays, PayoutKeepsPool
<1>7. CASE \E r \in Recipients, amount \in Amounts, at \in ReleaseTimes : CreateSchedule(r, amount, at)
    BY <1>7, CreateKeepsPool
<1>8. ASSUME NEW i \in Ids, ReleaseManual(i) PROVE Inv'
  <2>1. Releases({i}, "key") /\ UNCHANGED paid
      BY <1>8, WaysOfReleasing DEF ReleaseManual
  <2> QED BY <2>1, ReleaseKeepsPool
<1>9. ASSUME NEW i \in Ids, ReleaseAutomatic(i) PROVE Inv'
  <2>1. Releases({i}, "contract") /\ UNCHANGED paid
      BY <1>9, WaysOfReleasing DEF ReleaseAutomatic
  <2> QED BY <2>1, ReleaseKeepsPool
<1>10. CASE TriggerReleases
  <2>1. /\ Releases(Triggered, "contract")
        /\ paid' = [r \in Recipients |-> paid[r] + SchedulingTo(r, Triggered)]
      BY <1>10, WaysOfReleasing DEF TriggerReleases
  <2> QED BY <2>1, ReleaseKeepsPool
<1>11. CASE \/ OpenDispute \/ CloseDispute
            \/ \E lock, release \in BOOLEAN : SetPaused(lock, release)
            \/ \E r \in Recipients, whitelisted \in BOOLEAN : SetWhitelist(r, whitelisted)
            \/ \E enabled \in BOOLEAN : SetWhitelistEnforced(enabled)
            \/ GovernanceChanges
            \/ ControlCircuit
            \/ Tick
            \/ UNCHANGED vars
  <2>1. UNCHANGED <<poolVars, scheduleVars>>
      BY <1>11 DEF OpenDispute, CloseDispute, SetPaused, SetWhitelist, SetWhitelistEnforced,
                   GovernanceChanges, ControlCircuit, Tick, vars
  <2> QED BY <1>4, <2>1 DEF poolVars
<1>12. CASE Gift
    BY <1>4, <1>12 DEF Gift
<1> QED BY <1>3, <1>5, <1>6, <1>7, <1>8, <1>9, <1>10, <1>11, <1>12 DEF Next

\* The pool is empty and nothing has been received in the initial state.
LEMMA PoolInit == Init => Inv
<1> SUFFICES ASSUME Init PROVE Inv
    OBVIOUS
<1>1. ScheduleInv
    BY InitSchedules
<1>2. Scheduled = {}
    BY DEF Init, Scheduled
<1>3. TypeOK
  <2>1. RestTyped
    <3>1. CircuitTypeOK
        BY DEF Init, CircuitInit, CircuitTypeOK, CircuitState
    <3>2. now \in 0 .. MaxTime
        BY BoundsAssumption DEF Init
    <3>3. globalDispute = FALSE /\ enforced = FALSE /\ govOk = TRUE
        BY Zenon DEF Init
    <3>4. paused \in [lock : BOOLEAN, release : BOOLEAN]
        BY DEF Init
    <3>5. recipientDisputes = {} /\ scheduleDisputes = {} /\ whitelist = {}
        BY DEF Init
    <3> QED BY <3>1, <3>2, <3>3, <3>4, <3>5 DEF RestTyped
  <2>2. /\ totalFunds \in 0 .. MaxTotal /\ remaining \in Int /\ held \in Nat
        /\ paid \in [Recipients -> Nat] /\ received \in [Recipients -> Nat]
      BY BoundsAssumption DEF Init, Nothing
  <2> QED BY <1>1, <2>1, <2>2, TypeParts DEF ScheduleInv, SchedulesTyped
<1>4. Locked
  <2>1. \A r \in Recipients : received[r] = 0
      BY DEF Init, Nothing
  <2>2. Sum(received, Recipients) = 0
      BY <2>1, SumZero, RecipientsAssumption
  <2>3. totalFunds - remaining = 0
      BY DEF Init
  <2> QED BY <2>2, <2>3 DEF Locked
<1>5. ReleasedHaveReleaser /\ ScheduledHaveRecipient
  <2>1. \A i \in Ids : schedules[i] = NoSchedule
      BY DEF Init
  <2> QED BY <1>2, <2>1 DEF ReleasedHaveReleaser, ScheduledHaveRecipient, NoSchedule
<1>6. Receipts
  <2>1. ASSUME NEW who, NEW r \in Recipients
        PROVE  SchedulingTo(r, ReleasedBy(who)) = 0
    <3>1. {i \in ReleasedBy(who) : schedules[i].recipient = r} = {}
        BY <1>2 DEF ReleasedBy
    <3>2. SchedulingTo(r, ReleasedBy(who)) = Sum([i \in Ids |-> schedules[i].amount], {})
        BY <3>1, Zenon DEF SchedulingTo, Scheduling
    <3> QED BY <3>2, SumEmpty
  <2>2. \A r \in Recipients : received[r] = 0 /\ paid[r] = 0
      BY DEF Init, Nothing
  <2> QED BY <2>1, <2>2 DEF Receipts
<1>7. held >= remaining
    BY DEF Init
<1> QED BY <1>1, <1>3, <1>4, <1>5, <1>6, <1>7, BackedParts DEF Inv, PoolInv

\* So the pool is backed in every reachable state.
LEMMA PoolInvariant == Spec => []Inv
<1> QED BY PoolInit, PoolStep, PTL DEF Spec

\* The contract always holds what its books say remains, and what each
\* recipient got is in the histories, in storage that keeps its types.
THEOREM PoolIsAlwaysBacked == Spec => [](TypeOK /\ PoolIsBacked)
<1>1. Inv => TypeOK /\ PoolIsBacked
    BY DEF Inv, PoolInv
<1> QED BY <1>1, PoolInvariant, PTL

-----------------------------------------------------------------------------
(* The views *)

\* Of the numbers up to n those in M are listed, and those in D, some of them,
\* are triggered.  The first ones listed are the first ones triggered but for
\* those in M that are not in D, each of which lets one more follow.
Lists(list, n) == list = [i \in 1 .. n |-> i]
FirstListed(due, list, M, limit) == due = {i \in M : Rank(list, M, i) <= limit}
FirstOf(triggered, D, limit) == triggered = {i \in D : Cardinality({j \in D : j < i}) < limit}

Follows(triggered, due, D) ==
    /\ due \subseteq D => due = triggered
    /\ \A i \in triggered \ due : \E j \in due : j < i /\ j \notin D

\* The schedules a trigger releases are those, in order, that the listing of due ones shows.
LEMMA TriggerFollowsList ==
    ASSUME NEW n \in Nat, NEW list, Lists(list, n),
           NEW M \in SUBSET (1 .. n), NEW D \in SUBSET M, NEW limit \in Nat \ {0},
           NEW due, FirstListed(due, list, M, limit),
           NEW triggered, FirstOf(triggered, D, limit)
    PROVE  Follows(triggered, due, D)
<1> USE DEF Lists, FirstListed, FirstOf
<1>1. ASSUME NEW i \in 1 .. n
      PROVE  Cardinality({j \in D : j < i}) = Rank(list, D, i - 1)
  <2>1. \A j \in 1 .. n : list[j] = j
      OBVIOUS
  <2>2. \A j \in D : j \in 1 .. n
      OBVIOUS
  <2>3. \A j \in 1 .. n : j < i <=> j \in 1 .. i - 1
      OBVIOUS
  <2>4. \A j \in 1 .. i - 1 : j \in 1 .. n
      OBVIOUS
  <2>5. {j \in D : j < i} = {j \in 1 .. i - 1 : list[j] \in D}
      BY <2>1, <2>2, <2>3, <2>4
  <2> QED BY <2>5, Zenon DEF Rank
<1>2. ASSUME NEW i \in M
      PROVE  /\ Rank(list, D, i - 1) \in Nat /\ Rank(list, M, i) \in Nat
             /\ Rank(list, D, i - 1) <= Rank(list, M, i) - 1
  <2> PICK p \in Nat : p = i - 1
      OBVIOUS
  <2>1. i = p + 1 /\ list[i] = i
      OBVIOUS
  <2>2. MatchesMore(list, D, M, p)
      BY DEF MatchesMore
  <2>3. Rank(list, D, p) <= Rank(list, M, p)
      BY <2>2, RankMonotone
  <2>4. Rank(list, D, p) \in Nat /\ Rank(list, M, p) \in Nat
      BY RankSteps
  <2>5. RankStep(list, M, p)
      BY RankSteps
  <2>6. list[p + 1] \in M
      BY <2>1
  <2>7. Rank(list, M, p + 1) = Rank(list, M, p) + 1
      BY <2>5, <2>6 DEF RankStep
  <2> QED BY <2>1, <2>3, <2>4, <2>7
<1>3. ASSUME NEW i \in due, i \in D PROVE i \in triggered
  <2>1. Rank(list, D, i - 1) < limit
      BY <1>2, <1>3
  <2> QED BY <1>1, <1>3, <2>1
<1>4. ASSUME NEW i \in triggered, i \notin due
      PROVE  \E j \in due : j < i /\ j \notin D
  <2> SUFFICES ASSUME \A j \in due : j < i => j \in D PROVE FALSE
      OBVIOUS
  <2>1. i \in D /\ i \in 1 .. n /\ Rank(list, D, i - 1) < limit
      BY <1>1
  <2>2. Rank(list, M, i) \in Nat /\ Rank(list, M, i) > limit
      BY <1>2, <1>4, <2>1
  <2>3. limit \in 1 .. Rank(list, M, i) /\ i \in Nat
      BY <2>1, <2>2
  <2> PICK j \in 1 .. i : list[j] \in M /\ Rank(list, M, j) = limit
      BY <2>3, RanksAreTaken
  <2>4. j \in Nat /\ j <= n /\ j # i /\ j < i /\ i - 1 \in Nat /\ j <= i - 1
      BY <2>1, <2>2
  <2>5. ASSUME NEW k \in 1 .. j PROVE k \in M <=> k \in D
    <3>1. Rank(list, M, k) <= limit
        BY <2>4, RankGrows
    <3>2. k \in M => k \in due /\ k < i
        BY <2>1, <2>4, <3>1
    <3> QED BY <3>2
  <2>6. SameMatches(list, M, list, D, j)
      BY <2>4, <2>5 DEF SameMatches
  <2>7. Rank(list, D, j) = limit
      BY <2>4, <2>6, RankEqual
  <2>8. Rank(list, D, j) <= Rank(list, D, i - 1)
      BY <2>4, RankGrows
  <2>9. Rank(list, D, i - 1) \in Nat
      BY <1>2, <2>1
  <2> QED BY <2>1, <2>7, <2>8, <2>9
<1>5. due \subseteq D => due = triggered
    BY <1>3, <1>4
<1> QED BY <1>4, <1>5 DEF Follows

\* The list of schedules is that of the ids in use.
ListsIds(list) ==
    /\ list \in Seq(Ids)
    /\ Len(list) = nextId - 1 /\ Len(list) <= MaxSchedules
    /\ 1 .. Len(list) = Scheduled
    /\ \A i \in Scheduled : list[i] = i

\* The stored list of schedules holds every identifier once, in the order of creation.
LEMMA ScheduleListIs ==
    ASSUME SchedulesTyped
    PROVE  ListsIds(ScheduleList)
<1>1. /\ Scheduled \subseteq Ids /\ Scheduled = 1 .. nextId - 1
      /\ nextId - 1 \in Nat /\ nextId - 1 <= MaxSchedules
    BY ScheduledAreIds, BoundsAssumption DEF Scheduled, SchedulesTyped
<1>2. ScheduleList = [i \in 1 .. nextId - 1 |-> i]
    BY DEF ScheduleList, Scheduled
<1>3. ScheduleList \in Seq(Ids) /\ Len(ScheduleList) = nextId - 1
    BY <1>1, <1>2
<1> QED BY <1>1, <1>2, <1>3 DEF ListsIds

\* A page at the start of the list of what matches lists what matches, the
\* first ones in number up to the limit.
LEMMA PageElements ==
    ASSUME SchedulesTyped, NEW M, NEW limit \in Nat
    PROVE  ToSet(Page(ScheduleList, M, 0, limit)) =
               {i \in M \cap Scheduled : Rank(ScheduleList, M, i) <= limit}
<1> PICK list : list = ScheduleList
    OBVIOUS
<1> PICK part : part = Slice(Filtered(list, M), 0, limit)
    OBVIOUS
<1>1. ListsIds(list)
    BY ScheduleListIs
<1>2. {part[k] : k \in DOMAIN part} =
          {list[i] : i \in {j \in 1 .. Len(list) : list[j] \in M /\ Rank(list, M, j) <= limit}}
  <2>1. list \in Seq(Ids)
      BY <1>1 DEF ListsIds
  <2>2. HasFirst(part, list, M, limit)
      BY <2>1, SlicedElements
  <2> QED BY <2>2 DEF HasFirst
<1>3. {list[i] : i \in {j \in 1 .. Len(list) : list[j] \in M /\ Rank(list, M, j) <= limit}} =
          {i \in M \cap Scheduled : Rank(list, M, i) <= limit}
    BY <1>1 DEF ListsIds
<1>4. ToSet(Page(ScheduleList, M, 0, limit)) = {part[k] : k \in DOMAIN part}
    BY Zenon DEF ToSet, Page
<1> QED BY <1>2, <1>3, <1>4, Zenon

\* When the limit is beyond what there is, it lists all that matches.
LEMMA WholePage ==
    ASSUME SchedulesTyped, NEW M
    PROVE  ToSet(Page(ScheduleList, M, 0, MaxSchedules)) = M \cap Scheduled
<1> PICK list : list = ScheduleList
    OBVIOUS
<1>1. ListsIds(list) /\ MaxSchedules \in Nat
    BY ScheduleListIs, BoundsAssumption
<1>2. ASSUME NEW i \in M \cap Scheduled PROVE Rank(list, M, i) <= MaxSchedules
  <2> PICK F : F = Filtered(list, M)
      OBVIOUS
  <2>1. /\ i \in Nat /\ i \in 1 .. Len(list) /\ Len(list) \in Nat /\ Len(list) <= MaxSchedules
        /\ list[i] \in M
      BY <1>1 DEF ListsIds
  <2>2. Rank(list, M, i) <= i
      BY <2>1, RankIsBounded
  <2>4. Rank(list, M, i) \in Nat
      BY <2>1, RankSteps
  <2> QED BY <1>1, <2>1, <2>2, <2>4
<1>3. ToSet(Page(list, M, 0, MaxSchedules)) =
          {i \in M \cap Scheduled : Rank(list, M, i) <= MaxSchedules}
    BY <1>1, PageElements
<1> QED BY <1>2, <1>3

\* Two pages of a list continue one another.
LEMMA PagesContinue ==
    ASSUME NEW S, NEW list \in Seq(S), NEW limit \in Nat, NEW more \in Nat
    PROVE  IsPrefix(Slice(list, 0, limit) \o Slice(list, limit, more), list)
<1> PICK part : part = Slice(list, 0, limit + more)
    OBVIOUS
<1>1. limit + more \in Nat /\ 0 \in Nat
    OBVIOUS
<1>2. part \in Seq(S) /\ IsSlice(part, list, 0, limit + more)
    BY <1>1, SliceIs
<1>3. Len(part) \in Nat /\ Len(list) \in Nat
    BY <1>2
<1>4. Len(part) <= Len(list) /\ \A k \in 1 .. Len(part) : part[k] = list[k]
    BY <1>1, <1>2, <1>3 DEF IsSlice
<1>5. SubSeq(part, 1, Len(part)) = SubSeq(list, 1, Len(part))
    BY <1>2, <1>3, <1>4
<1>6. IsPrefix(part, list)
    BY <1>4, <1>5 DEF IsPrefix
<1>7. Slice(list, 0, limit) \o Slice(list, limit, more) = part
    BY SlicesContinue
<1> QED BY <1>6, <1>7, Zenon

\* What is due and what is triggered, in numbers of the list.
LEMMA DueReconciles ==
    ASSUME SchedulesTyped, NEW due, due = ToSet(DueSchedules(0, MaxBatch))
    PROVE  /\ due \subseteq Due => due = Triggered
           /\ \A i \in Triggered \ due : \E j \in due : j < i /\ j \notin Due
<1> PICK list : list = ScheduleList
    OBVIOUS
<1> PICK n : n = nextId - 1
    OBVIOUS
<1> PICK M : M = {i \in Pending : schedules[i].at <= now}
    OBVIOUS
<1> PICK D : D = Due
    OBVIOUS
<1> PICK triggered : triggered = Triggered
    OBVIOUS
<1>1. n \in Nat /\ list = [i \in 1 .. n |-> i] /\ Scheduled = 1 .. n
    BY DEF ScheduleList, Scheduled, SchedulesTyped
<1>2. M \in SUBSET (1 .. n)
    BY <1>1 DEF Pending
<1>3. D \in SUBSET M
  <2>1. \A i \in Pending : schedules[i].at \in Nat /\ now \in Nat
    <3>1. \A i \in Pending : schedules[i] \in Schedule
        BY ScheduledAreIds DEF Pending, SchedulesTyped
    <3> QED BY <3>1 DEF Schedule, SchedulesTyped
  <2> QED BY <2>1 DEF Due, IsDue
<1>4. MaxBatch \in Nat \ {0} /\ Capped(MaxBatch) = MaxBatch
    BY BoundsAssumption, PageAssumption DEF Capped
<1>5. due = {i \in M : Rank(list, M, i) <= MaxBatch}
  <2>1. DueSchedules(0, MaxBatch) = Page(list, M, 0, MaxBatch)
      BY <1>4, Zenon DEF DueSchedules
  <2>2. ToSet(Page(list, M, 0, MaxBatch)) =
            {i \in M \cap Scheduled : Rank(list, M, i) <= MaxBatch}
      BY <1>4, PageElements
  <2>3. M \cap Scheduled = M
      BY <1>1, <1>2
  <2> QED BY <2>1, <2>2, <2>3, Zenon
<1>6. triggered = {i \in D : Cardinality({j \in D : j < i}) < MaxBatch}
    BY DEF Triggered
<1>7. Lists(list, n) /\ FirstListed(due, list, M, MaxBatch) /\ FirstOf(triggered, D, MaxBatch)
    BY <1>1, <1>5, <1>6, Zenon DEF Lists, FirstListed, FirstOf
<1>8. Follows(triggered, due, D)
    BY <1>1, <1>2, <1>3, <1>4, <1>7, TriggerFollowsList
<1> QED BY <1>8 DEF Follows

\* The release history has an entry for each schedule that is not pending.
LEMMA EntriesCountReleased ==
    ASSUME ScheduleInv
    PROVE  Cardinality(Scheduled \ Pending) = Sum(entries, Ids)
<1> PICK R : R = Scheduled \ Pending
    OBVIOUS
<1>1. SchedulesTyped /\ Scheduled \subseteq Ids
    BY ScheduledAreIds DEF ScheduleInv
<1>2. IsFiniteSet(Ids)
    BY FS_Interval, BoundsAssumption DEF Ids
<1>3. R \in SUBSET Ids /\ IsFiniteSet(R) /\ IsFiniteSet(Ids \ R)
    BY <1>1, <1>2, FS_Subset
<1>4. \A i \in Ids : i \in R <=> schedules[i].released
  <2>1. \A i \in Ids : schedules[i].released => i \in Scheduled
      BY <1>1, BoundsAssumption DEF ScheduleInv, SchedulesTyped, UnusedIsUnreleased, Scheduled, Ids
  <2> QED BY <2>1 DEF Pending
<1>5. (\A i \in R : entries[i] = 1) /\ (\A i \in Ids \ R : entries[i] = 0)
    BY <1>3, <1>4 DEF ScheduleInv, ReleasesAreRecorded
<1>6. Sum(entries, R) = Cardinality(R)
    BY <1>3, <1>5, SumOnes
<1>7. Sum(entries, Ids \ R) = 0
    BY <1>3, <1>5, SumZero
<1>8. Sum(entries, Ids) = Sum(entries, R) + Sum(entries, Ids \ R)
  <2>1. \A i \in Ids : entries[i] \in Int
      BY <1>1 DEF SchedulesTyped
  <2> QED BY <1>2, <1>3, <2>1, SumSplit
<1>9. Cardinality(R) \in Nat
    BY <1>3, FS_CardinalityType
<1> QED BY <1>6, <1>7, <1>8, <1>9

\* The schedules pending for each recipient add up to what is scheduled.
LEMMA RecipientsShareScheduled ==
    ASSUME SchedulesTyped, ScheduledHaveRecipient
    PROVE  TotalScheduledAmount =
               Sum([r \in Recipients |->
                       Scheduling({i \in ToSet(SchedulesByRecipient(r, 0, MaxSchedules)) :
                                      ~schedules[i].released})], Recipients)
<1>1. Scheduled \subseteq Ids /\ Pending \subseteq Scheduled
    BY ScheduledAreIds DEF Pending
<1>2. ASSUME NEW r \in Recipients
      PROVE  Scheduling({i \in ToSet(SchedulesByRecipient(r, 0, MaxSchedules)) :
                             ~schedules[i].released}) = SchedulingTo(r, Pending)
  <2> PICK M : M = {i \in Ids : schedules[i].recipient = r}
      OBVIOUS
  <2>1. ToSet(Page(ScheduleList, M, 0, MaxSchedules)) = M \cap Scheduled
      BY WholePage
  <2>2. SchedulesByRecipient(r, 0, MaxSchedules) = Page(ScheduleList, M, 0, MaxSchedules)
      BY Zenon DEF SchedulesByRecipient
  <2>3. {i \in M \cap Scheduled : ~schedules[i].released} =
            {i \in Pending : schedules[i].recipient = r}
      BY <1>1 DEF Pending
  <2> QED BY <2>1, <2>2, <2>3, Zenon DEF SchedulingTo
<1>3. Sum([r \in Recipients |-> SchedulingTo(r, Pending)], Recipients) = Scheduling(Pending)
  <2> PICK I : I = Pending
      OBVIOUS
  <2>1. I \in SUBSET Ids /\ \A i \in I : schedules[i].recipient \in Recipients
      BY <1>1 DEF ScheduledHaveRecipient
  <2>2. Sum([r \in Recipients |-> SchedulingTo(r, I)], Recipients) = Scheduling(I)
      BY <2>1, SchedulingGroups
  <2> QED BY <2>2, Zenon
<1>4. [r \in Recipients |->
          Scheduling({i \in ToSet(SchedulesByRecipient(r, 0, MaxSchedules)) :
                         ~schedules[i].released})] =
      [r \in Recipients |-> SchedulingTo(r, Pending)]
    BY <1>2, Zenon
<1> QED BY <1>3, <1>4, Zenon DEF TotalScheduledAmount

\* Two pages of the pending schedules, and two of all, continue one another.
LEMMA ListsContinue ==
    ASSUME SchedulesTyped, NEW limit \in 1 .. MaxQueryLimit
    PROVE  /\ IsPrefix(PendingSchedules(0, limit) \o PendingSchedules(limit, MaxSchedules),
                       SchedulesByStatus(FALSE, 0, MaxSchedules))
           /\ IsPrefix(ReleaseSchedules(0, limit) \o ReleaseSchedules(limit, MaxSchedules),
                       ScheduleList)
<1> PICK list : list = ScheduleList
    OBVIOUS
<1> PICK P : P = Pending
    OBVIOUS
<1> PICK U : U = {i \in Ids : schedules[i].released = FALSE}
    OBVIOUS
<1> PICK F : F = Filtered(list, P)
    OBVIOUS
<1>1. ListsIds(list) /\ MaxSchedules \in Nat
    BY ScheduleListIs, BoundsAssumption
<1>2. limit \in Nat /\ Capped(limit) = limit /\ Capped(MaxSchedules) \in Nat
    BY <1>1, QueryLimitAssumption DEF Capped
<1>3. list \in Seq(Ids) /\ Len(list) \in Nat /\ Len(list) <= MaxSchedules
    BY <1>1 DEF ListsIds
<1>4. F \in Seq(Ids) /\ Len(F) <= MaxSchedules
  <2>1. F \in Seq(Ids) /\ ListsMatches(F, list, P)
      BY <1>3, FilteredIs
  <2>2. Len(F) = Rank(list, P, Len(list)) /\ Rank(list, P, Len(list)) <= Len(list)
      BY <1>3, <2>1, RankIsBounded DEF ListsMatches
  <2>3. Len(F) \in Nat
      BY <2>1
  <2> QED BY <1>1, <1>3, <2>1, <2>2, <2>3
<1>5. Filtered(list, U) = F
  <2>1. \A i \in Ids : schedules[i].released \in BOOLEAN
    <3>1. \A i \in Ids : schedules[i] \in Schedule
        BY DEF SchedulesTyped
    <3> QED BY <3>1 DEF Schedule
  <2>2. \A i \in 1 .. Len(list) : list[i] \in U <=> list[i] \in P
      BY <1>1, <2>1, ScheduledAreIds DEF ListsIds, Pending
  <2> QED BY <1>3, <2>2, FilteredEqual
<1>6. SchedulesByStatus(FALSE, 0, MaxSchedules) = F
  <2>1. Slice(F, 0, MaxSchedules) = F
      BY <1>1, <1>4, SliceAll
  <2> QED BY <1>5, <2>1, Zenon DEF SchedulesByStatus, Page
<1>7. /\ PendingSchedules(0, limit) = Slice(F, 0, limit)
      /\ PendingSchedules(limit, MaxSchedules) = Slice(F, limit, Capped(MaxSchedules))
    BY <1>2, Zenon DEF PendingSchedules, Page
<1>8. /\ ReleaseSchedules(0, limit) = Slice(list, 0, limit)
      /\ ReleaseSchedules(limit, MaxSchedules) = Slice(list, limit, Capped(MaxSchedules))
    BY <1>2, Zenon DEF ReleaseSchedules
<1>9. IsPrefix(Slice(F, 0, limit) \o Slice(F, limit, Capped(MaxSchedules)), F)
    BY <1>2, <1>4, PagesContinue
<1>10. IsPrefix(Slice(list, 0, limit) \o Slice(list, limit, Capped(MaxSchedules)), list)
    BY <1>2, <1>3, PagesContinue
<1> QED BY <1>6, <1>7, <1>8, <1>9, <1>10, Zenon

\* What the views answer is what was paid, what is scheduled, and what a
\* trigger would release, however payouts, releases and controls mix.
THEOREM ViewsAlwaysReconcile == Spec => []ViewsReconcile
<1>1. ASSUME Inv PROVE ViewsReconcile
  <2>1. TypeOK /\ PoolIsBacked /\ SchedulesTyped /\ ScheduledHaveRecipient /\ Locked /\ ScheduleInv
      BY <1>1 DEF Inv, PoolInv, ScheduleInv
  <2>2. AggregateStats.paidOut = Sum(received, Recipients)
      BY <2>1 DEF AggregateStats, Locked
  <2>3. AggregateStats.released = Sum(entries, Ids)
      BY <2>1, EntriesCountReleased DEF AggregateStats
  <2> DEFINE due == ToSet(DueSchedules(0, MaxBatch))
  <2>4. /\ due \subseteq Due => due = Triggered
        /\ \A i \in Triggered \ due : \E j \in due : j < i /\ j \notin Due
    <3> PICK d : d = due
        OBVIOUS
    <3>1. /\ d \subseteq Due => d = Triggered
          /\ \A i \in Triggered \ d : \E j \in d : j < i /\ j \notin Due
        BY <2>1, DueReconciles
    <3> QED BY <3>1
  <2> HIDE DEF due
  <2> QED BY <2>1, <2>2, <2>3, <2>4, ListsContinue, RecipientsShareScheduled
          DEF ViewsReconcile, due
<1> QED BY <1>1, PoolInvariant, PTL

-----------------------------------------------------------------------------
(* The controls *)

\* A payment that a recipient sees is not one under dispute, and on the whitelist.
PaysOnlyFree ==
    \A r \in Recipients : received'[r] # received[r] =>
        ~globalDispute /\ r \notin recipientDisputes /\ (enforced => r \in whitelist)

DisputedStay == \A i \in scheduleDisputes : schedules'[i].released = schedules[i].released

CircuitStops == circuit = "Open" => received' = received /\ circuit' # "Closed"

PaysSchedulesOnly ==
    \A r \in Recipients : received'[r] = received[r]
        + SchedulingTo(r, {i \in Pending : schedules'[i].released})

ControlsObeyed ==
    /\ PaysOnlyFree
    /\ DisputedStay
    /\ CircuitStops
    /\ paused.release \/ ~govOk => PaysSchedulesOnly

\* A release pays a recipient only by a schedule of his.
LEMMA ReleasePaysOnlyFree ==
    ASSUME TypeOK, NEW I, NEW by, Releases(I, by), ~globalDispute,
           \A i \in I : Free(i) /\ Payable(schedules[i].recipient)
    PROVE  PaysOnlyFree
<1> SUFFICES ASSUME NEW r \in Recipients, received'[r] # received[r]
             PROVE  r \notin recipientDisputes /\ (enforced => r \in whitelist)
    BY DEF PaysOnlyFree
<1>1. received'[r] = received[r] + SchedulingTo(r, I) /\ received[r] \in Nat
    BY DEF Releases, Release, Transfer, TypeOK
<1>2. \E i \in I : schedules[i].recipient = r
  <2> SUFFICES ASSUME {i \in I : schedules[i].recipient = r} = {} PROVE FALSE
      OBVIOUS
  <2>1. SchedulingTo(r, I) = Sum([i \in Ids |-> schedules[i].amount], {})
      BY Zenon DEF SchedulingTo, Scheduling
  <2>2. SchedulingTo(r, I) = 0
      BY <2>1, SumEmpty
  <2> QED BY <1>1, <2>2
<1> QED BY <1>2 DEF Free, Payable

\* A release that leaves disputed schedules alone, with the circuit not open,
\* obeys the controls.
LEMMA ReleaseObeys ==
    ASSUME TypeOK, NEW I, NEW by, Releases(I, by), ~globalDispute, CheckAndAllow,
           \A i \in I : Free(i) /\ Payable(schedules[i].recipient)
    PROVE  ControlsObeyed
<1>1. PaysOnlyFree
    BY ReleasePaysOnlyFree
<1>2. DisputedStay
  <2> SUFFICES ASSUME NEW i \in scheduleDisputes PROVE schedules'[i] = schedules[i]
      BY DEF DisputedStay
  <2>1. i \in Ids /\ i \notin I
      BY TypesOfSchedules, ScheduledAreIds DEF TypeOK, Free
  <2> QED BY <2>1, TypesOfSchedules, ReleaseChanges
<1>3. CircuitStops
    BY DEF CircuitStops, CheckAndAllow
<1>4. PaysSchedulesOnly
  <2>1. {i \in Pending : schedules'[i].released} = I
      BY TypesOfSchedules, ReleasedSet
  <2>2. \A r \in Recipients : received'[r] = received[r] + SchedulingTo(r, I)
      BY DEF Releases, Release, Transfer
  <2> QED BY <2>1, <2>2 DEF PaysSchedulesOnly
<1> QED BY <1>1, <1>2, <1>3, <1>4 DEF ControlsObeyed

\* A payout is open to nobody but undisputed recipients on the whitelist.
LEMMA PayoutObeys ==
    ASSUME PayoutsOpen, UNCHANGED schedules, NEW R, Undisputed(R), \A r \in R : Payable(r),
           \A r \in Recipients : r \notin R => received'[r] = received[r]
    PROVE  ControlsObeyed
<1>1. PaysOnlyFree
    BY DEF PaysOnlyFree, Undisputed, Payable
<1>2. CircuitStops /\ ~(paused.release \/ ~govOk)
    BY DEF CircuitStops, PayoutsOpen, CheckAndAllow
<1> QED BY <1>1, <1>2 DEF ControlsObeyed, DisputedStay

\* A step that pays nobody and releases nothing obeys them, unless it closes an
\* open circuit.
LEMMA QuietObeys ==
    ASSUME TypeOK, UNCHANGED received, circuit = "Open" => circuit' # "Closed",
           \A i \in Scheduled : schedules'[i] = schedules[i]
    PROVE  ControlsObeyed
<1>1. PaysOnlyFree /\ CircuitStops
    BY DEF PaysOnlyFree, CircuitStops
<1>2. DisputedStay
    BY DEF DisputedStay, TypeOK
<1>3. PaysSchedulesOnly
  <2>1. {i \in Pending : schedules'[i].released} = {}
      BY DEF Pending
  <2>2. ASSUME NEW r \in Recipients PROVE SchedulingTo(r, {}) = 0
    <3>1. SchedulingTo(r, {}) = Sum([i \in Ids |-> schedules[i].amount], {})
      <4>1. {i \in {} : schedules[i].recipient = r} = {}
          OBVIOUS
      <4> QED BY <4>1, Zenon DEF SchedulingTo, Scheduling
    <3> QED BY <3>1, SumEmpty
  <2>3. \A r \in Recipients : received'[r] = received[r] + 0
      BY DEF TypeOK
  <2> QED BY <2>1, <2>2, <2>3 DEF PaysSchedulesOnly
<1> QED BY <1>1, <1>2, <1>3 DEF ControlsObeyed

\* No operation passes a pause, a breaker or a missing authorization that forbids it.
LEMMA StepObeysControls ==
    ASSUME TypeOK, [Next]_vars
    PROVE  ControlsObeyed
<1>1. ASSUME NEW n \in 1 .. MaxBatch, NEW recipients \in [1 .. n -> Recipients],
             NEW amounts \in [1 .. n -> Amounts], BatchPayout(recipients, amounts)
      PROVE  ControlsObeyed
  <2> DEFINE R == {recipients[i] : i \in DOMAIN recipients}
  <2>1. /\ PayoutsOpen /\ UNCHANGED schedules
        /\ Undisputed(R) /\ \A r \in R : Payable(r)
      BY <1>1 DEF BatchPayout, scheduleVars
  <2>2. ASSUME NEW r \in Recipients, r \notin R PROVE received'[r] = received[r]
    <3>1. {i \in DOMAIN recipients : recipients[i] = r} = {}
        BY <2>2
    <3>2. Sum(amounts, {i \in DOMAIN recipients : recipients[i] = r}) = 0
      <4>1. Sum(amounts, {}) = 0
          BY SumEmpty
      <4> QED BY <3>1, <4>1, Zenon
    <3>3. received'[r] = received[r] + Sum(amounts, {i \in DOMAIN recipients : recipients[i] = r})
        BY <1>1 DEF BatchPayout, Transfer
    <3> QED BY <3>2, <3>3 DEF TypeOK
  <2> HIDE DEF R
  <2> QED BY <2>1, <2>2, PayoutObeys
<1>2. ASSUME NEW recipient \in Recipients, NEW amount \in Amounts, SinglePayout(recipient, amount)
      PROVE  ControlsObeyed
  <2>1. /\ PayoutsOpen /\ UNCHANGED schedules
        /\ Undisputed({recipient}) /\ \A r \in {recipient} : Payable(r)
      BY <1>2 DEF SinglePayout, scheduleVars
  <2>2. \A r \in Recipients : r \notin {recipient} => received'[r] = received[r]
    <3>1. \A r \in Recipients : received'[r] = received[r] + (IF r = recipient THEN amount ELSE 0)
        BY <1>2 DEF SinglePayout, Transfer
    <3> QED BY <3>1 DEF TypeOK
  <2> QED BY <2>1, <2>2, PayoutObeys
<1>3. ASSUME NEW i \in Ids, ReleaseManual(i) \/ ReleaseAutomatic(i) PROVE ControlsObeyed
  <2>1. \E by : Releases({i}, by)
      BY <1>3, WaysOfReleasing
  <2>2. ~globalDispute /\ CheckAndAllow /\ Free(i) /\ Payable(schedules[i].recipient)
      BY <1>3 DEF ReleaseManual, ReleaseAutomatic, Releasable
  <2> QED BY <2>1, <2>2, ReleaseObeys
<1>4. CASE TriggerReleases
  <2>1. Releases(Triggered, "contract")
      BY <1>4, WaysOfReleasing
  <2>2. ~globalDispute /\ CheckAndAllow
      BY <1>4 DEF TriggerReleases
  <2>3. \A i \in Triggered : Free(i) /\ Payable(schedules[i].recipient)
      BY DEF Triggered, Due
  <2> QED BY <2>1, <2>2, <2>3, ReleaseObeys
<1>5. CASE \/ OpenDispute \/ CloseDispute
           \/ \E amount \in Amounts : LockProgramFunds(amount)
           \/ \E lock, release \in BOOLEAN : SetPaused(lock, release)
           \/ \E r \in Recipients, whitelisted \in BOOLEAN : SetWhitelist(r, whitelisted)
           \/ \E enabled \in BOOLEAN : SetWhitelistEnforced(enabled)
           \/ GovernanceChanges
           \/ Gift \/ Tick \/ UNCHANGED vars
  <2>1. UNCHANGED <<received, scheduleVars, circuitVars>>
      BY <1>5 DEF OpenDispute, CloseDispute, LockProgramFunds, SetPaused, SetWhitelist,
                  SetWhitelistEnforced, GovernanceChanges, Gift, Tick, vars, poolVars
  <2> QED BY <2>1, QuietObeys DEF scheduleVars, circuitVars
<1>6. CASE ControlCircuit
  <2>1. UNCHANGED <<received, scheduleVars>>
      BY <1>6 DEF ControlCircuit, poolVars
  <2>2. circuit = "Open" => circuit' # "Closed"
      BY <1>6 DEF ControlCircuit, EmergencyOpen, ResetCircuit, ConfigureCircuit, MoveTo
  <2> QED BY <2>1, <2>2, QuietObeys DEF scheduleVars
<1>7. CASE \E r \in Recipients, amount \in Amounts, at \in ReleaseTimes : CreateSchedule(r, amount, at)
  <2>1. UNCHANGED <<received, circuit>>
      BY <1>7 DEF CreateSchedule, poolVars, circuitVars
  <2>2. \A i \in Scheduled : schedules'[i] = schedules[i]
    <3>1. Scheduled \subseteq Ids /\ nextId \in Int /\ \A i \in Scheduled : i # nextId
        BY TypesOfSchedules, ScheduledAreIds DEF Scheduled, SchedulesTyped
    <3>2. \A i \in Ids : i # nextId => schedules'[i] = schedules[i]
        BY <1>7 DEF CreateSchedule, TypeOK
    <3> QED BY <3>1, <3>2
  <2> QED BY <2>1, <2>2, QuietObeys
<1> QED BY <1>1, <1>2, <1>3, <1>4, <1>5, <1>6, <1>7 DEF Next

\* Disputes, the whitelist, the circuit breaker, pauses and the governance
\* version stop what they are there to stop, at every way to pay.
THEOREM ControlsAlwaysHold == Spec => ControlsHold
<1>1. TypeOK /\ [Next]_vars => [ControlsObeyed]_vars
    BY StepObeysControls
<1>2. Spec => []TypeOK
  <2>1. Inv => TypeOK
      BY DEF Inv, PoolInv
  <2> QED BY <2>1, PoolInvariant, PTL
<1>3. Spec => [][ControlsObeyed]_vars
    BY <1>1, <1>2, PTL DEF Spec
<1> QED BY <1>3 DEF ControlsHold, ControlsObeyed, PaysOnlyFree, DisputedStay, CircuitStops,
                    PaysSchedulesOnly

-----------------------------------------------------------------------------
(* The prize pool *)

\* Nothing is stored under an id that was not given out yet.
NothingBeyond == \A i \in Ids : i >= nextId => schedules[i] = NoSchedule

\* A schedule is stored under the next id, and what is released has an id below.
LEMMA NothingBeyondStep == SchedulesTyped /\ NothingBeyond /\ [Next]_vars => NothingBeyond'
<1> SUFFICES ASSUME SchedulesTyped, NothingBeyond, [Next]_vars PROVE NothingBeyond'
    OBVIOUS
<1>1. nextId \in Nat /\ Ids \subseteq Nat
    BY BoundsAssumption DEF SchedulesTyped, Ids
<1>2. ASSUME NEW r \in Recipients, NEW amount \in Amounts, NEW at \in ReleaseTimes,
             CreateSchedule(r, amount, at)
      PROVE  NothingBeyond'
  <2>1. nextId' = nextId + 1 /\ \A i \in Ids : i # nextId => schedules'[i] = schedules[i]
      BY <1>2 DEF CreateSchedule, SchedulesTyped
  <2> QED BY <1>1, <2>1 DEF NothingBeyond
<1>3. ASSUME NEW I, NEW by, Releases(I, by) PROVE NothingBeyond'
  <2>1. nextId' = nextId
      BY <1>3 DEF Releases, Release
  <2>2. \A i \in I : i \in 1 .. nextId - 1
      BY <1>3 DEF Releases, Pending, Scheduled
  <2>3. \A i \in Ids : i >= nextId => i \notin I
      BY <1>1, <2>2
  <2>4. \A i \in Ids : i \notin I => schedules'[i] = schedules[i]
      BY <1>3, ReleaseChanges
  <2> QED BY <2>1, <2>3, <2>4 DEF NothingBeyond
<1>4. CASE UNCHANGED scheduleVars
    BY <1>4 DEF NothingBeyond, scheduleVars
<1> QED BY <1>2, <1>3, <1>4, StepsOnSchedules

\* The pool adds up as the contract does, so promises are worth what their
\* schedules are.
LEMMA PoolSums == ASSUME NEW f, NEW S PROVE Pool!Sum(f, S) = Sum(f, S)
BY Zenon DEF Pool!Sum, Sum, MapThenSumSet, Pool!MapThenSumSet, MapThenFoldSet, Pool!MapThenFoldSet

LEMMA PromisesAreSchedules ==
    ASSUME NEW I
    PROVE  /\ Pool!Promised(I) = Scheduling(I)
           /\ I \subseteq Ids =>
                \A r : Pool!Promised({i \in I : Promised[i].to = r}) = SchedulingTo(r, I)
<1>1. [i \in Ids |-> Promised[i].amount] = [i \in Ids |-> schedules[i].amount]
    BY DEF Promised
<1>2. ASSUME NEW J PROVE Pool!Promised(J) = Scheduling(J)
    BY <1>1, PoolSums, Zenon DEF Pool!Promised, Scheduling
<1>3. ASSUME I \subseteq Ids, NEW r
      PROVE  {i \in I : Promised[i].to = r} = {i \in I : schedules[i].recipient = r}
    BY <1>3 DEF Promised
<1> QED BY <1>2, <1>3, Zenon DEF SchedulingTo

\* Open promises are pending schedules.
LEMMA OpenArePending == ASSUME SchedulesTyped PROVE Pool!Open = Pending
<1>1. Scheduled \subseteq Ids
    BY ScheduledAreIds
<1>2. \A i \in Ids : Promised[i].stage = "Open" <=> i \in Scheduled /\ ~schedules[i].released
    BY DEF Promised
<1> QED BY <1>1, <1>2 DEF Pool!Open, Pending

\* As long as the schedules stay, so do the promises.
LEMMA PromisesKept == UNCHANGED scheduleVars => Promised' = Promised
BY DEF scheduleVars, Promised, Scheduled

\* A payout is an award: the books cover it, and no promise is touched.
LEMMA PayoutIsAward ==
    ASSUME Inv, NEW payment, NEW total, Pays(payment, total), total <= remaining,
           UNCHANGED scheduleVars
    PROVE  Pool!Award
<1>1. TypeOK /\ Locked /\ held >= remaining
    BY BackedParts DEF Inv, PoolInv
<1>2. /\ received' \in [Recipients -> Nat] /\ Locked'
      /\ \A r \in Recipients : received'[r] = received[r] + payment[r]
    BY <1>1, PaymentKeepsPool
<1>3. /\ payment \in [Recipients -> Nat] /\ total \in Nat
      /\ remaining' = remaining - total /\ totalFunds' = totalFunds
      /\ remaining \in Int /\ totalFunds \in Int /\ received \in [Recipients -> Nat]
    BY <1>1 DEF Pays, TypeOK
<1>4. held' = held - total
  <2>1. Sum(payment, Recipients) = total /\ Transfer(payment)
      BY DEF Pays
  <2> QED BY <2>1, Zenon DEF Transfer
<1>5. Sum(received', Recipients) - Sum(received, Recipients) = total
  <2>1. totalFunds - remaining = Sum(received, Recipients)
      BY <1>1 DEF Locked
  <2>2. totalFunds' - remaining' = Sum(received', Recipients)
      BY <1>2 DEF Locked
  <2>3. Sum(received', Recipients) = totalFunds - (remaining - total)
      BY <1>3, <2>2
  <2> QED BY <1>3, <2>1, <2>3
<1>6. Pool!Sum(received', Recipients) - Pool!Sum(received, Recipients) = total
    BY <1>5, PoolSums, Zenon
<1>7. \A r \in Recipients : received'[r] >= received[r]
    BY <1>2, <1>3
<1> QED BY <1>2, <1>3, <1>4, <1>6, <1>7, PromisesKept DEF Pool!Award

\* A release keeps the promises it releases.
LEMMA ReleaseKeepsPromises ==
    ASSUME Inv, NEW I, NEW by, Releases(I, by)
    PROVE  I \in SUBSET Pool!Open /\ Pool!KeepPromises(I)
<1>1. TypeOK /\ SchedulesTyped /\ ScheduledHaveRecipient
    BY TypesOfSchedules DEF Inv, PoolInv
<1>2. I \subseteq Pending /\ Pending \subseteq Ids /\ Scheduled' = Scheduled
    BY <1>1, ScheduledAreIds DEF Releases, Release, Pending, Scheduled
<1>3. I \in SUBSET Pool!Open
    BY <1>1, <1>2, OpenArePending
<1>4. /\ Sum([r \in Recipients |-> SchedulingTo(r, I)], Recipients) = Scheduling(I)
      /\ remaining' = remaining - Scheduling(I) /\ totalFunds' = totalFunds
    BY <1>1, ReleasePays DEF Pays
<1>5. /\ Scheduling(I) <= held /\ held' = held - Scheduling(I)
      /\ received' = [r \in Recipients |-> received[r] + SchedulingTo(r, I)]
  <2> DEFINE payment == [r \in Recipients |-> SchedulingTo(r, I)]
  <2>1. Transfer(payment)
      BY DEF Releases, Release
  <2>2. \A r \in Recipients : payment[r] = SchedulingTo(r, I)
      OBVIOUS
  <2>3. Sum(payment, Recipients) = Scheduling(I)
      BY <1>4
  <2> HIDE DEF payment
  <2>4. received' = [r \in Recipients |-> received[r] + payment[r]]
      BY <2>1 DEF Transfer
  <2>5. Scheduling(I) <= held /\ held' = held - Scheduling(I)
      BY <2>1, <2>3, Zenon DEF Transfer
  <2> QED BY <2>2, <2>4, <2>5
<1>6. ASSUME NEW i \in Ids
      PROVE  Promised'[i] = IF i \in I THEN [Promised[i] EXCEPT !.stage = "Kept"] ELSE Promised[i]
  <2>1. CASE i \in I
    <3>1. /\ i \in Scheduled /\ schedules'[i].released
          /\ schedules'[i].recipient = schedules[i].recipient
          /\ schedules'[i].amount = schedules[i].amount
        BY <1>1, <1>2, <2>1, ReleaseChanges DEF Pending
    <3> QED BY <1>2, <2>1, <3>1 DEF Promised
  <2>2. CASE i \notin I
    <3>1. schedules'[i] = schedules[i]
        BY <1>1, <2>2, ReleaseChanges
    <3> QED BY <1>2, <2>2, <3>1 DEF Promised
  <2> QED BY <2>1, <2>2
<1>7. Promised' = [i \in Ids |-> IF i \in I THEN [Promised[i] EXCEPT !.stage = "Kept"] ELSE Promised[i]]
    BY <1>6 DEF Promised
<1>8. /\ Pool!Promised(I) = Scheduling(I)
      /\ \A r : Pool!Promised({i \in I : Promised[i].to = r}) = SchedulingTo(r, I)
    BY <1>2, PromisesAreSchedules
<1> QED BY <1>3, <1>4, <1>5, <1>7, <1>8 DEF Pool!KeepPromises

\* A new schedule makes a promise.
LEMMA ScheduleIsPromise ==
    ASSUME Inv, NothingBeyond, NEW r \in Recipients, NEW amount \in Amounts,
           NEW at \in ReleaseTimes, CreateSchedule(r, amount, at)
    PROVE  nextId \in Ids /\ Pool!MakePromise(nextId)
<1> DEFINE new == [stage |-> "Open", to |-> r, amount |-> amount]
<1>1. SchedulesTyped /\ amount \in Nat \ {0}
    BY TypesOfSchedules, AmountsAssumption DEF Inv, PoolInv
<1>2. /\ nextId \in Ids /\ nextId \in Nat /\ nextId' = nextId + 1 /\ nextId >= 1
  <2>1. MaxSchedules \in Nat /\ nextId \in 1 .. MaxSchedules + 1 /\ nextId <= MaxSchedules
      BY <1>1, BoundsAssumption DEF SchedulesTyped, CreateSchedule
  <2> QED BY <2>1 DEF Ids, CreateSchedule
<1>3. Scheduled' = Scheduled \cup {nextId} /\ nextId \notin Scheduled
    BY <1>2 DEF Scheduled
<1>4. /\ schedules'[nextId].recipient = r /\ schedules'[nextId].amount = amount
      /\ ~schedules'[nextId].released
      /\ \A i \in Ids \ {nextId} : schedules'[i] = schedules[i]
    BY <1>1, <1>2 DEF CreateSchedule, SchedulesTyped
<1>5. Promised[nextId] = Pool!NoPromise
  <2>1. schedules[nextId] = NoSchedule
      BY <1>2 DEF NothingBeyond
  <2>2. NoSchedule.recipient = "nobody" /\ NoSchedule.amount = 0
      BY DEF NoSchedule, Nobody
  <2> QED BY <1>2, <1>3, <2>1, <2>2 DEF Promised, Pool!NoPromise
<1>6. \A i \in Ids : Promised'[i] = IF i = nextId THEN new ELSE Promised[i]
    BY <1>2, <1>3, <1>4 DEF Promised
<1>7. Promised' = [Promised EXCEPT ![nextId] = new]
    BY <1>6 DEF Promised
<1>8. Promised'[nextId].amount = amount
    BY <1>2, <1>6
<1> QED BY <1>1, <1>2, <1>5, <1>7, <1>8 DEF Pool!MakePromise, CreateSchedule, poolVars

\* Every call is one step of the pool, or leaves it alone.
LEMMA StepOfPool ==
    ASSUME Inv, NothingBeyond, [Next]_vars
    PROVE  [Pool!Next]_(Pool!vars)
<1>1. TypeOK /\ totalFunds \in Nat /\ remaining \in Int /\ held \in Nat
    BY DEF Inv, PoolInv, TypeOK
<1>2. ASSUME NEW amount \in Amounts, LockProgramFunds(amount) PROVE Pool!Deposit
  <2>1. amount \in Nat \ {0}
      BY AmountsAssumption
  <2>2. /\ totalFunds' = totalFunds + amount /\ remaining' = remaining + amount
        /\ held' = held + amount /\ received' = received /\ UNCHANGED scheduleVars
      BY <1>2 DEF LockProgramFunds
  <2> QED BY <1>1, <2>1, <2>2, PromisesKept DEF Pool!Deposit
<1>3. CASE \E n \in 1 .. MaxBatch :
               \E recipients \in [1 .. n -> Recipients], amounts \in [1 .. n -> Amounts] :
                   BatchPayout(recipients, amounts)
    BY <1>1, <1>3, BatchPays, PayoutIsAward DEF Pool!Next
<1>4. CASE \E r \in Recipients, amount \in Amounts : SinglePayout(r, amount)
    BY <1>1, <1>4, SinglePays, PayoutIsAward DEF Pool!Next
<1>5. CASE \E r \in Recipients, amount \in Amounts, at \in ReleaseTimes : CreateSchedule(r, amount, at)
    BY <1>5, ScheduleIsPromise DEF Pool!Next
<1>6. CASE (\E i \in Ids : ReleaseManual(i) \/ ReleaseAutomatic(i)) \/ TriggerReleases
    BY <1>6, WaysOfReleasing, ReleaseKeepsPromises DEF Pool!Next
<1>7. CASE \/ OpenDispute \/ CloseDispute
           \/ \E lock, release \in BOOLEAN : SetPaused(lock, release)
           \/ \E r \in Recipients, whitelisted \in BOOLEAN : SetWhitelist(r, whitelisted)
           \/ \E enabled \in BOOLEAN : SetWhitelistEnforced(enabled)
           \/ GovernanceChanges
           \/ ControlCircuit
           \/ Tick
           \/ UNCHANGED vars
  <2>1. UNCHANGED <<poolVars, scheduleVars>>
      BY <1>7 DEF OpenDispute, CloseDispute, SetPaused, SetWhitelist, SetWhitelistEnforced,
                  GovernanceChanges, ControlCircuit, Tick, vars
  <2> QED BY <2>1, PromisesKept DEF poolVars, Pool!vars
<1>8. CASE Gift
  <2>1. held' = held + 1 /\ UNCHANGED <<totalFunds, remaining, received, scheduleVars>>
      BY <1>8 DEF Gift
  <2> QED BY <1>1, <2>1, PromisesKept DEF Pool!Gift, Pool!Next
<1> QED BY <1>2, <1>3, <1>4, <1>5, <1>6, <1>7, <1>8 DEF Next, Pool!Next

\* The program escrow implements the prize pool: whichever of its entry points is
\* called, money moves by deposits, covered awards and promises kept once.
THEOREM ProgramKeepsPool == Spec => KeepsPool
<1>1. Init => Pool!Init
  <2> SUFFICES ASSUME Init PROVE Pool!Init
      OBVIOUS
  <2>1. Scheduled = {}
      BY DEF Init, Scheduled
  <2>2. NoSchedule.recipient = "nobody" /\ NoSchedule.amount = 0
      BY DEF NoSchedule, Nobody
  <2>3. Promised = [i \in Ids |-> Pool!NoPromise]
      BY <2>1, <2>2 DEF Init, Promised, Pool!NoPromise
  <2> QED BY <2>3 DEF Init, Nothing, Pool!Init
<1>2. Init => NothingBeyond
    BY DEF Init, NothingBeyond
<1>3. Inv => SchedulesTyped
    BY DEF Inv, ScheduleInv
<1>4. Spec => []NothingBeyond
    BY <1>2, <1>3, NothingBeyondStep, PoolInvariant, PTL DEF Spec
<1>5. Inv /\ NothingBeyond /\ [Next]_vars => [Pool!Next]_(Pool!vars)
    BY StepOfPool
<1> QED BY <1>1, <1>4, <1>5, PoolInvariant, PTL DEF Spec, KeepsPool, Pool!Spec

-----------------------------------------------------------------------------
(* Liveness *)

\* The schedules that are still to be released, or to be made
Unreleased == {i \in Ids : ~schedules[i].released}
StopsAt(last) == <>[](Unreleased = last)
ReleasesStop == \E last : StopsAt(last)

DueAt(i) == i \in Pending /\ now >= schedules[i].at

\* What DueIsReleased lets a due schedule come to
Stopped(i) ==
    \/ i \notin Pending \/ ~Free(i) \/ ~Payable(schedules[i].recipient)
    \/ globalDispute \/ ~CheckAndAllow \/ ~Covered

\* A schedule that is due stays due until it is released, and none that was
\* released becomes unreleased.
LEMMA DueStays ==
    ASSUME Inv, [Next]_vars
    PROVE  /\ \A i \in Ids : DueAt(i) => DueAt(i)' \/ i \notin Pending'
           /\ Unreleased' \subseteq Unreleased
<1>1. /\ SchedulesTyped /\ UnusedIsUnreleased
      /\ nextId \in Nat /\ now \in Nat /\ \A i \in Ids : schedules[i].at \in Nat
    BY BoundsAssumption DEF Inv, ScheduleInv, SchedulesTyped, Schedule
<1>2. ASSUME NEW r \in Recipients, NEW amount \in Amounts, NEW at \in ReleaseTimes,
             CreateSchedule(r, amount, at)
      PROVE  /\ \A i \in Ids : DueAt(i) => DueAt(i)' \/ i \notin Pending'
             /\ Unreleased' \subseteq Unreleased
  <2>1. /\ \A i \in Ids : i # nextId => schedules'[i] = schedules[i]
        /\ ~schedules[nextId].released /\ now' = now
      BY <1>1, <1>2 DEF CreateSchedule, SchedulesTyped, UnusedIsUnreleased, Ids
  <2>2. \A i \in Ids : i \in Pending => i # nextId
      BY <1>1 DEF Pending, Scheduled
  <2> QED BY <1>1, <2>1, <2>2 DEF DueAt, Unreleased
<1>3. ASSUME NEW I, NEW by, Releases(I, by)
      PROVE  /\ \A i \in Ids : DueAt(i) => DueAt(i)' \/ i \notin Pending'
             /\ Unreleased' \subseteq Unreleased
  <2>1. \A i \in Ids : /\ schedules'[i].released <=> i \in I \/ schedules[i].released
                       /\ schedules'[i].at = schedules[i].at
      BY <1>1, <1>3, ReleaseChanges
  <2>2. now' = now
      BY <1>3 DEF Releases, Release
  <2> QED BY <2>1, <2>2 DEF DueAt, Unreleased
<1>4. ASSUME UNCHANGED scheduleVars, Tick \/ UNCHANGED now
      PROVE  /\ \A i \in Ids : DueAt(i) => DueAt(i)' \/ i \notin Pending'
             /\ Unreleased' \subseteq Unreleased
  <2>1. schedules' = schedules /\ nextId' = nextId /\ now' >= now
      BY <1>1, <1>4 DEF scheduleVars, Tick
  <2> QED BY <1>1, <1>4, <2>1 DEF DueAt, Unreleased, Tick
<1> QED BY <1>2, <1>3, <1>4, StepsOnSchedules

\* A trigger releases at least one schedule.
LEMMA TriggerTakes ==
    ASSUME Inv, TriggerReleases
    PROVE  Unreleased' # Unreleased
<1>1. SchedulesTyped /\ Releases(Triggered, "contract") /\ Triggered # {}
    BY WaysOfReleasing DEF TriggerReleases, Inv, ScheduleInv
<1>2. PICK i \in Triggered : TRUE
    BY <1>1
<1>3. i \in Ids /\ i \in Pending
    BY <1>1, <1>2, ScheduledAreIds DEF Releases, Pending
<1>4. ~schedules[i].released /\ schedules'[i].released
    BY <1>1, <1>2, <1>3, ReleaseChanges DEF Pending
<1> QED BY <1>3, <1>4 DEF Unreleased

\* Under the fairness of the service that triggers releases, what is due is released
\* in the end, or something stands against it that the property names.  Each trigger
\* takes schedules away from those that are unreleased; that it has an effect as
\* long as one is due is the invariant DueCanBeReleased.
THEOREM DueIsAlwaysReleased ==
    FairSpec /\ []DueCanBeReleased /\ StopsShrinking(Unreleased) => DueIsReleased
<1>1. SUFFICES ASSUME NEW i \in Ids
               PROVE  FairSpec /\ []DueCanBeReleased /\ StopsShrinking(Unreleased)
                          => (DueAt(i) ~> Stopped(i))
    BY <1>1 DEF DueIsReleased, DueAt, Stopped
<1> DEFINE Released == FairSpec /\ []DueCanBeReleased => (DueAt(i) ~> Stopped(i))
<1>2. IsFiniteSet(Unreleased)
  <2>1. IsFiniteSet(Ids) /\ Unreleased \subseteq Ids
      BY BoundsAssumption, FS_Interval DEF Ids, Unreleased
  <2> QED BY <2>1, FS_Subset
<1>3. Inv /\ [Next]_vars => [Unreleased' \subseteq Unreleased]_Unreleased
    BY DueStays
<1>4. FairSpec /\ StopsShrinking(Unreleased) => ReleasesStop
    BY <1>2, <1>3, PoolInvariant, PTL DEF FairSpec, Spec, StopsShrinking, ReleasesStop, StopsAt
<1>5. ASSUME NEW last PROVE StopsAt(last) => Released
  <2>1. Inv /\ [Next]_vars /\ DueAt(i) => DueAt(i)' \/ Stopped(i)'
      BY DueStays DEF Stopped
  <2>2. DueCanBeReleased /\ DueAt(i) /\ ~Stopped(i) => ENABLED <<TriggerReleases>>_vars
    <3>1. DueAt(i) /\ ~Stopped(i) => Due # {} /\ CheckAndAllow /\ ~globalDispute /\ Covered
        BY DEF DueAt, Stopped, Due, IsDue
    <3> QED BY <3>1 DEF DueCanBeReleased
  <2>3. Inv /\ Unreleased = last /\ <<TriggerReleases>>_vars => ~((Unreleased = last)')
      BY TriggerTakes
  <2> QED BY <2>1, <2>2, <2>3, PoolInvariant, PTL DEF FairSpec, Spec, StopsAt
<1> HIDE DEF Released
<1>6. ReleasesStop => Released
    BY <1>5 DEF ReleasesStop
<1> QED BY <1>4, <1>6, PTL DEF Released
=============================================================================
