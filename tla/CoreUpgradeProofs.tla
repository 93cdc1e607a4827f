-------------------------- MODULE CoreUpgradeProofs --------------------------
(***************************************************************************)
(* Safety of the core contract's upgrades, for every set of hashes,        *)
(* versions and delays, every multisig and every bound on time.            *)
(***************************************************************************)
EXTENDS CoreUpgrade, Descent, FiniteSetTheorems, TLAPS

-----------------------------------------------------------------------------
(* The inductive invariant *)

\* Types of what the proofs speak of
UpgradeTyped ==
    /\ mode \in Mode /\ admin \in BOOLEAN
    /\ delay \in Nat
    /\ schedule \subseteq ScheduledUpgrade /\ (\A s, t \in schedule : s = t)
    /\ version \in Nat \cup {Absent}
    /\ migration \subseteq MigrationState /\ (\A m, n \in migration : m = n)
    /\ runs \in [Steps -> Nat]
    /\ now \in 0 .. MaxTime

MultisigTyped ==
    /\ signers \subseteq Addresses /\ threshold \in Nat
    /\ proposals \in [M!ProposalIds -> M!Proposal]
    /\ counter \in 0 .. MaxProposals
    /\ nonce \in Nat
    /\ code \in Hashes \cup {InitialCode}

\* The configured delay and the pending schedule both leave the shortest window,
\* the schedule by its own times, whatever the delay is by now.
WindowIsKept ==
    /\ delay >= MinDelay
    /\ \A s \in schedule : s.executable_at >= s.scheduled_at + MinDelay

UpgradeInv ==
    /\ UpgradeTyped
    /\ MultisigTyped
    /\ WindowIsKept
    /\ OneAuthority
    /\ MigrationRecordIsTrue

\* A call of the multisig succeeds only where the multisig was claimed: without
\* signers and proposals every entry point panics.  It keeps the multisig's types.
LEMMA MultisigNeedsClaim ==
    ASSUME UpgradeInv, M!Next
    PROVE  mode = "Multisig" /\ MultisigTyped'
<1> USE MultisigAssumption DEF UpgradeInv, OneAuthority, MultisigTyped, M!ProposalIds
<1>1. ASSUME NEW s \in Addresses, NEW hash \in Hashes, M!Propose(s, hash)
      PROVE  mode = "Multisig" /\ MultisigTyped'
    BY <1>1 DEF M!Propose, M!Proposal, M!Unused
<1>2. ASSUME NEW s \in Addresses, NEW p \in M!ProposalIds, M!Approve(p, s)
      PROVE  mode = "Multisig" /\ MultisigTyped'
    <2>1. p \in 1 .. counter /\ proposals[p] \in M!Proposal
        BY <1>2 DEF M!Approve, M!Proposed
    <2>2. [proposals[p] EXCEPT !.approvals = @ \cup {s}] \in M!Proposal
        BY <2>1 DEF M!Proposal
    <2>3. proposals' = [proposals EXCEPT ![p] = [proposals[p] EXCEPT !.approvals = @ \cup {s}]]
        BY <1>2, <2>1 DEF M!Approve
    <2>4. proposals' \in [M!ProposalIds -> M!Proposal]
        BY <2>2, <2>3
    <2> QED BY <1>2, <2>1, <2>4 DEF M!Approve
<1>3. ASSUME NEW s \in Addresses, M!RemoveSigner(s)
      PROVE  mode = "Multisig" /\ MultisigTyped'
    BY <1>3 DEF M!RemoveSigner
<1>4. ASSUME NEW s \in Addresses, M!AddSigner(s)
      PROVE  mode = "Multisig" /\ MultisigTyped'
    BY <1>4 DEF M!AddSigner
<1>5. ASSUME NEW p \in M!ProposalIds, NEW expected, M!ExecuteUpgrade(p, expected)
      PROVE  mode = "Multisig" /\ MultisigTyped'
    <2> DEFINE done == [proposals[p] EXCEPT !.executed = TRUE, !.nonce = nonce]
    <2>1. p \in 1 .. counter /\ proposals[p] \in M!Proposal
        BY <1>5 DEF M!ExecuteUpgrade, M!Proposed
    <2>2. done \in M!Proposal
        BY <2>1 DEF M!Proposal
    <2>3. proposals' = [proposals EXCEPT ![p] = done]
        BY <1>5, <2>1 DEF M!ExecuteUpgrade
    <2>4. proposals' \in [M!ProposalIds -> M!Proposal]
        BY <2>2, <2>3
    <2>5. code' \in Hashes \cup {InitialCode}
      <3>1. proposals[p].hash \in Hashes \cup {InitialCode}
          BY <2>1 DEF M!Proposal
      <3> QED BY <1>5, <3>1 DEF M!ExecuteUpgrade, M!Install
    <2> QED BY <1>5, <2>1, <2>4, <2>5 DEF M!ExecuteUpgrade, M!NonceConsumed
<1>6. ASSUME NEW add \in SUBSET Addresses, NEW remove, NEW t \in Nat,
             M!RotateSigners(add, remove, t)
      PROVE  mode = "Multisig" /\ MultisigTyped'
    BY <1>6 DEF M!RotateSigners
<1> QED BY <1>1, <1>2, <1>3, <1>4, <1>5, <1>6 DEF M!Next

\* The contract before its initialisation satisfies the inductive invariant.
LEMMA UpgradeInvInit == Init => UpgradeInv
<1> SUFFICES ASSUME Init PROVE UpgradeInv
    OBVIOUS
<1> USE DEF Init
<1>1. UpgradeTyped
  <2>1. mode \in Mode /\ delay \in Nat /\ version \in Nat \cup {Absent} /\ runs \in [Steps -> Nat]
      BY DelaysAssumption DEF Mode, Absent, Steps
  <2>2. /\ schedule \subseteq ScheduledUpgrade /\ (\A s, t \in schedule : s = t)
        /\ migration \subseteq MigrationState /\ (\A m, n \in migration : m = n)
    <3>1. schedule = {} /\ migration = {}
        OBVIOUS
    <3> QED BY <3>1, Zenon
  <2>3. admin \in BOOLEAN
      BY Zenon
  <2>4. now \in 0 .. MaxTime
      BY TimeAssumption
  <2> QED BY <2>1, <2>2, <2>3, <2>4 DEF UpgradeTyped
<1>2. MultisigTyped /\ WindowIsKept
    BY DelaysAssumption, MultisigAssumption DEF WindowIsKept, MultisigTyped, M!NoProposal,
       M!Proposal, M!Unused
<1>3. OneAuthority /\ MigrationRecordIsTrue
    BY DEF OneAuthority, MigrationRecordIsTrue
<1> QED BY <1>1, <1>2, <1>3 DEF UpgradeInv

\* One step per action; UpgradeInv splits into what the action can disturb.
LEMMA UpgradeInvStep == UpgradeInv /\ [Next]_vars => UpgradeInv'
<1> SUFFICES ASSUME UpgradeInv, [Next]_vars PROVE UpgradeInv'
    OBVIOUS
<1> USE DEF UpgradeInv, multisigVars, adminVars, MultisigTyped
<1>1. CASE Tick
    BY <1>1, TimeAssumption DEF Tick, UpgradeTyped, WindowIsKept, OneAuthority,
       MigrationRecordIsTrue
<1>2. CASE InitMultisig
    BY <1>2, MultisigAssumption DEF InitMultisig, Unclaimed, UpgradeTyped, WindowIsKept, OneAuthority,
       MigrationRecordIsTrue, Mode, CurrentVersion
<1>3. CASE InitGovernance
    BY <1>3 DEF InitGovernance, UpgradeTyped, WindowIsKept, OneAuthority,
       MigrationRecordIsTrue, Mode
<1>4. CASE InitAdmin
    BY <1>4 DEF InitAdmin, MayInitAdmin, UpgradeTyped, WindowIsKept, OneAuthority,
       MigrationRecordIsTrue, Mode, CurrentVersion
<1>5. ASSUME NEW d \in Delays, SetUpgradeDelay(d) PROVE UpgradeInv'
    BY <1>5, DelaysAssumption DEF SetUpgradeDelay, LongEnough, UpgradeTyped, WindowIsKept,
       OneAuthority, MigrationRecordIsTrue
<1>6. ASSUME NEW hash \in Hashes, ScheduleUpgrade(hash) PROVE UpgradeInv'
    <2> DEFINE s == [wasm_hash |-> hash, scheduled_at |-> now, executable_at |-> ExecutableAt]
    <2>1. ExecutableAt \in Nat /\ ExecutableAt >= now + MinDelay
        BY DelaysAssumption, TimeAssumption DEF ExecutableAt, UpgradeTyped, WindowIsKept
    <2>2. s \in ScheduledUpgrade /\ s.executable_at >= s.scheduled_at + MinDelay
        BY <2>1, TimeAssumption DEF ScheduledUpgrade, UpgradeTyped
    <2>3. schedule' = {s} /\ UNCHANGED <<multisigVars, code, mode, admin, delay, version,
                                         migration, runs, now>>
        BY <1>6 DEF ScheduleUpgrade, Scheduled
    <2> HIDE DEF s
    <2>4. UpgradeTyped' /\ WindowIsKept' /\ MultisigTyped'
        BY <2>2, <2>3 DEF UpgradeTyped, WindowIsKept
    <2>5. OneAuthority'
        BY <1>6, <2>3 DEF ScheduleUpgrade, OneAuthority
    <2>6. MigrationRecordIsTrue'
        BY <2>3 DEF MigrationRecordIsTrue
    <2> QED BY <2>4, <2>5, <2>6
<1>7. ASSUME NEW hash \in Hashes, Upgrade(hash) PROVE UpgradeInv'
    BY <1>7 DEF Upgrade, UpgradeTyped, WindowIsKept, OneAuthority,
       MigrationRecordIsTrue
<1>8. ASSUME NEW v \in Versions, SetVersion(v) PROVE UpgradeInv'
    BY <1>8, VersionsAssumption DEF SetVersion, AdminSets, UpgradeTyped, WindowIsKept,
       OneAuthority, MigrationRecordIsTrue
<1>9. ASSUME NEW v \in Versions, Migrate(v) PROVE UpgradeInv'
    <2>1. CASE UNCHANGED vars
        BY <2>1 DEF vars, UpgradeTyped, WindowIsKept, OneAuthority,
           MigrationRecordIsTrue
    <2>2. CASE ~Completed(v) /\ ~UNCHANGED vars
        <3> DEFINE m == [from_version |-> version, to_version |-> v]
        <3>1. /\ admin /\ v > version /\ version + 1 .. v \subseteq Steps
              /\ runs' = [s \in Steps |-> IF s \in version + 1 .. v THEN runs[s] + 1 ELSE runs[s]]
              /\ version' = v /\ migration' = {m}
              /\ UNCHANGED <<multisigVars, code, mode, admin, delay, schedule, now>>
            BY <1>9, <2>2 DEF Migrate, StepsTo
        <3>2. v \in Nat /\ version \in Nat
            <4>1. v \in Nat /\ version + 1 \in version + 1 .. v
                BY <3>1, VersionsAssumption DEF UpgradeTyped, Absent
            <4> QED BY <3>1, <4>1 DEF UpgradeTyped, Absent, Steps
        <3>3. m \in MigrationState /\ m.from_version = version /\ m.to_version = v
            BY <3>2 DEF MigrationState
        <3> HIDE DEF m
        <3>4. UpgradeTyped' /\ MultisigTyped'
            BY <3>1, <3>2, <3>3 DEF UpgradeTyped
        <3>5. WindowIsKept' /\ OneAuthority'
            BY <3>1 DEF WindowIsKept, OneAuthority
        <3>6. \A s \in version + 1 .. v : s \in Steps /\ runs'[s] > 0
            BY <3>1 DEF UpgradeTyped
        <3>7. MigrationRecordIsTrue'
            BY <3>1, <3>3, <3>6 DEF MigrationRecordIsTrue
        <3> QED BY <3>4, <3>5, <3>7
    <2> QED BY <1>9, <2>1, <2>2 DEF Migrate
<1>10. CASE MultisigCall
    <2>1. mode = "Multisig" /\ MultisigTyped'
        BY <1>10, MultisigNeedsClaim DEF MultisigCall
    <2> QED BY <1>10, <2>1 DEF MultisigCall, UpgradeTyped, WindowIsKept, OneAuthority,
               MigrationRecordIsTrue
<1>11. CASE UNCHANGED vars
    BY <1>11 DEF vars, UpgradeTyped, WindowIsKept, OneAuthority,
       MigrationRecordIsTrue
<1> QED
    BY <1>1, <1>2, <1>3, <1>4, <1>5, <1>6, <1>7, <1>8, <1>9, <1>10, <1>11 DEF Next

\* So the inductive invariant holds in every reachable state.
LEMMA UpgradeInvHolds == Spec => []UpgradeInv
    BY UpgradeInvInit, UpgradeInvStep, PTL DEF Spec

-----------------------------------------------------------------------------
(* Theorems *)

\* Every variable has its type, the multisig's among them, and at most one
\* upgrade and one migration is on record.
THEOREM UpgradeTypes == Spec => []TypeOK
    BY UpgradeInvHolds, PTL DEF UpgradeInv, UpgradeTyped, MultisigTyped, TypeOK

\* Only the authority that was claimed leaves anything behind.
THEOREM OneAuthorityOnly == Spec => []OneAuthority
    BY UpgradeInvHolds, PTL DEF UpgradeInv

\* The migration record never claims a step that has not run.
THEOREM MigrationRecordStaysTrue == Spec => []MigrationRecordIsTrue
    BY UpgradeInvHolds, PTL DEF UpgradeInv

\* The way of upgrading never changes once claimed.
THEOREM ClaimsAreFinal == Spec => ClaimIsFinal
<1>1. [Next]_vars => (mode # "None" => mode' = mode)
    BY DEF Next, vars, Tick, InitMultisig, Unclaimed, InitGovernance, InitAdmin, MayInitAdmin,
       SetUpgradeDelay, ScheduleUpgrade, Upgrade, SetVersion, Migrate, MultisigCall
<1> QED BY <1>1, PTL DEF Spec, ClaimIsFinal

\* No call replaces the code without the mandate of the authority in charge.
THEOREM ChangesAlwaysHaveMandate == Spec => ChangesHaveMandate
<1> DEFINE Mandated == code' # code => \/ mode = "SingleAdmin" /\ ReviewWindow
                                       \/ mode = "Multisig" /\ QuorumUsed
<1>1. ASSUME UpgradeInv, [Next]_vars PROVE Mandated
    <2>1. CASE MultisigCall
        <3>1. SUFFICES ASSUME code' # code PROVE mode = "Multisig" /\ QuorumUsed
            OBVIOUS
        <3>2. PICK p, expected : M!ExecuteUpgrade(p, expected)
            BY <2>1, <3>1 DEF MultisigCall, M!Next, M!Propose, M!Approve, M!RemoveSigner,
               M!AddSigner, M!RotateSigners
        <3>3. p \in M!Proposed /\ M!CanExecute(p) /\ proposals[p].hash = code'
            BY <3>2 DEF M!ExecuteUpgrade, M!Install
        <3>4. proposals'[p].executed
            BY <1>1, <3>2, <3>3, MultisigAssumption DEF M!ExecuteUpgrade, M!Proposed, M!Proposal,
               M!ProposalIds, UpgradeInv, MultisigTyped
        <3> QED BY <1>1, <2>1, <3>3, <3>4, MultisigNeedsClaim DEF MultisigCall, QuorumUsed
    <2>2. CASE \E hash \in Hashes : Upgrade(hash)
        <3> SUFFICES mode = "SingleAdmin" /\ ReviewWindow
            OBVIOUS
        <3>1. PICK hash \in Hashes : Upgrade(hash)
            BY <2>2
        <3>2. PICK s \in schedule : Ready(s, hash)
            BY <3>1 DEF Upgrade
        <3>3. s.wasm_hash = code' /\ s.executable_at <= now /\ mode = "SingleAdmin"
            BY <1>1, <3>1, <3>2 DEF Upgrade, Ready, UpgradeInv, OneAuthority
        <3>4. s.executable_at >= s.scheduled_at + MinDelay
            BY <1>1 DEF UpgradeInv, WindowIsKept
        <3>5. s.scheduled_at \in Nat /\ s.executable_at \in Nat /\ now \in Int
            BY <1>1, TimeAssumption DEF UpgradeInv, UpgradeTyped, ScheduledUpgrade
        <3>6. s.scheduled_at + MinDelay <= now
            BY <3>3, <3>4, <3>5, DelaysAssumption
        <3>7. ReviewWindow
            BY <3>3, <3>6 DEF ReviewWindow
        <3> QED BY <3>3, <3>7
    <2>3. CASE ~MultisigCall /\ ~(\E hash \in Hashes : Upgrade(hash))
        BY <1>1, <2>3 DEF Next, vars, Tick, InitMultisig, InitGovernance, InitAdmin,
           SetUpgradeDelay, ScheduleUpgrade, SetVersion, Migrate
    <2> QED BY <2>1, <2>2, <2>3
<1> QED BY <1>1, UpgradeInvHolds, PTL DEF Spec, ChangesHaveMandate

\* A recorded migration is only followed by one to a later version.
THEOREM MigrationsAlwaysAdvance == Spec => MigrationsAdvance
<1> DEFINE Advance == migration' # migration =>
              \A m \in migration, n \in migration' : m.to_version < n.to_version
<1>1. ASSUME UpgradeInv, [Next]_vars PROVE Advance
    <2>1. ASSUME NEW v \in Versions, Migrate(v), migration' # migration PROVE Advance
        <3>1. ~Completed(v) /\ migration' = {[from_version |-> version, to_version |-> v]}
            BY <2>1 DEF Migrate, vars, adminVars
        <3>2. \A m \in migration : m.to_version \in Nat
            BY <1>1 DEF UpgradeInv, UpgradeTyped, MigrationState
        <3> QED BY <3>1, <3>2, VersionsAssumption DEF Completed
    <2>2. ASSUME ~(\E v \in Versions : Migrate(v)) PROVE migration' = migration
        BY <1>1, <2>2 DEF Next, vars, adminVars, Tick, InitMultisig, InitGovernance, InitAdmin,
           SetUpgradeDelay, ScheduleUpgrade, Upgrade, SetVersion, MultisigCall
    <2> QED BY <2>1, <2>2
<1> QED BY <1>1, UpgradeInvHolds, PTL DEF Spec, MigrationsAdvance

-----------------------------------------------------------------------------
(* Liveness *)

\* That a ledger can close, and the admin's due upgrade can be installed, when their
\* own guards hold.  This unfolds ENABLED, for which the prover has no rule, and says
\* nothing else; the theorems about liveness have it as a hypothesis.
CallsHaveEffect ==
    /\ now < MaxTime => ENABLED <<Tick>>_vars
    /\ admin /\ (\E s \in schedule : now >= s.executable_at) => ENABLED <<InstallScheduled>>_vars

\* Whatever is scheduled, the admin who may install it is there.
ScheduleHasAdmin == schedule # {} => admin

LEMMA ScheduleAlwaysHasAdmin == Spec => []ScheduleHasAdmin
<1>1. Init => ScheduleHasAdmin
    BY DEF Init, ScheduleHasAdmin
<1>2. ScheduleHasAdmin /\ [Next]_vars => ScheduleHasAdmin'
    BY DEF ScheduleHasAdmin, Next, vars, adminVars, Tick, InitMultisig, InitGovernance,
       InitAdmin, SetUpgradeDelay, ScheduleUpgrade, Upgrade, SetVersion, Migrate, MultisigCall
<1> QED BY <1>1, <1>2, PTL DEF Spec

\* The times that are still to come, within the model's bound
TimeLeft == now + 1 .. MaxTime
StopsAt(last) == <>[](TimeLeft = last)
TimeStops == \E last : StopsAt(last)
TimeComes(t) == <>[](now >= t)

ScheduledAt(t) == \E s \in schedule : s.executable_at = t
NotScheduledAt(t) == \A s \in schedule : s.executable_at # t

\* The ledger's time does not go back.
LEMMA TimeAdvances == UpgradeInv /\ [Next]_vars => now' \in Nat /\ now \in Nat /\ now <= now'
<1> SUFFICES ASSUME UpgradeInv, [Next]_vars PROVE now' \in Nat /\ now \in Nat /\ now <= now'
    OBVIOUS
<1>1. now \in Nat
    BY TimeAssumption DEF UpgradeInv, UpgradeTyped
<1>2. Tick => now' = now + 1
    BY DEF Tick
<1>3. ASSUME NEW v \in Versions, Migrate(v) PROVE now' = now
    BY <1>3 DEF Migrate, vars
<1>4. ASSUME ~Tick, ~(\E v \in Versions : Migrate(v)) PROVE now' = now
    BY <1>4 DEF Next, vars, InitMultisig, InitGovernance, InitAdmin,
       SetUpgradeDelay, ScheduleUpgrade, Upgrade, SetVersion, MultisigCall
<1> QED BY <1>1, <1>2, <1>3, <1>4

\* Under the ledger's fairness every time that the model has comes and stays.
LEMMA EveryTimeComes ==
    ASSUME NEW t \in 0 .. MaxTime
    PROVE  FairSpec /\ []CallsHaveEffect /\ StopsShrinking(TimeLeft) => TimeComes(t)
<1> DEFINE Comes == FairSpec /\ []CallsHaveEffect => TimeComes(t)
<1>1. UpgradeInv => IsFiniteSet(TimeLeft)
  <2> SUFFICES ASSUME UpgradeInv PROVE IsFiniteSet(TimeLeft)
      OBVIOUS
  <2> QED BY TimeAssumption, FS_Interval DEF UpgradeInv, UpgradeTyped, TimeLeft
<1>2. UpgradeInv /\ [Next]_vars => [TimeLeft' \subseteq TimeLeft]_TimeLeft
  <2> SUFFICES ASSUME UpgradeInv, [Next]_vars PROVE TimeLeft' \subseteq TimeLeft
      OBVIOUS
  <2> QED BY TimeAdvances, TimeAssumption DEF TimeLeft
<1>3. FairSpec /\ StopsShrinking(TimeLeft) => TimeStops
    BY <1>1, <1>2, UpgradeInvHolds, PTL DEF StopsShrinking, TimeStops, StopsAt, FairSpec, Spec
<1>4. ASSUME NEW last PROVE StopsAt(last) => Comes
  <2>1. UpgradeInv /\ ~(now >= t) => now < MaxTime
      BY TimeAssumption DEF UpgradeInv, UpgradeTyped
  <2>2. CallsHaveEffect /\ now < MaxTime => ENABLED <<Tick>>_vars
      BY DEF CallsHaveEffect
  <2>3. UpgradeInv /\ TimeLeft = last /\ <<Tick>>_vars => ~((TimeLeft = last)')
      BY TimeAssumption DEF UpgradeInv, UpgradeTyped, Tick, TimeLeft
  <2>4. UpgradeInv /\ [Next]_vars /\ now >= t => (now >= t)'
    <3> SUFFICES ASSUME UpgradeInv, [Next]_vars, now >= t PROVE now' >= t
        OBVIOUS
    <3> QED BY TimeAdvances
  <2> QED BY <2>1, <2>2, <2>3, <2>4, UpgradeInvHolds, PTL DEF StopsAt, TimeComes, FairSpec, Spec
<1> HIDE DEF Comes
<1>5. TimeStops => Comes
    BY <1>4 DEF TimeStops
<1> QED BY <1>3, <1>5, PTL DEF Comes

\* An upgrade that the admin announced is installed or replaced in the end: its time
\* comes, the admin who may install it stays, no later delay, version or migration moves
\* that time, and installing it leaves no schedule.
THEOREM ScheduledIsAlwaysInstalled ==
    FairSpec /\ []CallsHaveEffect /\ StopsShrinking(TimeLeft) => ScheduledIsInstalled
<1>1. SUFFICES ASSUME NEW t \in 0 .. MaxTime
               PROVE  FairSpec /\ []CallsHaveEffect /\ StopsShrinking(TimeLeft)
                          => (ScheduledAt(t) ~> NotScheduledAt(t))
    BY <1>1 DEF ScheduledIsInstalled, ScheduledAt, NotScheduledAt
<1>2. ScheduledAt(t) \/ NotScheduledAt(t)
    BY DEF ScheduledAt, NotScheduledAt
<1>3. CallsHaveEffect /\ ScheduleHasAdmin /\ ScheduledAt(t) /\ now >= t
          => ENABLED <<InstallScheduled>>_vars
    BY DEF CallsHaveEffect, ScheduleHasAdmin, ScheduledAt
<1>4. InstallScheduled => NotScheduledAt(t)'
    BY DEF InstallScheduled, Upgrade, NotScheduledAt
<1> QED BY <1>2, <1>3, <1>4, EveryTimeComes, ScheduleAlwaysHasAdmin, PTL DEF TimeComes, FairSpec
=============================================================================
