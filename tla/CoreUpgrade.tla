----------------------------- MODULE CoreUpgrade -----------------------------
(***************************************************************************)
(* Who may replace the code of the core contract                           *)
(* (grainlify-core/src/lib.rs): the three ways to initialise it, each of   *)
(* which claims the contract for one authority, the timelock of the single *)
(* admin, the version number and the migrations, composed with the         *)
(* multisig, whose state lies in the same contract.                        *)
(*                                                                         *)
(* Governance appears as the mode it claims: none of its entry points      *)
(* writes what is modelled here, execute_proposal included, which records  *)
(* the decision and installs nothing.  PreviousVersion, migrated_at and    *)
(* the migration hash are left out, since nothing reads them.  A call that *)
(* panics changes nothing, so a panic is a guard.                          *)
(***************************************************************************)
EXTENDS Integers, FiniteSets

CONSTANTS
    Addresses, Hashes, MaxProposals,                \* as in MultiSig
    InitialSigners, InitialThreshold, InitialCode,  \* as in MultiSig
    MinDelay,      \* MIN_UPGRADE_DELAY_SECONDS
    DefaultDelay,  \* DEFAULT_UPGRADE_DELAY_SECONDS
    Delays,        \* values given to set_upgrade_delay
    Versions,      \* values given to set_version and migrate
    Ceiling,       \* u64::MAX, where executable_at saturates
    MaxTime        \* bound on the ledger's timestamp

ASSUME MultisigAssumption ==
    /\ MaxProposals \in Nat
    /\ InitialSigners \subseteq Addresses /\ InitialThreshold \in Nat
ASSUME DelaysAssumption ==
    /\ MinDelay \in Nat /\ DefaultDelay \in Nat /\ DefaultDelay >= MinDelay
    /\ Delays \subseteq Nat
ASSUME VersionsAssumption == Versions \subseteq Nat

\* Timestamps are seconds; the clock does not come near the end of u64
ASSUME TimeAssumption ==
    /\ Ceiling \in Nat /\ MaxTime \in Nat
    /\ MaxTime + MinDelay <= Ceiling

VARIABLES
    signers, threshold, proposals, counter, nonce,  \* as in MultiSig
    code,       \* the WASM the contract runs
    mode,       \* DataKey::UpgradeMode
    admin,      \* whether DataKey::Admin is stored
    delay,      \* DataKey::UpgradeDelay, or its default
    schedule,   \* DataKey::ScheduledUpgrade: at most one
    version,    \* DataKey::Version
    migration,  \* DataKey::MigrationState: at most one
    runs,       \* how often each migration step has run
    now         \* the ledger's timestamp

multisigVars == <<signers, threshold, proposals, counter, nonce>>
adminVars == <<delay, schedule, version, migration, runs>>
vars == <<multisigVars, code, mode, admin, adminVars, now>>

M == INSTANCE MultiSig

-----------------------------------------------------------------------------
(* State *)

Mode == {"None", "Multisig", "Governance", "SingleAdmin"}
ScheduledUpgrade == [wasm_hash : Hashes, scheduled_at : Nat, executable_at : Nat]
MigrationState == [from_version : Nat, to_version : Nat]

Absent == -1       \* no version is stored
CurrentVersion == 2  \* VERSION
Steps == {2, 3}    \* the versions a migration step leads to

Init ==
    /\ signers = {} /\ threshold = 0 /\ counter = 0 /\ nonce = 0
    /\ proposals = [p \in M!ProposalIds |-> M!NoProposal]
    /\ code = InitialCode
    /\ mode = "None"
    /\ admin = FALSE
    /\ delay = DefaultDelay
    /\ schedule = {}
    /\ version = Absent
    /\ migration = {}
    /\ runs = [s \in Steps |-> 0]
    /\ now = 0

Tick ==
    /\ now < MaxTime
    /\ now' = now + 1
    /\ UNCHANGED <<multisigVars, code, mode, admin, adminVars>>

-----------------------------------------------------------------------------
(* Initialisation *)

Unclaimed ==
    /\ version = Absent
    /\ mode = "None"

InitMultisig ==
    /\ Unclaimed
    /\ mode' = "Multisig"
    /\ signers' = InitialSigners
    /\ threshold' = InitialThreshold
    /\ version' = CurrentVersion
    /\ UNCHANGED <<proposals, counter, nonce, code, admin, delay, schedule,
                   migration, runs, now>>

InitGovernance ==
    /\ mode = "None"
    /\ mode' = "Governance"
    /\ UNCHANGED <<multisigVars, code, admin, adminVars, now>>

\* Mutant: init_admin asks only whether an admin is stored
MayInitAdminTwice == ~admin

MayInitAdmin ==
    /\ ~admin
    /\ mode = "None"

InitAdmin ==
    /\ MayInitAdmin
    /\ admin' = TRUE
    /\ mode' = "SingleAdmin"
    /\ version' = CurrentVersion
    /\ UNCHANGED <<multisigVars, code, delay, schedule, migration, runs, now>>

-----------------------------------------------------------------------------
(* The single admin's upgrades *)

LongEnough(d) == d >= MinDelay

SetUpgradeDelay(d) ==
    /\ admin
    /\ LongEnough(d)
    /\ delay' = d
    /\ UNCHANGED <<multisigVars, code, mode, admin, schedule, version, migration, runs, now>>

\* Mutant: a new schedule keeps the time of the one it replaces
ExecutableKept ==
    IF schedule = {} THEN now + delay
    ELSE (CHOOSE s \in schedule : TRUE).executable_at

\* now.saturating_add(delay)
ExecutableAt == IF now + delay > Ceiling THEN Ceiling ELSE now + delay

\* A schedule replaces the one before
Scheduled(s) == {s}

ScheduleUpgrade(hash) ==
    /\ admin
    /\ schedule' = Scheduled([wasm_hash |-> hash, scheduled_at |-> now,
                              executable_at |-> ExecutableAt])
    /\ UNCHANGED <<multisigVars, code, mode, admin, delay, version, migration, runs, now>>

\* Mutant: the delay of today decides, not that of the schedule
ReadyByDelay(s, hash) == s.wasm_hash = hash /\ now >= s.scheduled_at + delay

Ready(s, hash) == s.wasm_hash = hash /\ now >= s.executable_at

Upgrade(hash) ==
    /\ admin
    /\ \E s \in schedule : Ready(s, hash)
    /\ code' = hash
    /\ schedule' = {}
    /\ UNCHANGED <<multisigVars, mode, admin, delay, version, migration, runs, now>>

-----------------------------------------------------------------------------
(* Versions and migrations *)

AdminSets == admin

SetVersion(v) ==
    /\ AdminSets
    /\ version' = v
    /\ UNCHANGED <<multisigVars, code, mode, admin, delay, schedule, migration, runs, now>>

Completed(target) == \E m \in migration : m.to_version >= target

\* Mutant: the loop stops one step early
StepsShort(from, target) == from + 1 .. target - 1

StepsTo(from, target) == from + 1 .. target

\* A migration that is recorded as completed returns without an effect.  A
\* version without a step makes the whole call fail.
Migrate(target) ==
    /\ admin
    /\ \/ /\ Completed(target)
          /\ UNCHANGED vars
       \/ /\ ~Completed(target)
          /\ target > version
          /\ version + 1 .. target \subseteq Steps
          /\ runs' = [s \in Steps |-> IF s \in StepsTo(version, target) THEN runs[s] + 1
                                      ELSE runs[s]]
          /\ version' = target
          /\ migration' = {[from_version |-> version, to_version |-> target]}
          /\ UNCHANGED <<multisigVars, code, mode, admin, delay, schedule, now>>

-----------------------------------------------------------------------------
(* The multisig's entry points, which look only at the multisig's own state *)

MultisigCall ==
    /\ M!Next
    /\ UNCHANGED <<mode, admin, adminVars, now>>

Next ==
    \/ Tick
    \/ InitMultisig
    \/ InitGovernance
    \/ InitAdmin
    \/ \E d \in Delays : SetUpgradeDelay(d)
    \/ \E hash \in Hashes : ScheduleUpgrade(hash) \/ Upgrade(hash)
    \/ \E v \in Versions : SetVersion(v) \/ Migrate(v)
    \/ MultisigCall

Spec == Init /\ [][Next]_vars

InstallScheduled == \E hash \in Hashes : Upgrade(hash)

\* Ledgers close, and the admin carries out what it has scheduled
FairSpec == Spec /\ WF_vars(Tick) /\ WF_vars(InstallScheduled)

-----------------------------------------------------------------------------
(* Properties *)

\* Every variable has its type; a second schedule replaces the first.
TypeOK ==
    /\ signers \subseteq Addresses /\ threshold \in Nat
    /\ proposals \in [M!ProposalIds -> M!Proposal]
    /\ counter \in 0 .. MaxProposals /\ nonce \in Nat
    /\ code \in Hashes \cup {InitialCode}
    /\ mode \in Mode
    /\ admin \in BOOLEAN
    /\ delay \in Nat
    /\ schedule \subseteq ScheduledUpgrade
    /\ \A s, t \in schedule : s = t
    /\ version \in Nat \cup {Absent}
    /\ migration \subseteq MigrationState
    /\ \A m, n \in migration : m = n
    /\ runs \in [Steps -> Nat]
    /\ now \in 0 .. MaxTime

\* One authority: the keys of the multisig exist only where it was claimed, those
\* of the admin only where the admin was, and where neither was, under governance
\* or before any claim, the contract runs the code it was deployed with.  Without
\* an admin the version stays what the initialisation left, none under governance.
OneAuthority ==
    /\ signers # {} \/ counter > 0 => mode = "Multisig"
    /\ admin \/ schedule # {} => mode = "SingleAdmin"
    /\ code # InitialCode => mode \in {"Multisig", "SingleAdmin"}
    /\ mode \in {"None", "Governance"} => version = Absent
    /\ mode = "Multisig" => version = CurrentVersion
    /\ mode # "SingleAdmin" => migration = {}

\* The way of upgrading that is claimed first is the only one for ever, although
\* the three initialisers lie in two modules and look at different keys.
ClaimIsFinal == [][mode # "None" => mode' = mode]_vars

\* The record of the last migration is true: it went upwards, and every step
\* between its two versions has run.
MigrationRecordIsTrue ==
    \A m \in migration :
        /\ m.from_version < m.to_version
        /\ \A s \in m.from_version + 1 .. m.to_version : s \in Steps /\ runs[s] > 0

\* Code is replaced on a mandate of the authority in charge only: the admin's was
\* announced under its hash for the shortest review window at least, however the
\* delay and the schedule changed meanwhile, and the signers' is the hash of a
\* proposal that has its quorum and is used up with it.
ReviewWindow ==
    \E s \in schedule : s.wasm_hash = code' /\ s.scheduled_at + MinDelay <= now

QuorumUsed ==
    \E p \in M!Proposed : /\ M!CanExecute(p)
                          /\ proposals[p].hash = code'
                          /\ proposals'[p].executed

ChangesHaveMandate ==
    [][code' # code => \/ mode = "SingleAdmin" /\ ReviewWindow
                       \/ mode = "Multisig" /\ QuorumUsed]_vars

\* Migrations only go up: setting the version back does not make a migration
\* that is recorded, or one to a version below it, run again.
MigrationsAdvance ==
    [][migration' # migration =>
          \A m \in migration, n \in migration' : m.to_version < n.to_version]_vars

\* What is scheduled to be executable at some time is carried out or replaced,
\* also when the admin sets a longer delay after that.
ScheduledIsInstalled ==
    \A t \in 0 .. MaxTime :
        (\E s \in schedule : s.executable_at = t) ~> (\A s \in schedule : s.executable_at # t)
=============================================================================
