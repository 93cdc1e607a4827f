---------------------------- MODULE GovernanceGate ----------------------------
(***************************************************************************)
(* An escrow and the governance contract its admin links it to             *)
(* (governance_integration.rs of both escrows): the escrow asks the linked *)
(* contract for its version before it pays, for the approval of a hash     *)
(* before it replaces its own code, and consumes proposals through it.     *)
(*                                                                         *)
(* The admin may link a core contract that was initialised for governance, *)
(* which is the module this one extends, or another one that an admin      *)
(* controls.  Both run the same code and differ in what their initialisers *)
(* stored: a core contract is claimed by one authority (CoreUpgrade,       *)
(* OneAuthority), so the first has no admin and the second no proposals.   *)
(* The calls that the version check gates are in BountyEscrow and          *)
(* ProgramEscrow, where its answer is govOk.                               *)
(***************************************************************************)
EXTENDS Governance

CONSTANTS
    Minimums,      \* values of set_min_governance_version
    CoreVersions,  \* versions the admin of the other core contract sets
    Major,         \* 10_000: one major version in the numeric encoding
    InitialCode    \* the code the escrow was deployed with

ASSUME GateAssumption ==
    /\ Minimums \subseteq Nat /\ CoreVersions \subseteq Nat /\ Major \in Nat \ {0}
    /\ InitialCode \notin Hashes

VARIABLES
    contract,  \* which of the two escrows this is
    linked,    \* GOV_ADDR
    minimum,   \* MIN_GOV_VERSION
    stored,    \* DataKey::Version of the two core contracts
    code,      \* the hash of the escrow's code
    consumed   \* history: the proposals consumed through the escrow

gateVars == <<contract, linked, minimum, stored, code, consumed>>

Cores == {"governance", "other"}

Absent == -1  \* no version is stored

\* init_governance stores neither an admin nor a version; init_admin stores both,
\* and the admin may have set the version since
HasAdmin(core) == core = "other"

VersionsAfterInit(v) == [core \in Cores |-> IF HasAdmin(core) THEN v ELSE Absent]

GateInit ==
    /\ Init
    /\ contract \in {"bounty", "program"}
    /\ linked = "none" /\ minimum = 0
    /\ \E v \in CoreVersions : stored = VersionsAfterInit(v)
    /\ code = InitialCode
    /\ consumed = {}

-----------------------------------------------------------------------------
(* What the linked contract answers *)

\* get_ver: what is stored, or 0
GetVer == IF stored[linked] = Absent THEN 0 ELSE stored[linked]

GetVersionNumericEncoded == IF GetVer >= Major THEN GetVer ELSE GetVer * Major

\* The bounty escrow asks for the encoding of a minimum that is encoded
CheckGovernanceVersion ==
    linked # "none" /\ minimum > 0 =>
        IF contract = "bounty" /\ minimum >= Major
        THEN GetVersionNumericEncoded >= minimum
        ELSE GetVer >= minimum

\* The other core contract has no proposals, so it approves nothing
CheckUpgradeApproval(h) ==
    /\ linked = "governance"
    /\ CheckGovernanceVersion
    /\ UpgradeApproved(h)

IsVetoed(p) == proposals[p].status = "Cancelled"

-----------------------------------------------------------------------------
(* Calls of the escrow *)

SetGovernanceContract(address) ==
    /\ linked' = address
    /\ UNCHANGED <<vars, contract, minimum, stored, code, consumed>>

SetMinGovernanceVersion(min) ==
    /\ minimum' = min
    /\ UNCHANGED <<vars, contract, linked, stored, code, consumed>>

\* upgrade, by the admin
Upgrade(h) ==
    /\ CheckUpgradeApproval(h)
    /\ code' = h
    /\ UNCHANGED <<vars, contract, linked, minimum, stored, consumed>>

\* execute_governance_proposal, by anybody
ExecuteGovernanceProposal(p) ==
    /\ linked = "governance"
    /\ CheckGovernanceVersion
    /\ ~IsVetoed(p)
    /\ ExecuteProposal(p)
    /\ consumed' = consumed \cup {p}
    /\ UNCHANGED <<contract, linked, minimum, stored, code>>

\* set_version, by the admin of the core contract if it has one
SetVersion(core, v) ==
    /\ HasAdmin(core)
    /\ stored' = [stored EXCEPT ![core] = v]
    /\ UNCHANGED <<vars, contract, linked, minimum, code, consumed>>

GateNext ==
    \/ Next /\ UNCHANGED gateVars
    \/ \E address \in Cores : SetGovernanceContract(address)
    \/ \E min \in Minimums : SetMinGovernanceVersion(min)
    \/ \E h \in Hashes : Upgrade(h)
    \/ \E p \in ProposalIds : ExecuteGovernanceProposal(p)
    \/ \E core \in Cores, v \in CoreVersions : SetVersion(core, v)

GateSpec == GateInit /\ [][GateNext]_<<vars, gateVars>>

\* Ledgers keep closing, and a keeper keeps calling what anybody may call of
\* the governance contract
FairGateSpec ==
    /\ GateSpec
    /\ WF_<<vars, gateVars>>(Tick /\ UNCHANGED gateVars)
    /\ \A p \in ProposalIds :
          /\ WF_<<vars, gateVars>>(FinalizeProposal(p) /\ UNCHANGED gateVars)
          /\ WF_<<vars, gateVars>>(SweepExpiredProposal(p) /\ UNCHANGED gateVars)
          /\ WF_<<vars, gateVars>>(ExecuteProposal(p) /\ UNCHANGED gateVars)

-----------------------------------------------------------------------------
(* Properties *)

\* The escrow runs the code it was deployed with, or one that the votes on
\* record carry after their delay, and what was consumed through it the votes
\* carry too: also after the proposal was finalized again, swept or cancelled,
\* the tokens were moved on, or the escrow was linked elsewhere.
GovernedHaveMandate ==
    LET carried(p) == Ended(p) /\ Passes(p) /\ DelayElapsed(p)
    IN  /\ code = InitialCode \/ \E p \in ProposalIds : proposals[p].hash = code /\ carried(p)
        /\ \A p \in consumed : carried(p)
=============================================================================
