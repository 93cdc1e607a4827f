------------------------------- MODULE MultiSig -------------------------------
(***************************************************************************)
(* The upgrade multisig (grainlify-core/src/multisig.rs) behind the entry  *)
(* points of the core contract that use it: a signer proposes the hash of  *)
(* an upgrade, signers approve it, and anybody executes it once approved.  *)
(* A proposal keeps the signers and the threshold of the moment it was     *)
(* made, while any signer may add, remove and rotate signers.              *)
(*                                                                         *)
(* init runs once; its checks are the assumption on the initial signers    *)
(* and Init is the state it leaves.  A call that panics changes nothing,   *)
(* so a panic is a guard.  The signer lists hold no address twice and      *)
(* their order decides nothing, so they are sets.                          *)
(***************************************************************************)
EXTENDS Integers, FiniteSets

CONSTANTS
    Addresses,         \* addresses that are or may become signers
    Hashes,            \* WASM hashes that may be proposed
    MaxProposals,      \* bound on the number of proposals
    InitialSigners,    \* the signers given to init
    InitialThreshold,  \* the threshold given to init
    InitialCode        \* the code the contract was deployed with

ASSUME AddressesAssumption == IsFiniteSet(Addresses)
ASSUME ProposalsAssumption == MaxProposals \in Nat
ASSUME InitAssumption ==
    /\ InitialSigners \subseteq Addresses
    /\ InitialThreshold \in 1 .. Cardinality(InitialSigners)

ProposalIds == 1 .. MaxProposals

VARIABLES
    signers,    \* MultiSigConfig.signers
    threshold,  \* MultiSigConfig.threshold
    proposals,  \* DataKey::Proposal
    counter,    \* DataKey::ProposalCounter
    nonce,      \* DataKey::ExecutionNonce
    code        \* the WASM the contract runs

vars == <<signers, threshold, proposals, counter, nonce, code>>

-----------------------------------------------------------------------------
(* State *)

Unused == -1

\* executed_nonce is None while it is Unused; the action is the hash to install
Proposal == [hash : Hashes \cup {InitialCode}, approvals : SUBSET Addresses,
             executed : BOOLEAN, signers : SUBSET Addresses, threshold : Nat,
             nonce : Nat \cup {Unused}]

\* What is under an id above the counter, where nothing is stored
NoProposal == [hash |-> InitialCode, approvals |-> {}, executed |-> FALSE,
               signers |-> {}, threshold |-> 1, nonce |-> Unused]

Proposed == 1 .. counter
Executed == {p \in Proposed : proposals[p].executed}

Init ==
    /\ signers = InitialSigners
    /\ threshold = InitialThreshold
    /\ proposals = [p \in ProposalIds |-> NoProposal]
    /\ counter = 0
    /\ nonce = 0
    /\ code = InitialCode

-----------------------------------------------------------------------------
(* Proposals *)

Propose(proposer, hash) ==
    /\ counter < MaxProposals
    /\ proposer \in signers
    /\ counter' = counter + 1
    /\ proposals' = [proposals EXCEPT ![counter + 1] =
                        [hash |-> hash, approvals |-> {}, executed |-> FALSE,
                         signers |-> signers, threshold |-> threshold, nonce |-> Unused]]
    /\ UNCHANGED <<signers, threshold, nonce, code>>

\* Mutant: the signers of today approve, not those of the snapshot
MayApproveNow(p, signer) ==
    /\ signer \in signers
    /\ ~proposals[p].executed
    /\ signer \notin proposals[p].approvals

MayApprove(p, signer) ==
    /\ signer \in proposals[p].signers
    /\ ~proposals[p].executed
    /\ signer \notin proposals[p].approvals

Approve(p, signer) ==
    /\ p \in Proposed
    /\ MayApprove(p, signer)
    /\ proposals' = [proposals EXCEPT ![p].approvals = @ \cup {signer}]
    /\ UNCHANGED <<signers, threshold, counter, nonce, code>>

\* Mutant: the threshold of today decides, not that of the snapshot
CanExecuteNow(p) ==
    /\ ~proposals[p].executed
    /\ Cardinality(proposals[p].approvals) >= threshold

CanExecute(p) ==
    /\ ~proposals[p].executed
    /\ Cardinality(proposals[p].approvals) >= proposals[p].threshold

NonceConsumed == nonce' = nonce + 1

\* The action: update_current_contract_wasm, which this run of the system
\* assumes to succeed
Install(p) == code' = proposals[p].hash

\* execute_upgrade passes on the action it has just read from the proposal, so
\* ActionMismatch does not occur
ExecuteUpgrade(p, expected) ==
    /\ p \in Proposed
    /\ CanExecute(p)
    /\ expected = nonce
    /\ Install(p)
    /\ proposals' = [proposals EXCEPT ![p].executed = TRUE, ![p].nonce = nonce]
    /\ NonceConsumed
    /\ UNCHANGED <<signers, threshold, counter>>

-----------------------------------------------------------------------------
(* Signers, by any signer *)

Removable == Cardinality(signers) - 1 >= threshold

RemoveSigner(signer) ==
    /\ signer \in signers
    /\ Removable
    /\ signers' = signers \ {signer}
    /\ UNCHANGED <<threshold, proposals, counter, nonce, code>>

AddSigner(signer) ==
    /\ signers # {}
    /\ signer \notin signers
    /\ signers' = signers \cup {signer}
    /\ UNCHANGED <<threshold, proposals, counter, nonce, code>>

\* Mutant: the threshold is checked before the new signers and threshold apply
ViableBefore(S, t) == threshold \in 1 .. Cardinality(signers)

Viable(S, t) == t # 0 /\ t <= Cardinality(S)

\* Removals come first, so one call may remove a signer and add it again
RotateSigners(add, remove, t) ==
    LET rotated == (signers \ remove) \cup add
    IN  /\ signers # {}
        /\ remove \subseteq signers
        /\ add \cap (signers \ remove) = {}
        /\ Viable(rotated, t)
        /\ signers' = rotated
        /\ threshold' = t
        /\ UNCHANGED <<proposals, counter, nonce, code>>

Next ==
    \/ \E s \in Addresses : \/ \E hash \in Hashes : Propose(s, hash)
                            \/ \E p \in ProposalIds : Approve(p, s)
                            \/ RemoveSigner(s)
                            \/ AddSigner(s)
    \/ \E p \in ProposalIds, expected \in 0 .. MaxProposals : ExecuteUpgrade(p, expected)
    \/ \E add, remove \in SUBSET Addresses, t \in 0 .. Cardinality(Addresses) + 1 :
         RotateSigners(add, remove, t)

Spec == Init /\ [][Next]_vars

\* The signers a proposal was made with keep approving it, those that were
\* removed since included, and somebody reads the nonce and executes
FairSpec ==
    /\ Spec
    /\ \A p \in ProposalIds, s \in Addresses : WF_vars(Approve(p, s))
    /\ \A p \in ProposalIds : WF_vars(ExecuteUpgrade(p, nonce))

-----------------------------------------------------------------------------
(* Properties *)

\* Every variable has its type; nonces count executions, so they stay below
\* the number of proposals.
TypeOK ==
    /\ signers \subseteq Addresses
    /\ threshold \in Nat
    /\ proposals \in [ProposalIds -> Proposal]
    /\ counter \in 0 .. MaxProposals
    /\ nonce \in 0 .. MaxProposals
    /\ code \in Hashes \cup {InitialCode}

\* No sequence of rotations locks the multisig: as many signers as the
\* threshold asks for exist now, and existed when a proposal was made.
ThresholdIsReachable ==
    /\ threshold \in 1 .. Cardinality(signers)
    /\ \A p \in Proposed :
         proposals[p].threshold \in 1 .. Cardinality(proposals[p].signers)

\* An executed proposal has the approvals its own threshold asked for, of
\* different signers of its own snapshot, whatever signers there are now.
ExecutionsHaveQuorum ==
    \A p \in Proposed :
        /\ proposals[p].approvals \subseteq proposals[p].signers
        /\ proposals[p].executed =>
             Cardinality(proposals[p].approvals) >= proposals[p].threshold

\* The nonces of the executed proposals are 0, 1, ... up to the next one, each
\* consumed by one proposal.
NoncesNumberExecutions ==
    /\ {proposals[p].nonce : p \in Executed} = 0 .. nonce - 1
    /\ \A p, q \in Executed : proposals[p].nonce = proposals[q].nonce => p = q
    /\ \A p \in Proposed \ Executed : proposals[p].nonce = Unused

\* An executed proposal is never approved, executed or changed again.
ExecutedIsFinal ==
    [][\A p \in Proposed : proposals[p].executed => proposals'[p] = proposals[p]]_vars

\* Adding, removing and rotating signers makes no open proposal executable and
\* stops none from being executed: only approvals and the execution do.
SnapshotGoverns ==
    [][signers' # signers \/ threshold' # threshold =>
          \A p \in Proposed : CanExecute(p)' = CanExecute(p)]_vars

\* Whoever executes what with which nonce while signers come and go: proposals keep
\* the terms they were made on, terms that can be met, each is executed at most once and
\* with the approvals its terms ask for, and the contract runs the code of the proposal
\* that consumed the last nonce.
Asked ==
    [p \in ProposalIds |-> [hash |-> proposals[p].hash,
                            asked |-> proposals[p].signers,
                            needed |-> proposals[p].threshold,
                            agreed |-> proposals[p].approvals]]

WithNonce(n) == CHOOSE p \in Executed : proposals[p].nonce = n

Executions == [n \in 1 .. nonce |-> WithNonce(n - 1)]

Log == INSTANCE UpgradeLog WITH Requests <- ProposalIds, People <- Addresses,
                                requests <- Asked, log <- Executions

KeepsLog == Log!Spec

\* With the signers of its snapshot willing, every proposal is executed,
\* however signers rotate and whichever upgrades take a nonce first.
EveryProposalIsExecuted ==
    \A p \in ProposalIds : (p \in Proposed) ~> (p \in Executed)
=============================================================================
