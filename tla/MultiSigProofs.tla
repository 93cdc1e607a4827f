---------------------------- MODULE MultiSigProofs ----------------------------
(***************************************************************************)
(* Proofs about MultiSig: its types, that its thresholds stay reachable,   *)
(* that executions have their quorum, and that nonces number executions.   *)
(***************************************************************************)
EXTENDS MultiSig, Descent, FiniteSetTheorems, SequenceTheorems, TLAPS

\* Sets of addresses are finite, so they can be counted.
LEMMA AddressesAreCounted ==
    ASSUME NEW S \in SUBSET Addresses
    PROVE  IsFiniteSet(S) /\ Cardinality(S) \in Nat
  BY AddressesAssumption, FS_Subset, FS_CardinalityType

-----------------------------------------------------------------------------
(* Types and nonces *)

\* TypeOK bounds the nonce by the number of proposals, which holds because the
\* nonces number the executed proposals; hence the weaker types below, which
\* leave the nonce unbounded and are inductive.
Types ==
    /\ signers \subseteq Addresses
    /\ threshold \in Nat
    /\ proposals \in [ProposalIds -> Proposal]
    /\ counter \in 0 .. MaxProposals
    /\ nonce \in Nat
    /\ code \in Hashes \cup {InitialCode}

\* The multisig starts with storage of the right types.
LEMMA TypesInit == Init => Types
  <1>1. NoProposal \in Proposal
    BY DEF NoProposal, Proposal, Unused
  <1>2. InitialThreshold \in Nat
    BY InitAssumption, AddressesAreCounted
  <1>. QED
    BY <1>1, <1>2, InitAssumption, ProposalsAssumption DEF Init, Types

\* Every call keeps the types.
LEMMA TypesStep == Types /\ [Next]_vars => Types'
  <1>. SUFFICES ASSUME Types, [Next]_vars PROVE Types'
    OBVIOUS
  <1>1. ASSUME NEW s \in Addresses, NEW hash \in Hashes, Propose(s, hash)
        PROVE  Types'
    <2>. DEFINE new == [hash |-> hash, approvals |-> {}, executed |-> FALSE,
                        signers |-> signers, threshold |-> threshold, nonce |-> Unused]
    <2>1. new \in Proposal
      BY DEF Types, Proposal
    <2>2. proposals' = [proposals EXCEPT ![counter + 1] = new]
      BY <1>1 DEF Propose
    <2>3. proposals' \in [ProposalIds -> Proposal]
      BY <2>1, <2>2 DEF Types
    <2>4. counter' \in 0 .. MaxProposals
      BY <1>1, ProposalsAssumption DEF Propose, Types
    <2>. QED
      BY <1>1, <2>3, <2>4 DEF Types, Propose
  <1>2. ASSUME NEW s \in Addresses, NEW p \in ProposalIds, Approve(p, s)
        PROVE  Types'
    <2>1. proposals' \in [ProposalIds -> Proposal]
      BY <1>2 DEF Approve, Types, Proposal
    <2>. QED
      BY <1>2, <2>1 DEF Types, Approve
  <1>3. ASSUME NEW p \in ProposalIds, NEW expected \in 0 .. MaxProposals,
               ExecuteUpgrade(p, expected)
        PROVE  Types'
    <2>. DEFINE done == [proposals[p] EXCEPT !.executed = TRUE, !.nonce = nonce]
    <2>1a. proposals[p] \in Proposal /\ nonce \in Nat
      BY DEF Types
    <2>1b. done \in Proposal
      BY <2>1a DEF Proposal
    <2>1c. proposals' = [proposals EXCEPT ![p] = done]
      BY <1>3 DEF ExecuteUpgrade, Types
    <2>1. proposals' \in [ProposalIds -> Proposal]
      <3>. HIDE DEF done
      <3>. QED
        BY <2>1b, <2>1c DEF Types
    <2>2. nonce' \in Nat /\ code' \in Hashes \cup {InitialCode}
      BY <1>3 DEF ExecuteUpgrade, NonceConsumed, Install, Types, Proposal
    <2>. QED
      BY <1>3, <2>1, <2>2 DEF Types, ExecuteUpgrade
  <1>4. ASSUME NEW s \in Addresses, RemoveSigner(s) \/ AddSigner(s)
        PROVE  Types'
    BY <1>4 DEF RemoveSigner, AddSigner, Types
  <1>5. ASSUME NEW add \in SUBSET Addresses, NEW remove \in SUBSET Addresses,
               NEW t \in 0 .. Cardinality(Addresses) + 1, RotateSigners(add, remove, t)
        PROVE  Types'
    <2>1. t \in Nat
      BY AddressesAreCounted
    <2>. QED
      BY <1>5, <2>1 DEF RotateSigners, Types
  <1>6. CASE UNCHANGED vars
    BY <1>6 DEF vars, Types
  <1>. QED
    BY <1>1, <1>2, <1>3, <1>4, <1>5, <1>6 DEF Next

\* So they hold always.
LEMMA TypesAlways == Spec => []Types
  BY TypesInit, TypesStep, PTL DEF Spec

-----------------------------------------------------------------------------
(* Thresholds *)

\* init refuses a threshold that its signers cannot reach.
LEMMA ThresholdInit == Init => ThresholdIsReachable
  BY InitAssumption DEF Init, ThresholdIsReachable, Proposed

\* Every call that changes the signers or the threshold leaves enough signers,
\* and a proposal takes over a threshold that can be reached.
LEMMA ThresholdStep == Types /\ ThresholdIsReachable /\ [Next]_vars => ThresholdIsReachable'
  <1>. SUFFICES ASSUME Types, ThresholdIsReachable, [Next]_vars
                PROVE  ThresholdIsReachable'
    OBVIOUS
  <1>1. ASSUME NEW s \in Addresses, NEW hash \in Hashes, Propose(s, hash)
        PROVE  ThresholdIsReachable'
    <2>1. /\ proposals \in [ProposalIds -> Proposal] /\ counter \in Nat
          /\ counter + 1 \in ProposalIds
          /\ counter' = counter + 1 /\ signers' = signers /\ threshold' = threshold
      BY <1>1, ProposalsAssumption DEF Types, Propose, ProposalIds
    <2>2. /\ proposals'[counter + 1].signers = signers
          /\ proposals'[counter + 1].threshold = threshold
      BY <1>1, <2>1 DEF Propose
    <2>3. \A p \in Proposed : proposals'[p] = proposals[p]
      BY <1>1, <2>1, ProposalsAssumption DEF Propose, Proposed, Types, ProposalIds
    <2>4. Proposed' = Proposed \cup {counter + 1}
      BY <2>1 DEF Proposed
    <2>. QED
      BY <2>1, <2>2, <2>3, <2>4 DEF ThresholdIsReachable
  <1>2. ASSUME NEW p \in ProposalIds,
               \/ \E s \in Addresses : Approve(p, s)
               \/ \E expected \in 0 .. MaxProposals : ExecuteUpgrade(p, expected)
        PROVE  ThresholdIsReachable'
    <2>1. \A q \in ProposalIds : /\ proposals'[q].signers = proposals[q].signers
                                 /\ proposals'[q].threshold = proposals[q].threshold
      BY <1>2 DEF Approve, ExecuteUpgrade, Types, Proposal
    <2>2. UNCHANGED <<counter, signers, threshold>>
      BY <1>2 DEF Approve, ExecuteUpgrade
    <2>3. Proposed' = Proposed /\ Proposed \subseteq ProposalIds
      BY <2>2, ProposalsAssumption DEF Proposed, ProposalIds, Types
    <2>. QED
      BY <2>1, <2>2, <2>3 DEF ThresholdIsReachable
  <1>3. ASSUME UNCHANGED <<proposals, counter>>, threshold' \in 1 .. Cardinality(signers')
        PROVE  ThresholdIsReachable'
    BY <1>3 DEF ThresholdIsReachable, Proposed
  <1>4. ASSUME NEW s \in Addresses, RemoveSigner(s)
        PROVE  ThresholdIsReachable'
    <2>1. IsFiniteSet(signers) /\ Cardinality(signers) \in Nat /\ threshold \in Nat
      BY AddressesAreCounted DEF Types
    <2>2. Cardinality(signers \ {s}) = Cardinality(signers) - 1
      BY <1>4, <2>1, FS_RemoveElement DEF RemoveSigner
    <2>3. threshold' \in 1 .. Cardinality(signers')
      BY <1>4, <2>1, <2>2 DEF RemoveSigner, Removable, ThresholdIsReachable
    <2>. QED
      BY <1>3, <1>4, <2>3 DEF RemoveSigner
  <1>5. ASSUME NEW s \in Addresses, AddSigner(s)
        PROVE  ThresholdIsReachable'
    <2>1. IsFiniteSet(signers) /\ Cardinality(signers) \in Nat /\ threshold \in Nat
      BY AddressesAreCounted DEF Types
    <2>2. Cardinality(signers \cup {s}) = Cardinality(signers) + 1
      BY <1>5, <2>1, FS_AddElement DEF AddSigner
    <2>3. threshold' \in 1 .. Cardinality(signers')
      BY <1>5, <2>1, <2>2 DEF AddSigner, ThresholdIsReachable
    <2>. QED
      BY <1>3, <1>5, <2>3 DEF AddSigner
  <1>6. ASSUME NEW add \in SUBSET Addresses, NEW remove \in SUBSET Addresses,
               NEW t \in 0 .. Cardinality(Addresses) + 1, RotateSigners(add, remove, t)
        PROVE  ThresholdIsReachable'
    <2>1. (signers \ remove) \cup add \in SUBSET Addresses
      BY DEF Types
    <2>2. Cardinality((signers \ remove) \cup add) \in Nat
      BY <2>1, AddressesAreCounted
    <2>3. threshold' \in 1 .. Cardinality(signers')
      BY <1>6, <2>2 DEF RotateSigners, Viable
    <2>. QED
      BY <1>3, <1>6, <2>3 DEF RotateSigners
  <1>7. CASE UNCHANGED vars
    BY <1>3, <1>7 DEF vars, ThresholdIsReachable
  <1>. QED
    BY <1>1, <1>2, <1>4, <1>5, <1>6, <1>7 DEF Next

\* No sequence of rotations locks the multisig.
THEOREM ThresholdStaysReachable == Spec => []ThresholdIsReachable
  BY ThresholdInit, ThresholdStep, TypesAlways, PTL DEF Spec

-----------------------------------------------------------------------------
(* What the calls do to the proposals *)

\* Every other proposal is kept.
KeptExcept(p) == \A q \in Proposed \ {p} : proposals'[q] = proposals[q]

\* A signer of the snapshot is added to an open proposal.
Approved(p) ==
    \E s \in Addresses :
        /\ MayApprove(p, s)
        /\ proposals'[p] = [proposals[p] EXCEPT !.approvals = @ \cup {s}]
        /\ UNCHANGED <<counter, nonce, code>>

\* A proposal that can be executed is marked with the nonce it consumes.
Ran(p) ==
    /\ CanExecute(p)
    /\ proposals'[p] = [proposals[p] EXCEPT !.executed = TRUE, !.nonce = nonce]
    /\ counter' = counter /\ nonce' = nonce + 1 /\ code' = proposals[p].hash

\* A new proposal: nobody approved it, and it has no nonce.
Opened ==
    /\ counter' = counter + 1 /\ UNCHANGED <<nonce, code>>
    /\ ~proposals'[counter + 1].executed
    /\ proposals'[counter + 1].approvals = {}
    /\ proposals'[counter + 1].nonce = Unused

\* Whatever call is made, the existing proposals are kept, but for one that is
\* approved or executed.
LEMMA EveryStepOnProposals ==
    ASSUME Types, [Next]_vars
    PROVE  \/ UNCHANGED <<proposals, counter, nonce, code>>
           \/ Opened /\ \A q \in Proposed : proposals'[q] = proposals[q]
           \/ \E p \in Proposed : (Approved(p) \/ Ran(p)) /\ KeptExcept(p)
  <1>0. Proposed \subseteq ProposalIds /\ counter \in Nat
    BY ProposalsAssumption DEF Types, Proposed, ProposalIds
  <1>1. ASSUME NEW s \in Addresses, NEW hash \in Hashes, Propose(s, hash)
        PROVE  Opened /\ \A q \in Proposed : proposals'[q] = proposals[q]
    <2>1. counter + 1 \in ProposalIds
      BY <1>0, <1>1, ProposalsAssumption DEF Propose, ProposalIds
    <2>. QED
      BY <1>0, <1>1, <2>1 DEF Propose, Types, Opened, Proposed
  <1>2. ASSUME NEW s \in Addresses, NEW p \in ProposalIds, Approve(p, s)
        PROVE  p \in Proposed /\ Approved(p) /\ KeptExcept(p)
    <2>1. proposals'[p] = [proposals[p] EXCEPT !.approvals = @ \cup {s}]
      BY <1>2 DEF Approve, Types
    <2>2. KeptExcept(p)
      BY <1>0, <1>2 DEF Approve, Types, KeptExcept
    <2>. QED
      BY <1>2, <2>1, <2>2 DEF Approve, Approved
  <1>3. ASSUME NEW p \in ProposalIds, NEW expected \in 0 .. MaxProposals,
               ExecuteUpgrade(p, expected)
        PROVE  p \in Proposed /\ Ran(p) /\ KeptExcept(p)
    <2>1. proposals'[p] = [proposals[p] EXCEPT !.executed = TRUE, !.nonce = nonce]
      BY <1>3 DEF ExecuteUpgrade, Types, Proposal
    <2>2. KeptExcept(p)
      BY <1>0, <1>3 DEF ExecuteUpgrade, Types, KeptExcept
    <2>. QED
      BY <1>3, <2>1, <2>2 DEF ExecuteUpgrade, NonceConsumed, Install, Ran
  <1>4. ASSUME \/ \E s \in Addresses : RemoveSigner(s) \/ AddSigner(s)
               \/ \E add, remove \in SUBSET Addresses,
                     t \in 0 .. Cardinality(Addresses) + 1 : RotateSigners(add, remove, t)
               \/ UNCHANGED vars
        PROVE  UNCHANGED <<proposals, counter, nonce, code>>
    BY <1>4 DEF RemoveSigner, AddSigner, RotateSigners, vars
  <1>. QED
    BY <1>1, <1>2, <1>3, <1>4 DEF Next

-----------------------------------------------------------------------------
(* Quorums and finality *)

\* Whoever approves is of the snapshot, and only a proposal with enough
\* approvals is marked executed.
LEMMA QuorumStep ==
    Types /\ ExecutionsHaveQuorum /\ [Next]_vars => ExecutionsHaveQuorum'
  <1>. SUFFICES ASSUME Types, ExecutionsHaveQuorum, [Next]_vars
                PROVE  ExecutionsHaveQuorum'
    OBVIOUS
  <1>. DEFINE Good(r) == /\ r.approvals \subseteq r.signers
                         /\ r.executed => Cardinality(r.approvals) >= r.threshold
  <1>1. /\ Proposed \subseteq ProposalIds /\ counter \in Nat
        /\ \A q \in Proposed : Good(proposals[q]) /\ proposals[q] \in Proposal
    BY ProposalsAssumption DEF Types, Proposed, ProposalIds, ExecutionsHaveQuorum
  <1>2. CASE UNCHANGED <<proposals, counter, nonce, code>>
    BY <1>2 DEF ExecutionsHaveQuorum, Proposed
  <1>3. CASE Opened /\ \A q \in Proposed : proposals'[q] = proposals[q]
    <2>1. Proposed' = Proposed \cup {counter + 1}
      BY <1>1, <1>3 DEF Opened, Proposed
    <2>2. Good(proposals'[counter + 1])
      BY <1>3 DEF Opened
    <2>. QED
      BY <1>1, <1>3, <2>1, <2>2 DEF ExecutionsHaveQuorum
  <1>4. ASSUME NEW p \in Proposed, Approved(p), KeptExcept(p)
        PROVE  ExecutionsHaveQuorum'
    <2>1. PICK s \in Addresses :
            /\ MayApprove(p, s)
            /\ proposals'[p] = [proposals[p] EXCEPT !.approvals = @ \cup {s}]
            /\ counter' = counter
      BY <1>4 DEF Approved
    <2>2. Good(proposals'[p])
      BY <1>1, <2>1 DEF MayApprove, Proposal
    <2>. QED
      BY <1>1, <1>4, <2>1, <2>2 DEF ExecutionsHaveQuorum, KeptExcept, Proposed
  <1>5. ASSUME NEW p \in Proposed, Ran(p), KeptExcept(p)
        PROVE  ExecutionsHaveQuorum'
    <2>1. Good(proposals'[p])
      BY <1>1, <1>5 DEF Ran, CanExecute, Proposal
    <2>. QED
      BY <1>1, <1>5, <2>1 DEF ExecutionsHaveQuorum, KeptExcept, Proposed, Ran
  <1>. QED
    BY <1>2, <1>3, <1>4, <1>5, EveryStepOnProposals

\* Every executed proposal has its quorum, of signers of its own snapshot.
THEOREM ExecutionsAlwaysHaveQuorum == Spec => []ExecutionsHaveQuorum
  <1>1. Init => ExecutionsHaveQuorum
    BY DEF Init, ExecutionsHaveQuorum, Proposed
  <1>. QED
    BY <1>1, QuorumStep, TypesAlways, PTL DEF Spec

\* No call approves, executes or changes a proposal that was executed.
THEOREM ExecutedStaysFinal == Spec => ExecutedIsFinal
  <1>1. ASSUME Types, [Next]_vars, NEW p \in Proposed, proposals[p].executed
        PROVE  proposals'[p] = proposals[p]
    BY <1>1, EveryStepOnProposals DEF Approved, Ran, KeptExcept, MayApprove, CanExecute
  <1>2. ASSUME Types, [Next]_vars
        PROVE  [\A p \in Proposed : proposals[p].executed => proposals'[p] = proposals[p]]_vars
    BY <1>1, <1>2
  <1>. QED
    BY <1>2, TypesAlways, PTL DEF Spec, ExecutedIsFinal

-----------------------------------------------------------------------------
(* Nonces *)

\* NoncesNumberExecutions is inductive: only an execution consumes a nonce, and
\* the one it consumes is larger than every nonce consumed before.
LEMMA NoncesStep ==
    Types /\ NoncesNumberExecutions /\ [Next]_vars => NoncesNumberExecutions'
  <1>. SUFFICES ASSUME Types, NoncesNumberExecutions, [Next]_vars
                PROVE  NoncesNumberExecutions'
    OBVIOUS
  <1>1. /\ Proposed \subseteq ProposalIds /\ counter \in Nat /\ nonce \in Nat
        /\ \A q \in Proposed : proposals[q] \in Proposal
    BY ProposalsAssumption DEF Types, Proposed, ProposalIds
  <1>2. CASE UNCHANGED <<proposals, counter, nonce, code>>
    BY <1>2 DEF NoncesNumberExecutions, Proposed, Executed
  <1>3. CASE Opened /\ \A q \in Proposed : proposals'[q] = proposals[q]
    <2>1. Proposed' = Proposed \cup {counter + 1} /\ counter + 1 \notin Proposed
      BY <1>1, <1>3 DEF Opened, Proposed
    <2>2. Executed' = Executed
      BY <1>3, <2>1 DEF Opened, Executed
    <2>. QED
      BY <1>1, <1>3, <2>1, <2>2 DEF NoncesNumberExecutions, Opened, Executed
  <1>4. ASSUME NEW p \in Proposed, Approved(p), KeptExcept(p)
        PROVE  NoncesNumberExecutions'
    <2>1. Proposed' = Proposed /\ nonce' = nonce
      BY <1>4 DEF Approved, Proposed
    <2>2. \A q \in Proposed : /\ proposals'[q].executed = proposals[q].executed
                             /\ proposals'[q].nonce = proposals[q].nonce
      BY <1>1, <1>4 DEF Approved, KeptExcept, Proposal
    <2>. QED
      BY <2>1, <2>2 DEF NoncesNumberExecutions, Executed
  <1>5. ASSUME NEW p \in Proposed, Ran(p), KeptExcept(p)
        PROVE  NoncesNumberExecutions'
    <2>1. Proposed' = Proposed /\ nonce' = nonce + 1 /\ p \notin Executed
      BY <1>5 DEF Ran, CanExecute, Proposed, Executed
    <2>2. /\ proposals'[p].executed /\ proposals'[p].nonce = nonce
          /\ \A q \in Proposed \ {p} : proposals'[q] = proposals[q]
      BY <1>1, <1>5 DEF Ran, KeptExcept, Proposal
    <2>3. Executed' = Executed \cup {p}
      BY <2>1, <2>2 DEF Executed
    <2>4. \A q \in Executed : proposals[q].nonce \in 0 .. nonce - 1
      BY DEF NoncesNumberExecutions
    <2>5. {proposals'[q].nonce : q \in Executed'} = {proposals[q].nonce : q \in Executed} \cup {nonce}
      BY <2>1, <2>2, <2>3 DEF Executed
    <2>6. 0 .. nonce' - 1 = (0 .. nonce - 1) \cup {nonce}
      BY <1>1, <2>1
    <2>7. {proposals'[q].nonce : q \in Executed'} = 0 .. nonce' - 1
      BY <2>5, <2>6 DEF NoncesNumberExecutions
    <2>8. \A q, r \in Executed' : proposals'[q].nonce = proposals'[r].nonce => q = r
      BY <1>1, <2>1, <2>2, <2>3, <2>4 DEF NoncesNumberExecutions, Executed
    <2>9. \A q \in Proposed' \ Executed' : proposals'[q].nonce = Unused
      BY <2>1, <2>2, <2>3 DEF NoncesNumberExecutions
    <2>. QED
      BY <2>7, <2>8, <2>9 DEF NoncesNumberExecutions
  <1>. QED
    BY <1>2, <1>3, <1>4, <1>5, EveryStepOnProposals

\* Each nonce is consumed by one execution, in order and without a gap.
THEOREM NoncesAlwaysNumber == Spec => []NoncesNumberExecutions
  <1>1. Init => NoncesNumberExecutions
    BY DEF Init, NoncesNumberExecutions, Proposed, Executed
  <1>. QED
    BY <1>1, NoncesStep, TypesAlways, PTL DEF Spec

\* No nonce is consumed without an execution, so they cannot outnumber the
\* proposals, which is what TypeOK says of the nonce beyond its type.
LEMMA NonceIsBounded ==
    ASSUME Types, NoncesNumberExecutions
    PROVE  nonce <= counter
  <1>1. counter \in Nat /\ nonce \in Nat /\ IsFiniteSet(Proposed) /\ Cardinality(Proposed) = counter
    BY ProposalsAssumption, FS_Interval DEF Types, Proposed
  <1>2. IsFiniteSet(Executed) /\ Cardinality(Executed) <= counter
    BY <1>1, FS_Subset DEF Executed
  <1>3. IsFiniteSet(0 .. nonce - 1) /\ Cardinality(0 .. nonce - 1) = nonce
    BY <1>1, FS_Interval
  <1>. DEFINE f == [p \in Executed |-> proposals[p].nonce]
  <1>4. f \in Surjection(Executed, 0 .. nonce - 1)
    BY DEF NoncesNumberExecutions, Surjection
  <1>5. Cardinality(0 .. nonce - 1) <= Cardinality(Executed)
    BY <1>2, <1>4, FS_Surjection
  <1>. QED
    BY <1>1, <1>2, <1>3, <1>5, FS_CardinalityType

\* The storage of the multisig always has its types.
THEOREM MultiSigTypes == Spec => []TypeOK
  <1>1. Types /\ NoncesNumberExecutions => TypeOK
    BY NonceIsBounded, ProposalsAssumption DEF Types, TypeOK
  <1>. QED
    BY <1>1, TypesAlways, NoncesAlwaysNumber, PTL

-----------------------------------------------------------------------------
(* Rotations *)

\* Changing the signers or the threshold makes no proposal executable and stops
\* none from being executed.
THEOREM SnapshotsGovern == Spec => SnapshotGoverns
  <1>1. ASSUME [Next]_vars, signers' # signers \/ threshold' # threshold
        PROVE  proposals' = proposals
    BY <1>1 DEF Next, Propose, Approve, ExecuteUpgrade, RemoveSigner, AddSigner,
                RotateSigners, vars
  <1>2. ASSUME proposals' = proposals
        PROVE  \A p \in Proposed : CanExecute(p)' = CanExecute(p)
    BY <1>2 DEF CanExecute
  <1>3. ASSUME [Next]_vars
        PROVE  [signers' # signers \/ threshold' # threshold =>
                   \A p \in Proposed : CanExecute(p)' = CanExecute(p)]_vars
    BY <1>1, <1>2, <1>3
  <1>. QED
    BY <1>3, PTL DEF Spec, SnapshotGoverns

-----------------------------------------------------------------------------
(* The log of upgrades *)

\* Nothing is stored under an id that was not given out yet.
NoneAbove == \A p \in ProposalIds : p > counter => proposals[p] = NoProposal

\* A proposal is stored under the next id, and every other call finds its
\* proposal below the counter.
LEMMA NoneAboveStep == Types /\ NoneAbove /\ [Next]_vars => NoneAbove'
  <1>. SUFFICES ASSUME Types, NoneAbove, [Next]_vars PROVE NoneAbove'
    OBVIOUS
  <1>0. Proposed \subseteq ProposalIds /\ counter \in Nat /\ ProposalIds \subseteq Nat
    BY ProposalsAssumption DEF Types, Proposed, ProposalIds
  <1>1. ASSUME NEW s \in Addresses, NEW hash \in Hashes, Propose(s, hash)
        PROVE  NoneAbove'
    BY <1>0, <1>1 DEF Propose, NoneAbove, Types
  <1>2. ASSUME NEW p \in Proposed, counter' = counter,
               \A q \in ProposalIds \ {p} : proposals'[q] = proposals[q]
        PROVE  NoneAbove'
    BY <1>0, <1>2 DEF NoneAbove, Proposed
  <1>3. ASSUME NEW s \in Addresses, NEW p \in ProposalIds, Approve(p, s)
        PROVE  NoneAbove'
    BY <1>2, <1>3 DEF Approve, Types
  <1>4. ASSUME NEW p \in ProposalIds, NEW expected \in 0 .. MaxProposals,
               ExecuteUpgrade(p, expected)
        PROVE  NoneAbove'
    BY <1>2, <1>4 DEF ExecuteUpgrade, Types
  <1>5. ASSUME UNCHANGED <<proposals, counter>>
        PROVE  NoneAbove'
    BY <1>5 DEF NoneAbove
  <1>. QED
    BY <1>1, <1>3, <1>4, <1>5 DEF Next, RemoveSigner, AddSigner, RotateSigners, vars

\* What the steps of the log need to know of the multisig.
LogInv == Types /\ ThresholdIsReachable /\ NoncesNumberExecutions /\ NoneAbove

\* Each nonce finds its execution.
NoncesFind ==
    \A n \in 0 .. nonce - 1 :
        /\ WithNonce(n) \in Executed
        /\ \A p \in Executed : proposals[p].nonce = n <=> p = WithNonce(n)

LEMMA NoncesFindExecutions == NoncesNumberExecutions => NoncesFind
  <1>. SUFFICES ASSUME NoncesNumberExecutions, NEW n \in 0 .. nonce - 1
                PROVE  /\ WithNonce(n) \in Executed
                       /\ \A p \in Executed : proposals[p].nonce = n <=> p = WithNonce(n)
    BY DEF NoncesFind
  <1>1. \E p \in Executed : proposals[p].nonce = n
    BY DEF NoncesNumberExecutions
  <1>2. WithNonce(n) \in Executed /\ proposals[WithNonce(n)].nonce = n
    BY <1>1 DEF WithNonce
  <1>. QED
    BY <1>2 DEF NoncesNumberExecutions

\* The log is a sequence of the executed proposals, and has all of them.
LEMMA LogHasExecutions ==
    ASSUME Types, NoncesNumberExecutions
    PROVE  /\ Executions \in Seq(ProposalIds) /\ Len(Executions) = nonce
           /\ Log!CarriedOut = Executed
  <1>0. nonce \in Nat /\ Executed \subseteq ProposalIds
    BY ProposalsAssumption DEF Types, Executed, Proposed, ProposalIds
  <1>1. NoncesFind
    BY NoncesFindExecutions
  <1>2. \A k \in 1 .. nonce : k - 1 \in 0 .. nonce - 1
    BY <1>0
  <1>3. Executions \in [1 .. nonce -> ProposalIds]
    BY <1>0, <1>1, <1>2 DEF Executions, NoncesFind
  <1>4. Executions \in Seq(ProposalIds) /\ Len(Executions) = nonce
    BY <1>0, <1>3
  <1>5. Log!CarriedOut \subseteq Executed
    BY <1>1, <1>2 DEF Log!CarriedOut, Executions, NoncesFind
  <1>6. ASSUME NEW p \in Executed PROVE p \in Log!CarriedOut
    <2>1. proposals[p].nonce \in 0 .. nonce - 1
      BY DEF NoncesNumberExecutions
    <2>2. /\ proposals[p].nonce + 1 \in DOMAIN Executions
          /\ Executions[proposals[p].nonce + 1] = WithNonce(proposals[p].nonce)
      BY <1>0, <2>1 DEF Executions
    <2>3. WithNonce(proposals[p].nonce) = p
      BY <1>1, <2>1 DEF NoncesFind
    <2>. QED
      BY <2>2, <2>3 DEF Log!CarriedOut
  <1>. QED
    BY <1>1, <1>4, <1>5, <1>6

\* As long as the same proposals are executed with the same nonces, the log stays.
LEMMA LogIsKept ==
    ASSUME nonce' = nonce, Executed' = Executed,
           \A p \in Executed : proposals'[p].nonce = proposals[p].nonce
    PROVE  Executions' = Executions
  <1>1. ASSUME NEW n PROVE WithNonce(n)' = WithNonce(n)
    BY DEF WithNonce
  <1>. QED
    BY <1>1 DEF Executions

\* An execution is appended to the log.
LEMMA LogGrows ==
    ASSUME LogInv, [Next]_vars, NEW p \in Proposed, Ran(p), KeptExcept(p)
    PROVE  Executions' = Append(Executions, p)
  <1>1. /\ counter \in Nat /\ nonce \in Nat
        /\ Proposed \subseteq ProposalIds /\ Proposed' = Proposed
        /\ \A q \in Proposed : proposals[q] \in Proposal
    BY ProposalsAssumption DEF LogInv, Types, Proposed, ProposalIds, Ran
  <1>2. /\ nonce' = nonce + 1 /\ p \notin Executed
        /\ proposals'[p].executed /\ proposals'[p].nonce = nonce
        /\ \A q \in Proposed \ {p} : proposals'[q] = proposals[q]
    BY <1>1 DEF Ran, CanExecute, KeptExcept, Proposal, Executed
  <1>3. Executed' = Executed \cup {p}
    BY <1>1, <1>2 DEF Executed
  <1>4. NoncesFind /\ NoncesFind'
    <2>1. NoncesNumberExecutions /\ NoncesNumberExecutions'
      BY NoncesStep DEF LogInv
    <2>2. (NoncesNumberExecutions => NoncesFind)'
      BY NoncesFindExecutions, PTL
    <2>. QED
      BY <2>1, <2>2, NoncesFindExecutions
  <1>5. Executions \in Seq(ProposalIds) /\ Len(Executions) = nonce
    BY LogHasExecutions DEF LogInv
  <1>6. ASSUME NEW n \in 0 .. nonce - 1 PROVE WithNonce(n)' = WithNonce(n)
    <2>1. WithNonce(n) \in Executed /\ proposals[WithNonce(n)].nonce = n
      BY <1>4 DEF NoncesFind
    <2>2. WithNonce(n) \in Executed' /\ proposals'[WithNonce(n)].nonce = n
      BY <1>2, <1>3, <2>1 DEF Executed
    <2>3. n \in 0 .. nonce' - 1
      BY <1>1, <1>2
    <2>. QED
      BY <1>4, <2>2, <2>3 DEF NoncesFind
  <1>7. ASSUME NEW n, n = nonce PROVE WithNonce(n)' = p
    <2>1. n \in 0 .. nonce' - 1 /\ p \in Executed' /\ proposals'[p].nonce = n
      BY <1>1, <1>2, <1>3, <1>7
    <2>. QED
      BY <1>4, <2>1 DEF NoncesFind
  <1>. DEFINE longer == Append(Executions, p)
  <1>8. /\ longer \in Seq(ProposalIds) /\ Len(longer) = nonce + 1
        /\ \A k \in 1 .. nonce : longer[k] = Executions[k]
        /\ longer[nonce + 1] = p
    BY <1>1, <1>5, AppendProperties
  <1>9. Executions' = [k \in 1 .. nonce + 1 |-> WithNonce(k - 1)']
    BY <1>2 DEF Executions
  <1>10. ASSUME NEW k \in 1 .. nonce + 1 PROVE WithNonce(k - 1)' = longer[k]
    <2>1. CASE k - 1 = nonce
      BY <1>1, <1>7, <1>8, <2>1
    <2>2. CASE k - 1 # nonce
      <3>1. k \in 1 .. nonce /\ k - 1 \in 0 .. nonce - 1
        BY <1>1, <2>2
      <3>. QED
        BY <1>6, <1>8, <3>1 DEF Executions
    <2>. QED
      BY <2>1, <2>2
  <1>. HIDE DEF longer
  <1>11. longer = [k \in 1 .. nonce + 1 |-> longer[k]]
    BY <1>1, <1>8
  <1>12. Executions' = longer
    BY <1>9, <1>10, <1>11
  <1>. QED
    BY <1>12 DEF longer

\* The log counts as the multisig does.
LEMMA LogCounts == \A S : Log!Cardinality(S) = Cardinality(S)
  BY DEF Log!Cardinality, Cardinality

\* Every call is a step of the log, or leaves it alone.
LEMMA StepOfLog ==
    ASSUME LogInv, [Next]_vars
    PROVE  [Log!Next]_(Log!vars)
  <1>0. /\ counter \in Nat /\ nonce \in Nat /\ ProposalIds \subseteq Nat
        /\ Proposed \subseteq ProposalIds
        /\ \A q \in ProposalIds : proposals[q] \in Proposal
        /\ Log!CarriedOut = Executed
    BY ProposalsAssumption, LogHasExecutions DEF LogInv, Types, Proposed, ProposalIds
  <1>1. ASSUME NEW s \in Addresses, NEW hash \in Hashes, Propose(s, hash)
        PROVE  Log!Ask(counter + 1)
    <2>1. counter + 1 \in ProposalIds /\ counter + 1 \notin Proposed /\ Proposed' = Proposed \cup {counter + 1}
      BY <1>0, <1>1, ProposalsAssumption DEF Propose, ProposalIds, Proposed
    <2>2. Asked[counter + 1] = Log!NoRequest
      <3>1. counter + 1 > counter
        BY <1>0
      <3>2. proposals[counter + 1] = NoProposal
        BY <2>1, <3>1 DEF LogInv, NoneAbove
      <3>3. /\ NoProposal.hash = InitialCode /\ NoProposal.signers = {}
            /\ NoProposal.threshold = 1 /\ NoProposal.approvals = {}
        BY DEF NoProposal
      <3>. QED
        BY <2>1, <3>2, <3>3 DEF Asked, Log!NoRequest
    <2>3. /\ proposals'[counter + 1].hash = hash
          /\ proposals'[counter + 1].signers = signers
          /\ proposals'[counter + 1].threshold = threshold
          /\ proposals'[counter + 1].approvals = {}
          /\ ~proposals'[counter + 1].executed
          /\ \A q \in ProposalIds \ {counter + 1} : proposals'[q] = proposals[q]
      BY <1>1, <2>1 DEF Propose, LogInv, Types
    <2>4. Asked' = [Asked EXCEPT ![counter + 1] = [hash |-> hash, asked |-> signers,
                                                   needed |-> threshold, agreed |-> {}]]
      BY <2>1, <2>3 DEF Asked
    <2>5. signers \in SUBSET Addresses /\ threshold \in 1 .. Cardinality(signers)
      BY DEF LogInv, Types, ThresholdIsReachable
    <2>6. /\ nonce' = nonce /\ code' = code /\ Executed' = Executed
          /\ \A q \in Executed : proposals'[q].nonce = proposals[q].nonce
      BY <1>0, <1>1, <2>1, <2>3 DEF Propose, Executed
    <2>7. Executions' = Executions
      BY <2>6, LogIsKept
    <2>. QED
      BY <2>2, <2>4, <2>5, <2>6, <2>7, LogCounts DEF Log!Ask
  <1>2. ASSUME NEW s \in Addresses, NEW p \in ProposalIds, Approve(p, s)
        PROVE  Log!Agree(p, s)
    <2>1. p \in Proposed /\ MayApprove(p, s)
      BY <1>2 DEF Approve
    <2>2. /\ proposals'[p] = [proposals[p] EXCEPT !.approvals = @ \cup {s}]
          /\ \A q \in ProposalIds \ {p} : proposals'[q] = proposals[q]
      BY <1>2 DEF Approve, LogInv, Types
    <2>3. Asked' = [Asked EXCEPT ![p].agreed = @ \cup {s}]
      <3>1. /\ proposals'[p].hash = proposals[p].hash
            /\ proposals'[p].signers = proposals[p].signers
            /\ proposals'[p].threshold = proposals[p].threshold
            /\ proposals'[p].approvals = proposals[p].approvals \cup {s}
        BY <1>0, <2>2 DEF Proposal
      <3>2. [Asked[p] EXCEPT !.agreed = @ \cup {s}]
              = [hash |-> proposals[p].hash, asked |-> proposals[p].signers,
                 needed |-> proposals[p].threshold, agreed |-> proposals[p].approvals \cup {s}]
        BY DEF Asked
      <3>3. \A q \in ProposalIds :
              Asked'[q] = IF q = p THEN [Asked[p] EXCEPT !.agreed = @ \cup {s}] ELSE Asked[q]
        BY <2>2, <3>1, <3>2 DEF Asked
      <3>. QED
        BY <3>3 DEF Asked
    <2>4. /\ nonce' = nonce /\ code' = code /\ Executed' = Executed
          /\ \A q \in Executed : proposals'[q].nonce = proposals[q].nonce
      BY <1>0, <1>2, <2>2 DEF Approve, Executed, Proposed, Proposal
    <2>5. Executions' = Executions
      BY <2>4, LogIsKept
    <2>. QED
      BY <1>0, <2>1, <2>3, <2>4, <2>5 DEF Log!Agree, MayApprove, Executed, Asked
  <1>3. ASSUME NEW p \in ProposalIds, NEW expected \in 0 .. MaxProposals,
               ExecuteUpgrade(p, expected)
        PROVE  Log!CarryOut(p)
    <2>1. /\ p \in Proposed /\ CanExecute(p) /\ code' = proposals[p].hash
          /\ proposals'[p] = [proposals[p] EXCEPT !.executed = TRUE, !.nonce = nonce]
          /\ \A q \in ProposalIds \ {p} : proposals'[q] = proposals[q]
          /\ counter' = counter /\ nonce' = nonce + 1
      BY <1>3 DEF ExecuteUpgrade, Install, NonceConsumed, LogInv, Types
    <2>2. Ran(p) /\ KeptExcept(p)
      BY <1>0, <2>1 DEF Ran, KeptExcept
    <2>3. Executions' = Append(Executions, p)
      BY <2>1, <2>2, LogGrows
    <2>4. Asked' = Asked
      BY <1>0, <2>1 DEF Asked, Proposal
    <2>. QED
      BY <1>0, <2>1, <2>3, <2>4, LogCounts DEF Log!CarryOut, CanExecute, Executed, Asked
  <1>4. ASSUME UNCHANGED <<proposals, counter, nonce, code>>
        PROVE  UNCHANGED Log!vars
    <2>1. Executed' = Executed /\ Asked' = Asked
      BY <1>4 DEF Executed, Proposed, Asked
    <2>2. Executions' = Executions
      BY <1>4, <2>1, LogIsKept
    <2>. QED
      BY <1>4, <2>1, <2>2 DEF Log!vars
  <1>5. \A s \in Addresses, hash \in Hashes : Propose(s, hash) => counter + 1 \in ProposalIds
    BY <1>0, ProposalsAssumption DEF Propose, ProposalIds
  <1>. QED
    BY <1>1, <1>2, <1>3, <1>4, <1>5 DEF Next, Log!Next, RemoveSigner, AddSigner, RotateSigners, vars

\* The multisig implements the log of upgrades: whoever the signers are, each
\* upgrade has the approvals it was proposed with, runs once, and in the order
\* of its nonce.
THEOREM MultiSigKeepsLog == Spec => KeepsLog
  <1>1. Init => NoneAbove
    BY DEF Init, NoneAbove
  <1>2. Spec => []NoneAbove
    BY <1>1, NoneAboveStep, TypesAlways, PTL DEF Spec
  <1>3. Spec => []LogInv
    BY <1>2, TypesAlways, ThresholdStaysReachable, NoncesAlwaysNumber, PTL DEF LogInv
  <1>4. Init => Log!Init
    BY DEF Init, NoProposal, Log!Init, Log!NoRequest, Asked, Executions
  <1>5. LogInv /\ [Next]_vars => [Log!Next]_(Log!vars)
    BY StepOfLog
  <1>. QED
    BY <1>3, <1>4, <1>5, PTL DEF Spec, KeepsLog, Log!Spec

-----------------------------------------------------------------------------
(* Liveness *)

\* What the signers and whoever executes are assumed to do
Approves(p, s) == WF_vars(Approve(p, s))
Executes(p) == WF_vars(ExecuteUpgrade(p, nonce))
AllApprove == \A p \in ProposalIds, s \in Addresses : Approves(p, s)
AllExecute == \A p \in ProposalIds : Executes(p)

\* The signers whose approval is missing, everybody before the proposal is made
Missing(p) ==
    IF p \in Proposed THEN proposals[p].signers \ proposals[p].approvals ELSE Addresses
StopsAt(p, last) == <>[](Missing(p) = last)
ApprovalsStop(p) == \E last : StopsAt(p, last)

Open(p) == p \in Proposed /\ p \notin Executed

\* A proposal stays, and no call gives an open one another signer to wait for.
LEMMA MissingOnlyShrinks ==
    ASSUME Types, [Next]_vars, NEW p \in ProposalIds
    PROVE  /\ p \in Proposed => p \in Proposed'
           /\ Missing(p)' \subseteq Missing(p)
  <1>0. /\ Proposed \subseteq ProposalIds /\ counter \in Nat
        /\ \A q \in Proposed : proposals[q] \in Proposal
    BY ProposalsAssumption DEF Types, Proposed, ProposalIds
  <1>1. CASE UNCHANGED <<proposals, counter, nonce, code>>
    BY <1>1 DEF Missing, Proposed
  <1>2. CASE Opened /\ \A q \in Proposed : proposals'[q] = proposals[q]
    <2>1. Types'
      BY TypesStep
    <2>2. Proposed \subseteq Proposed'
      BY <1>0, <1>2 DEF Opened, Proposed
    <2>3. \A q \in Proposed' : proposals'[q].signers \subseteq Addresses
      BY <2>1, ProposalsAssumption DEF Types, Proposed, ProposalIds, Proposal
    <2>. QED
      BY <1>0, <1>2, <2>2, <2>3 DEF Missing
  <1>3. ASSUME NEW q \in Proposed, Approved(q) \/ Ran(q), KeptExcept(q)
        PROVE  /\ p \in Proposed => p \in Proposed'
               /\ Missing(p)' \subseteq Missing(p)
    <2>1. Proposed' = Proposed
      BY <1>3 DEF Approved, Ran, Proposed
    <2>2. /\ proposals'[q].signers = proposals[q].signers
          /\ proposals[q].approvals \subseteq proposals'[q].approvals
      BY <1>0, <1>3 DEF Approved, Ran, Proposal
    <2>. QED
      BY <1>3, <2>1, <2>2 DEF Missing, KeptExcept
  <1>. QED
    BY <1>1, <1>2, <1>3, EveryStepOnProposals

\* That a missing approval can be given, and that an approved proposal can be executed,
\* when their own guards hold.  This unfolds ENABLED, for which the prover has no rule,
\* and says nothing else; the theorem about liveness has it as a hypothesis.
CallsHaveEffect ==
    \A p \in Proposed \ Executed :
        /\ \A s \in proposals[p].signers \ proposals[p].approvals : ENABLED <<Approve(p, s)>>_vars
        /\ Cardinality(proposals[p].approvals) >= proposals[p].threshold =>
              ENABLED <<ExecuteUpgrade(p, nonce)>>_vars

\* With the signers of its snapshot willing a proposal is executed in the end, however
\* the signers rotate.  Approvals take signers away from those that are missing; while
\* some are, one of them can approve, and then anybody can execute.
THEOREM EveryProposalIsAlwaysExecuted ==
    FairSpec /\ []CallsHaveEffect /\ (\A p \in ProposalIds : StopsShrinking(Missing(p)))
        => EveryProposalIsExecuted
  <1>. DEFINE Context == FairSpec /\ []CallsHaveEffect
              Done(p) == Context => ((p \in Proposed) ~> (p \in Executed))
  <1>1. SUFFICES ASSUME NEW p \in ProposalIds
                 PROVE  Context /\ StopsShrinking(Missing(p))
                            => ((p \in Proposed) ~> (p \in Executed))
    BY <1>1 DEF EveryProposalIsExecuted
  <1>2. FairSpec => Spec /\ AllApprove /\ AllExecute
    BY PTL DEF FairSpec, AllApprove, AllExecute, Approves, Executes
  <1>3. AllExecute => Executes(p)
    BY DEF AllExecute
  <1>4. Types => IsFiniteSet(Missing(p))
    <2>. SUFFICES ASSUME Types PROVE IsFiniteSet(Missing(p))
      OBVIOUS
    <2>1. Missing(p) \subseteq Addresses
      BY DEF Missing, Types, Proposal
    <2>. QED
      BY <2>1, AddressesAreCounted
  <1>5. Types /\ [Next]_vars => [Missing(p)' \subseteq Missing(p)]_(Missing(p))
    BY MissingOnlyShrinks
  <1>6. Types /\ [Next]_vars /\ Open(p) => Open(p)' \/ (p \in Executed)'
    BY MissingOnlyShrinks DEF Open
  <1>7. FairSpec /\ StopsShrinking(Missing(p)) => ApprovalsStop(p)
    BY <1>2, <1>4, <1>5, TypesAlways, PTL DEF Spec, StopsShrinking, ApprovalsStop, StopsAt
  <1>8. ASSUME NEW s \in Addresses
        PROVE  /\ CallsHaveEffect /\ Open(p) /\ s \in Missing(p) => ENABLED <<Approve(p, s)>>_vars
               /\ Types /\ <<Approve(p, s)>>_vars => ~((s \in Missing(p))')
    <2>1. Open(p) /\ s \in Missing(p) => s \in proposals[p].signers \ proposals[p].approvals
      BY DEF Open, Missing
    <2>2. ASSUME Types, Approve(p, s) PROVE ~((s \in Missing(p))')
      <3>1. p \in Proposed /\ Proposed' = Proposed /\ s \in proposals'[p].approvals
        BY <2>2 DEF Approve, Types, Proposal, Proposed
      <3>. QED
        BY <3>1 DEF Missing
    <2>. QED
      BY <2>1, <2>2 DEF CallsHaveEffect, Open
  <1>9. Types /\ ThresholdIsReachable /\ ExecutionsHaveQuorum /\ CallsHaveEffect
            /\ Open(p) /\ Missing(p) = {} => ENABLED <<ExecuteUpgrade(p, nonce)>>_vars
    <2>. SUFFICES ASSUME Types, ThresholdIsReachable, ExecutionsHaveQuorum, CallsHaveEffect,
                         Open(p), Missing(p) = {}
                  PROVE  ENABLED <<ExecuteUpgrade(p, nonce)>>_vars
      OBVIOUS
    <2>1. proposals[p].approvals = proposals[p].signers
      BY DEF Missing, Open, ExecutionsHaveQuorum
    <2>2. Cardinality(proposals[p].approvals) >= proposals[p].threshold
      <3>1. proposals[p].threshold \in 1 .. Cardinality(proposals[p].signers)
        BY DEF ThresholdIsReachable, Open
      <3>2. Cardinality(proposals[p].signers) \in Nat
        BY AddressesAreCounted DEF Types, Proposal
      <3>. QED
        BY <2>1, <3>1, <3>2
    <2>. QED
      BY <2>2 DEF CallsHaveEffect, Open
  <1>10. Types /\ Open(p) /\ <<ExecuteUpgrade(p, nonce)>>_vars => (p \in Executed)'
    BY DEF ExecuteUpgrade, Executed, Proposed, Types, Proposal
  <1>11. (p \in Proposed) => Open(p) \/ (p \in Executed)
    BY DEF Open
  <1>12. StopsAt(p, {}) => Done(p)
    BY <1>2, <1>3, <1>6, <1>9, <1>10, <1>11, TypesAlways, ThresholdStaysReachable,
       ExecutionsAlwaysHaveQuorum, PTL DEF Spec, StopsAt, Executes
  <1>13. ASSUME NEW last, NEW s \in last \cap Addresses
         PROVE  StopsAt(p, last) => Done(p)
    <2>1. AllApprove => Approves(p, s)
      BY DEF AllApprove
    <2>2. Missing(p) = last => s \in Missing(p)
      OBVIOUS
    <2>3. /\ CallsHaveEffect /\ Open(p) /\ s \in Missing(p) => ENABLED <<Approve(p, s)>>_vars
          /\ Types /\ <<Approve(p, s)>>_vars => ~((s \in Missing(p))')
      BY <1>8
    <2>. QED
      BY <1>2, <1>6, <1>11, <2>1, <2>2, <2>3, TypesAlways, PTL DEF Spec, StopsAt, Approves
  <1>14. ASSUME NEW last, NEW s \in last \ Addresses
         PROVE  StopsAt(p, last) => Done(p)
    <2>1. Types => ~(Missing(p) = last)
      BY DEF Missing, Types, Proposal
    <2>. QED
      BY <1>2, <2>1, TypesAlways, PTL DEF Spec, StopsAt
  <1>. HIDE DEF Done
  <1>15. ApprovalsStop(p) => Done(p)
    BY <1>12, <1>13, <1>14 DEF ApprovalsStop
  <1>. QED
    BY <1>7, <1>15, PTL DEF Done
=============================================================================
