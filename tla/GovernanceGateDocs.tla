-------------------------- MODULE GovernanceGateDocs --------------------------
(***************************************************************************)
(* What the documents and the tests of the repository say of an escrow     *)
(* that is linked to a governance contract and the code does not do.  The  *)
(* run of this property finds the behaviour that contradicts it.           *)
(***************************************************************************)
EXTENDS GovernanceGate

\* The minimum version that docs/GOVERNANCE_INTEGRATION.md sets in its examples
Recommended == 2

\* docs/GOVERNANCE_INTEGRATION.md:184-190 links a contract that init_governance
\* set up and asks for version 2, and :228-230 has an upgrade "approved only for
\* this exact wasm hash" once its proposal is executed; so does
\* program-escrow/src/test_governance_integration.rs:265-273, "Must not panic",
\* against a mock that reports version 2.  init_governance stores no version, so
\* the contract reports 0, and the escrow refuses what its proposals approved.
ApprovedUpgradesPass ==
    \A h \in Hashes :
        linked = "governance" /\ minimum = Recommended /\ UpgradeApproved(h)
            => CheckUpgradeApproval(h)
=============================================================================
