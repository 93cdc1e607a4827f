---------------------------- MODULE GovernanceDocs ----------------------------
(***************************************************************************)
(* Statements of the repository's documents about governance that the code *)
(* does not keep.  Each is checked by a run of its own.                    *)
(***************************************************************************)
EXTENDS Governance

\* docs/GOVERNANCE_INTEGRATION.md:127: "a cancelled proposal is rejected and
\* cannot authorize a governance-triggered escrow action".  finalize_proposal
\* looks at no status, so a proposal its proposer cancelled may be approved by
\* the votes it had, and then executed.
CancelledAuthorizesNothing ==
    [][\A p \in ProposalIds :
          proposals[p].status = "Cancelled" =>
              proposals'[p].status \notin {"Approved", "Executed"}]_vars
=============================================================================
