-------------------------- MODULE BountyEscrowDocs --------------------------
(***************************************************************************)
(* What the documents and the tests of the repository say of the bounty    *)
(* escrow and its code does not do: each property quotes its source, and a *)
(* run of its own finds the behaviour that contradicts it.                 *)
(***************************************************************************)
EXTENDS EscrowViews

\* test_balance_invariant.rs:7-9: "contract_sac_balance == Sum remaining_amount
\* for every tracked bounty [...] must hold after every mutating operation".
\* release_funds after partial_release pays the whole amount a second time.
BalanceIsRemaining ==
    held = Sum([b \in Bounties |-> escrow[b].remaining], Bounties)
=============================================================================
