----------------------------- MODULE MCGovernance -----------------------------
(***************************************************************************)
(* An instance of Governance for TLC                                       *)
(***************************************************************************)
EXTENDS GovernanceDocs, TLC

CONSTANTS v1, v2

\* One of two has the stake to propose
OneProposer == (v1 :> 2) @@ (v2 :> 0)
=============================================================================
