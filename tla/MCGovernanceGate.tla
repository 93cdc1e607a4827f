--------------------------- MODULE MCGovernanceGate ---------------------------
(***************************************************************************)
(* Instances of GovernanceGate for TLC                                     *)
(***************************************************************************)
EXTENDS GovernanceGateDocs, TLC

CONSTANTS v1, v2

\* Two holders of different weight
TwoHolders == (v1 :> 2) @@ (v2 :> 1)

\* One of two has the stake to propose
OneProposer == (v1 :> 2) @@ (v2 :> 0)
=============================================================================
