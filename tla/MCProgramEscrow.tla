--------------------------- MODULE MCProgramEscrow ---------------------------
(***************************************************************************)
(* Instances of ProgramViews for TLC                                       *)
(***************************************************************************)
EXTENDS ProgramViews

CONSTANTS r1, r2
=============================================================================
