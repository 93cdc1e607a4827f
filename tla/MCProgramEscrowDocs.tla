-------------------------- MODULE MCProgramEscrowDocs --------------------------
(***************************************************************************)
(* An instance of ProgramEscrowDocs for TLC                                *)
(***************************************************************************)
EXTENDS ProgramEscrowDocs

CONSTANT r1
=============================================================================
