------------------------------ MODULE MCMultiSig ------------------------------
(***************************************************************************)
(* Instances of MultiSig for TLC.  No symmetry: the run checks liveness.   *)
(***************************************************************************)
EXTENDS MultiSig

CONSTANTS a1, a2, a3, h1
=============================================================================
