----------------------------- MODULE MCCoreUpgrade -----------------------------
(***************************************************************************)
(* Instances of CoreUpgrade for TLC.  No symmetry: the run checks liveness. *)
(***************************************************************************)
EXTENDS CoreUpgrade

CONSTANTS a1, a2, h1, h2
=============================================================================
