-------------------------------- MODULE Descent --------------------------------
(***************************************************************************)
(* A finite set from which elements are only taken away stops shrinking:   *)
(* what liveness proofs by descent rest on.  The formula is true of every  *)
(* state function in every behaviour, which the prover's temporal logic,   *)
(* being propositional, cannot derive; a theorem that needs an instance    *)
(* has it as a hypothesis.                                                 *)
(***************************************************************************)
EXTENDS FiniteSets

StopsShrinking(set) ==
    []IsFiniteSet(set) /\ [][set' \subseteq set]_set => \E last : <>[](set = last)
=============================================================================
