-------------------------------- MODULE Sums --------------------------------
(***************************************************************************)
(* Sums of amounts.                                                        *)
(***************************************************************************)
EXTENDS Integers, FiniteSets, FiniteSetsExt

\* The sum of f[x] over the x in S
Sum(f, S) == MapThenSumSet(LAMBDA x : f[x], S)
=============================================================================
