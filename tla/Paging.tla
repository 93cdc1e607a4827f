-------------------------------- MODULE Paging --------------------------------
(***************************************************************************)
(* The loop that every filtered query of the two escrows runs over a       *)
(* stored list: skip the first offset elements that match and return the   *)
(* next ones, as many as the limit allows.                                 *)
(***************************************************************************)
EXTENDS Lists, SequencesExt

CONSTANT MaxQueryLimit  \* MAX_QUERY_LIMIT
ASSUME QueryLimitAssumption == MaxQueryLimit \in Nat \ {0}

Capped(limit) == IF limit <= MaxQueryLimit THEN limit ELSE MaxQueryLimit

Page(list, matching, offset, limit) == Slice(Filtered(list, matching), offset, limit)
=============================================================================
