-------------------------------- MODULE Lists --------------------------------
(***************************************************************************)
(* Parts of a list: the elements that match, in their order, and a slice   *)
(* of consecutive elements.                                                *)
(***************************************************************************)
EXTENDS Integers, Sequences, FiniteSets

\* How many elements match, up to position i
Rank(list, matching, i) == Cardinality({j \in 1 .. i : list[j] \in matching})

\* What SelectSeq selects, in a form that can be reasoned about: the k-th of
\* the elements that match is the one with k of them up to it
Filtered(list, matching) ==
    [k \in 1 .. Rank(list, matching, Len(list)) |->
        list[CHOOSE i \in DOMAIN list : list[i] \in matching /\ Rank(list, matching, i) = k]]

Upto(list, first, last) == SubSeq(list, first, IF last <= Len(list) THEN last ELSE Len(list))

\* Mutant: the elements that are skipped count towards the limit
SliceToLimit(list, offset, limit) == Upto(list, offset + 1, limit)

Slice(list, offset, limit) == Upto(list, offset + 1, offset + limit)
=============================================================================
