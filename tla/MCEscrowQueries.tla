--------------------------- MODULE MCEscrowQueries ---------------------------
(* Values for the constants of EscrowQueries, for TLC. *)
EXTENDS EscrowQueries

CONSTANTS b1, b2, b3, d1, d2

\* Two kinds of bounties that differ in all the filters look at
SomeTerms == {[depositor |-> d1, amount |-> 1, deadline |-> 0],
              [depositor |-> d2, amount |-> 0, deadline |-> 1]}

AnyFilter == Depositors \cup {"locked", "partial", "released", "refunded", "expiring",
                              "valuable", "amount", "deadline", "any"}

\* Filtered is SelectSeq
ASSUME FilteredSelects ==
    \A length \in 0 .. 4 : \A list \in [1 .. length -> Bounties], matching \in SUBSET Bounties :
        Filtered(list, matching) = SelectSeq(list, LAMBDA b : b \in matching)
=============================================================================
