--------------------------- MODULE MCBountyEscrow ---------------------------
(* Values for the constants of BountyEscrow, for TLC. *)
EXTENDS BountyEscrowDocs

CONSTANTS b1, b2, s1, s2

\* No pause flag is ever set
NoPause == {[global |-> FALSE, lock |-> FALSE, release |-> FALSE, refund |-> FALSE]}

\* The emergency switch, or one granular flag at a time
AnyPause == NoPause \cup
    {[global |-> TRUE, lock |-> FALSE, release |-> FALSE, refund |-> FALSE],
     [global |-> FALSE, lock |-> TRUE, release |-> FALSE, refund |-> FALSE],
     [global |-> FALSE, lock |-> FALSE, release |-> TRUE, refund |-> FALSE],
     [global |-> FALSE, lock |-> FALSE, release |-> FALSE, refund |-> TRUE]}

\* Payouts of a bounty of 3 need both signers, or any one of them
TwoSigners == {[threshold |-> 3, signers |-> {s1, s2}, slots |-> 2, required |-> n] : n \in 1 .. 2}

\* Bounds that shut out amount 1, and bounds that admit everything
SomePolicies == {[min |-> 2, max |-> 3], [min |-> 0, max |-> 3]}
=============================================================================
