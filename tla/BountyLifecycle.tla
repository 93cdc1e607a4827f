--------------------------- MODULE BountyLifecycle ---------------------------
(***************************************************************************)
(* What a bounty promises its depositor and its contributor, whatever the  *)
(* contract keeps to deliver it: the abstract specification BountyEscrow   *)
(* implements.  An account is the part of a bounty that matters to them.   *)
(* One call may move several accounts, each by one step of its lifecycle.  *)
(***************************************************************************)
EXTENDS Integers

CONSTANT Bounties

VARIABLE accounts

\* owed: what the escrow still holds for the bounty; paid and refunded: what
\* went to contributors and back to the depositor; claim: whether the payment
\* is reserved for a recipient who has yet to collect it.
Account == [status : {"None", "Locked", "PartiallyRefunded", "Released", "Refunded"},
            owed : Nat, paid : Nat, refunded : Nat, claim : {"None", "Pending", "Claimed"}]

Unused == [status |-> "None", owed |-> 0, paid |-> 0, refunded |-> 0, claim |-> "None"]

Init == accounts = [b \in Bounties |-> Unused]

\* The depositor funds the account
Fund(a, new) ==
    /\ a.status = "None"
    /\ new = [Unused EXCEPT !.status = "Locked", !.owed = new.owed]

\* A contributor is paid a part; the last part settles the account
Pay(a, new) ==
    /\ a.status = "Locked" /\ a.claim = "None"
    /\ \E part \in 1 .. a.owed :
          new = [a EXCEPT !.owed = @ - part, !.paid = @ + part,
                          !.status = IF part = a.owed THEN "Released" ELSE @]

\* The account is settled by paying at least what it owed
PayOff(a, new) ==
    /\ a.status = "Locked" /\ a.claim = "None"
    /\ new.paid >= a.paid + a.owed
    /\ new = [a EXCEPT !.owed = 0, !.paid = new.paid, !.status = "Released"]

\* What is owed is reserved for a recipient, the reservation is renewed or dropped
Reserve(a, new) ==
    /\ a.status = "Locked" /\ a.claim \in {"None", "Pending"}
    /\ new.claim \in {"None", "Pending"}
    /\ new = [a EXCEPT !.claim = new.claim]

\* The recipient collects exactly what is owed
Collect(a, new) ==
    /\ a.status = "Locked" /\ a.claim = "Pending"
    /\ new = [a EXCEPT !.owed = 0, !.paid = @ + a.owed, !.status = "Released",
                       !.claim = "Claimed"]

\* The depositor gets a part or the rest back; from then on nobody is paid
GiveBack(a, new) ==
    /\ a.status \in {"Locked", "PartiallyRefunded"} /\ a.claim = "None"
    /\ \E part \in 1 .. a.owed, status \in {"PartiallyRefunded", "Refunded"} :
          new = [a EXCEPT !.owed = @ - part, !.refunded = @ + part, !.status = status]

Step(a, new) ==
    \/ new = a
    \/ Fund(a, new)
    \/ Pay(a, new)
    \/ PayOff(a, new)
    \/ Reserve(a, new)
    \/ Collect(a, new)
    \/ GiveBack(a, new)

Next ==
    /\ accounts' \in [Bounties -> Account]
    /\ \A b \in Bounties : Step(accounts[b], accounts'[b])

Spec == Init /\ [][Next]_accounts
=============================================================================
