--------------------------------- MODULE Poll ---------------------------------
(***************************************************************************)
(* What a vote promises to those who take part in it: the abstract         *)
(* specification Governance implements.  While a poll is open everybody    *)
(* casts at most one ballot and never takes it back; once it is over the   *)
(* ballots decide it, and what they decided stays decided.  A poll that is *)
(* shelved takes no more ballots, but those it has may still decide it.    *)
(*                                                                         *)
(* One call moves one poll; time passing may end several.                  *)
(***************************************************************************)
EXTENDS Sums

CONSTANTS
    Polls,      \* names of polls
    Voters,     \* who may cast a ballot
    Weighted,   \* whether ballots weigh more than one
    Everything, \* what all ballots together may weigh
    Quorum,     \* the part of it that must be cast, in basis points
    Threshold   \* the part of the decided ones that must be in favour

VARIABLE polls

Type == {"For", "Against", "Abstain"}

Ballot == [type : Type, power : Nat]

PollState == [stage : {"None", "Open", "Shelved", "Carried", "Lost"},
              clock : {"Running", "Over"},
              ballots : [Voters -> Ballot]]

Unused == [stage |-> "None", clock |-> "Running",
           ballots |-> [v \in Voters |-> [type |-> "Abstain", power |-> 0]]]

Init == polls = [p \in Polls |-> Unused]

\* What the ballots of some types weigh
Weight(ballots, T) ==
    Sum([v \in Voters |-> IF ballots[v].type \in T THEN ballots[v].power ELSE 0], Voters)

\* Exact parts, nothing is rounded
Carries(ballots) ==
    LET decided == Weight(ballots, {"For", "Against"})
    IN  /\ Weight(ballots, Type) * 10000 >= Quorum * Everything
        /\ decided > 0
        /\ Weight(ballots, {"For"}) * 10000 >= Threshold * decided

Call(a, new) ==
    /\ a = Unused
    /\ new = [Unused EXCEPT !.stage = "Open"]

Cast(a, new) ==
    /\ a.stage = "Open" /\ a.clock = "Running"
    /\ \E v \in Voters :
         /\ a.ballots[v].power = 0
         /\ IF Weighted THEN new.ballots[v].power > 0 ELSE new.ballots[v].power = 1
         /\ new = [a EXCEPT !.ballots[v] = new.ballots[v]]

End(a, new) ==
    /\ a.stage # "None" /\ a.clock = "Running"
    /\ new = [a EXCEPT !.clock = "Over"]

Shelve(a, new) ==
    /\ a.stage = "Open"
    /\ new = [a EXCEPT !.stage = "Shelved"]

Decide(a, new) ==
    /\ a.stage \in {"Open", "Shelved"} /\ a.clock = "Over"
    /\ new = [a EXCEPT !.stage = IF Carries(a.ballots) THEN "Carried" ELSE "Lost"]

Step(a, new) ==
    \/ new = a
    \/ Call(a, new)
    \/ Cast(a, new)
    \/ End(a, new)
    \/ Shelve(a, new)
    \/ Decide(a, new)

Next ==
    /\ polls' \in [Polls -> PollState]
    /\ \A p \in Polls : Step(polls[p], polls'[p])

Spec == Init /\ [][Next]_polls
=============================================================================
