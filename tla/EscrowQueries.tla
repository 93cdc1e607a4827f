---------------------------- MODULE EscrowQueries ----------------------------
(***************************************************************************)
(* The paginated queries of the bounty escrow                              *)
(* (bounty_escrow/contracts/escrow/src/lib.rs) and a client that reads a   *)
(* list page by page, as their documentation tells it to, while other      *)
(* callers lock, pay and refund bounties between its calls.                *)
(*                                                                         *)
(* The bounties themselves follow BountyLifecycle, which BountyEscrow is   *)
(* proved to implement, so what holds here holds for the contract.         *)
(***************************************************************************)
EXTENDS BountyLifecycle, Paging, Sums

CONSTANTS
    Depositors,     \* addresses that lock bounties
    Terms,          \* depositor, amount and deadline that bounties are locked with
    Filters,        \* names of the filters the client walks with
    Limits,         \* limits that queries are given
    MaxInt          \* stands for u32::MAX

ASSUME QueryAssumption ==
    /\ IsFiniteSet(Bounties) /\ IsFiniteSet(Depositors)
    /\ Terms \subseteq [depositor : Depositors, amount : Nat, deadline : Nat]
    /\ Limits \subseteq 1 .. MaxInt
    /\ MaxInt \in Nat

VARIABLES
    index,            \* DataKey::EscrowIndex
    depositorIndex,   \* DataKey::DepositorIndex
    record,           \* the terms of each escrow
    walk              \* the client: its filter, the pages it has, and, as
                      \* history, the bounties that matched all the while

queryVars == <<accounts, index, depositorIndex, record, walk>>

Status(b) == accounts[b].status
ActiveStatus == {"Locked", "PartiallyRefunded"}

NoRecord == [depositor |-> "nobody", amount |-> 0, deadline |-> 0]

-----------------------------------------------------------------------------
(* The queries *)

\* query_escrows_by_depositor takes positions of the depositor's index, and
\* traps when offset + limit does not fit; its limit has no cap
PageOfDepositor(d, offset, limit) == Slice(depositorIndex[d], offset, limit)

\* What each query asks of an escrow.  The thresholds are one amount, one
\* deadline and one depositor; query_escrows takes any of them together.
Matches(filter, b) ==
    CASE filter = "locked" -> Status(b) = "Locked"
      [] filter = "partial" -> Status(b) = "PartiallyRefunded"
      [] filter = "released" -> Status(b) = "Released"
      [] filter = "refunded" -> Status(b) = "Refunded"
      [] filter = "expiring" -> Status(b) \in ActiveStatus /\ record[b].deadline <= 0
      [] filter = "valuable" -> Status(b) \in ActiveStatus /\ accounts[b].owed >= 1
      [] filter = "amount" -> record[b].amount <= 0
      [] filter = "deadline" -> record[b].deadline <= 0
      [] OTHER -> TRUE

\* Mutant: the offset counts the bounties that do not match as well
ListedByPosition(filter, offset, limit) ==
    IF filter \in Depositors THEN PageOfDepositor(filter, offset, limit)
    ELSE Page(Slice(index, offset, Len(index)), {b \in Bounties : Matches(filter, b)}, 0, Capped(limit))

\* get_high_value_bounties takes no offset: it has a first page only
Listed(filter, offset, limit) ==
    IF filter \in Depositors THEN PageOfDepositor(filter, offset, limit)
    ELSE Page(index, {b \in Bounties : Matches(filter, b)}, offset, Capped(limit))

\* query_escrows with a depositor filter, which the depositor's index serves
Composite(d, filter, offset, limit) ==
    Page(depositorIndex[d], {b \in Bounties : Matches(filter, b) /\ record[b].depositor = d},
         offset, Capped(limit))

\* get_depositor_stats, the counts
DepositorStats(d) ==
    LET among(states) == Cardinality({i \in DOMAIN depositorIndex[d] :
                                         Status(depositorIndex[d][i]) \in states})
    IN  [locked |-> among(ActiveStatus), released |-> among({"Released"}),
         refunded |-> among({"Refunded"})]

-----------------------------------------------------------------------------
(* Bounties come and change *)

Matching(filter) == {b \in Bounties : Status(b) # "None" /\
                        (IF filter \in Depositors THEN record[b].depositor = filter
                         ELSE Matches(filter, b))}

Idle == [filter |-> "none", pages |-> <<>>, steady |-> {}, done |-> TRUE]

QueryInit ==
    /\ Init
    /\ index = <<>>
    /\ depositorIndex = [d \in Depositors |-> <<>>]
    /\ record = [b \in Bounties |-> NoRecord]
    /\ walk = Idle

\* History: what stops matching while the client walks was not steady
Watch ==
    \E filter \in {walk.filter} :
        walk' = [walk EXCEPT !.steady = IF walk.done THEN @ ELSE @ \cap Matching(filter)']

\* lock_funds and batch_lock_funds add to both indexes
Lock(b, terms) ==
    /\ Status(b) = "None"
    /\ accounts' =
          [accounts EXCEPT ![b] = [Unused EXCEPT !.status = "Locked", !.owed = terms.amount]]
    /\ record' = [record EXCEPT ![b] = terms]
    /\ index' = Append(index, b)
    /\ depositorIndex' = [depositorIndex EXCEPT ![terms.depositor] = Append(@, b)]
    /\ Watch

\* Mutant: a bounty that is settled leaves the index
Pruned(b, new) ==
    IF new.status \in {"Released", "Refunded"} THEN Remove(index, b) ELSE index

\* EscrowIndex is append-only and never pruned
Kept(b, new) == index

\* What a bounty becomes by a release, a claim or a refund: any step of its
\* lifecycle that pays nobody more than was owed
Successors(b) ==
    {new \in [status : ActiveStatus \cup {"Released", "Refunded"},
              owed : 0 .. accounts[b].owed, paid : 0 .. record[b].amount,
              refunded : 0 .. record[b].amount, claim : {"None"}] :
        new # accounts[b] /\ Step(accounts[b], new)}

Change(b) ==
    /\ Status(b) # "None"
    /\ \E new \in Successors(b) :
          /\ accounts' = [accounts EXCEPT ![b] = new]
          /\ index' = Kept(b, new)
    /\ UNCHANGED <<depositorIndex, record>>
    /\ Watch

-----------------------------------------------------------------------------
(* The client *)

StartWalk(filter) ==
    /\ walk = Idle
    /\ walk' = [filter |-> filter, pages |-> <<>>, steady |-> Matching(filter), done |-> FALSE]
    /\ UNCHANGED <<accounts, index, depositorIndex, record>>

\* The offset is the number of results it has; an empty page is the end
NextPage(limit) ==
    /\ ~walk.done
    /\ Len(walk.pages) + limit <= MaxInt
    /\ LET page == Listed(walk.filter, Len(walk.pages), limit)
       IN  walk' = [walk EXCEPT !.pages = @ \o page, !.done = (page = <<>>)]
    /\ UNCHANGED <<accounts, index, depositorIndex, record>>

QueryNext ==
    \/ \E b \in Bounties, terms \in Terms : Lock(b, terms)
    \/ \E b \in Bounties : Change(b)
    \/ \E filter \in Filters : StartWalk(filter)
    \/ \E limit \in Limits : NextPage(limit)

QuerySpec == QueryInit /\ [][QueryNext]_queryVars

-----------------------------------------------------------------------------
(* Properties *)

\* Filters on what a bounty never changes, on what it only loses, and on what
\* it only gains
Fixed == Depositors \cup {"amount", "deadline", "any"}
Shrinking == {"locked", "expiring", "valuable"}
Growing == {"released", "refunded"}

\* A walk that ended has every bounty that matched all the while, whatever
\* happened between its pages, unless bounties may have left the list.
WalksMissNothing ==
    walk.done /\ walk.filter \in Fixed \cup Growing => walk.steady \subseteq ToSet(walk.pages)

\* A walk has no bounty twice, unless bounties may have joined the list in
\* front of its offset.
WalksRepeatNothing ==
    walk.filter \in Fixed \cup Shrinking => IsInjective(walk.pages)

\* The two indexes always list the same bounties in the same order, so the
\* positions of query_escrows_by_depositor and the filters of query_escrows
\* find the same pages; and what get_depositor_stats counts for all depositors
\* is every bounty that was ever locked.
IndexesAgree ==
    /\ IsInjective(index) /\ ToSet(index) = {b \in Bounties : Status(b) # "None"}
    /\ \A d \in Depositors, offset \in 0 .. Len(index), limit \in Limits :
          limit <= MaxQueryLimit =>
              /\ PageOfDepositor(d, offset, limit) = Composite(d, "any", offset, limit)
              /\ PageOfDepositor(d, offset, limit) =
                     Page(index, {b \in Bounties : record[b].depositor = d}, offset, limit)
    /\ Sum([d \in Depositors |-> DepositorStats(d).locked + DepositorStats(d).released
                                    + DepositorStats(d).refunded], Depositors) = Len(index)
=============================================================================
