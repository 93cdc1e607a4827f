------------------------- MODULE EscrowQueryProofs -------------------------
(***************************************************************************)
(* Theorems about the queries of the bounty escrow and a client's walk, for *)
(* every value of the constants.  A walk reads positions of a list that    *)
(* changes between its pages, so what matters of a bounty is its rank      *)
(* among those that match: how far the walk has to have come to have       *)
(* seen it.                                                                *)
(***************************************************************************)
EXTENDS EscrowQueries, DataProofs

-----------------------------------------------------------------------------
(* Types, and what the indexes list *)

QueryTypes ==
    /\ accounts \in [Bounties -> Account]
    /\ index \in Seq(Bounties)
    /\ depositorIndex \in [Depositors -> Seq(Bounties)]
    /\ record \in [Bounties -> Terms \cup {NoRecord}]
    /\ walk \in [filter : {walk.filter}, pages : Seq(Bounties), steady : SUBSET Bounties, done : BOOLEAN]

Owned(d) == {b \in Bounties : record[b].depositor = d}

\* The index lists every bounty that was locked once, and the index of a
\* depositor those that are the depositor's, in the same order.
IndexInv ==
    /\ QueryTypes
    /\ IsInjective(index) /\ ToSet(index) = {b \in Bounties : Status(b) # "None"}
    /\ \A b \in ToSet(index) : record[b] \in Terms
    /\ \A d \in Depositors : depositorIndex[d] = Filtered(index, Owned(d))
    /\ Sum([d \in Depositors |-> Len(depositorIndex[d])], Depositors) = Len(index)

\* The empty indexes agree with the empty contract.
LEMMA IndexInvInit == QueryInit => IndexInv
<1> SUFFICES ASSUME QueryInit PROVE IndexInv
    OBVIOUS
<1>1. /\ accounts = [b \in Bounties |-> Unused] /\ index = <<>>
      /\ depositorIndex = [d \in Depositors |-> <<>>]
      /\ record = [b \in Bounties |-> NoRecord]
      /\ walk = [filter |-> "none", pages |-> <<>>, steady |-> {}, done |-> TRUE]
    BY DEF QueryInit, Init, Idle
<1>2. QueryTypes
  <2>1. accounts \in [Bounties -> Account]
      BY <1>1 DEF Unused, Account
  <2> QED BY <1>1, <2>1 DEF QueryTypes
<1>3. IsInjective(index) /\ ToSet(index) = {}
    BY <1>1 DEF IsInjective, ToSet
<1>4. \A b \in Bounties : Status(b) = "None"
    BY <1>1 DEF Status, Unused
<1>5. \A d \in Depositors : depositorIndex[d] = Filtered(index, Owned(d))
  <2> SUFFICES ASSUME NEW d \in Depositors PROVE <<>> = Filtered(<<>>, Owned(d))
      BY <1>1
  <2>1. <<>> \in Seq(Bounties) /\ \A i \in 1 .. Len(<<>>) : <<>>[i] \in Owned(d)
      OBVIOUS
  <2> QED BY <2>1, FilteredAll
<1>6. Sum([d \in Depositors |-> Len(depositorIndex[d])], Depositors) = Len(index)
  <2>1. \A d \in Depositors : [x \in Depositors |-> Len(depositorIndex[x])][d] = 0
      BY <1>1
  <2>2. Len(index) = 0
      BY <1>1
  <2> QED BY <2>1, <2>2, SumZero, QueryAssumption
<1> QED BY <1>2, <1>3, <1>4, <1>5, <1>6 DEF IndexInv

\* The positions of the index are the bounties that were locked.
LEMMA IndexPositions ==
    ASSUME IndexInv
    PROVE  /\ index \in Seq(Bounties) /\ Len(index) \in Nat
           /\ \A i \in 1 .. Len(index) : index[i] \in Bounties /\ Status(index[i]) # "None"
                                            /\ record[index[i]] \in Terms
           /\ \A b \in Bounties : Status(b) # "None" => \E i \in 1 .. Len(index) : index[i] = b
           /\ \A i, j \in 1 .. Len(index) : index[i] = index[j] => i = j
<1>1. index \in Seq(Bounties)
    BY DEF IndexInv, QueryTypes
<1>2. DOMAIN index = 1 .. Len(index) /\ Len(index) \in Nat /\ \A i \in 1 .. Len(index) : index[i] \in Bounties
    BY <1>1
<1>3. ToSet(index) = {index[i] : i \in 1 .. Len(index)}
    BY <1>2 DEF ToSet
<1>4. ToSet(index) = {b \in Bounties : Status(b) # "None"} /\ \A b \in ToSet(index) : record[b] \in Terms
    BY DEF IndexInv
<1>5. \A i, j \in 1 .. Len(index) : index[i] = index[j] => i = j
    BY <1>2 DEF IndexInv, IsInjective
<1> QED BY <1>1, <1>2, <1>3, <1>4, <1>5

\* Every query is a slice of the index, of the bounties that match.
LEMMA ListedIs ==
    ASSUME IndexInv, NEW filter, NEW offset \in Nat, NEW limit \in Limits
    PROVE  \E most \in Nat \ {0} :
               Listed(filter, offset, limit) = Slice(Filtered(index, Matching(filter)), offset, most)
<1>1. limit \in Nat \ {0} /\ Capped(limit) \in Nat \ {0}
    BY QueryAssumption, QueryLimitAssumption DEF Capped
<1>2. CASE filter \in Depositors
  <2>1. Listed(filter, offset, limit) = Slice(Filtered(index, Owned(filter)), offset, limit)
      BY <1>2 DEF Listed, PageOfDepositor, IndexInv
  <2>2. \A i \in 1 .. Len(index) : index[i] \in Owned(filter) <=> index[i] \in Matching(filter)
      BY <1>2, IndexPositions DEF Owned, Matching
  <2>3. Filtered(index, Owned(filter)) = Filtered(index, Matching(filter))
      BY <2>2, IndexPositions, FilteredEqual
  <2> QED BY <1>1, <2>1, <2>3
<1>3. CASE filter \notin Depositors
  <2> DEFINE M == {b \in Bounties : Matches(filter, b)}
  <2>1. Listed(filter, offset, limit) = Slice(Filtered(index, M), offset, Capped(limit))
      BY <1>3 DEF Listed, Page
  <2>2. \A i \in 1 .. Len(index) : index[i] \in M <=> index[i] \in Matching(filter)
      BY <1>3, IndexPositions DEF Matching
  <2> HIDE DEF M
  <2>3. Filtered(index, M) = Filtered(index, Matching(filter))
      BY <2>2, IndexPositions, FilteredEqual
  <2> QED BY <1>1, <2>1, <2>3
<1> QED BY <1>2, <1>3

\* What a step of the walk adds is a part of the bounties that match.
LEMMA PageIsTyped ==
    ASSUME IndexInv, NEW filter, NEW offset \in Nat, NEW limit \in Limits
    PROVE  Listed(filter, offset, limit) \in Seq(Bounties)
<1>1. PICK most \in Nat \ {0} :
          Listed(filter, offset, limit) = Slice(Filtered(index, Matching(filter)), offset, most)
    BY ListedIs
<1>2. Filtered(index, Matching(filter)) \in Seq(Bounties)
    BY IndexPositions, FilteredIs
<1> QED BY <1>1, <1>2, SliceIs

\* What locking a bounty does.
Joins(b, terms) ==
    /\ Status(b) = "None" /\ \A i \in 1 .. Len(index) : index[i] # b
    /\ \A c \in Bounties : accounts'[c] =
           IF c = b THEN [Unused EXCEPT !.status = "Locked", !.owed = terms.amount] ELSE accounts[c]
    /\ \A c \in Bounties : record'[c] = IF c = b THEN terms ELSE record[c]
    /\ index' = Append(index, b)
    /\ terms.depositor \in Depositors
    /\ \A d \in Depositors : depositorIndex'[d] =
           IF d = terms.depositor THEN Append(depositorIndex[d], b) ELSE depositorIndex[d]

\* A lock joins a bounty that was not listed to the global index and to its depositor's.
LEMMA LockedJoins ==
    ASSUME IndexInv, NEW b \in Bounties, NEW terms \in Terms, Lock(b, terms)
    PROVE  Joins(b, terms)
<1>1. Status(b) = "None"
    BY DEF Lock
<1>2. terms.depositor \in Depositors
    BY QueryAssumption
<1> QED BY <1>1, <1>2, IndexPositions DEF Joins, Lock, IndexInv, QueryTypes

\* A bounty that changes stays in the index, with its terms.
LEMMA ChangedIsKept ==
    ASSUME IndexInv, NEW b \in Bounties, Change(b)
    PROVE  /\ index' = index /\ depositorIndex' = depositorIndex /\ record' = record
           /\ Status(b) # "None"
           /\ \A c \in Bounties \ {b} : accounts'[c] = accounts[c]
           /\ accounts'[b] \in Successors(b) /\ accounts' \in [Bounties -> Account]
           /\ accounts'[b].status # "None"
<1>1. PICK new \in Successors(b) : accounts' = [accounts EXCEPT ![b] = new] /\ index' = Kept(b, new)
    BY DEF Change
<1>2. record[b] \in Terms /\ accounts[b] \in Account
    <2>1. Status(b) # "None"
        BY DEF Change
    <2> QED BY <2>1, IndexPositions DEF IndexInv, QueryTypes
<1>3. new \in Account /\ new.status # "None"
  <2>1. accounts[b].owed \in Nat /\ record[b].amount \in Nat
      BY <1>2, QueryAssumption DEF Account
  <2> QED BY <2>1 DEF Successors, Account, ActiveStatus
<1> QED BY <1>1, <1>3 DEF Change, Kept, IndexInv, QueryTypes

\* So a lock keeps the indexes in agreement with the stored bounties.
LEMMA LockKeepsIndexes ==
    ASSUME IndexInv, NEW b \in Bounties, NEW terms \in Terms, Lock(b, terms)
    PROVE  IndexInv'
<1>1. /\ Status(b) = "None" /\ \A i \in 1 .. Len(index) : index[i] # b
      /\ \A c \in Bounties : accounts'[c] =
             IF c = b THEN [Unused EXCEPT !.status = "Locked", !.owed = terms.amount] ELSE accounts[c]
      /\ \A c \in Bounties : record'[c] = IF c = b THEN terms ELSE record[c]
      /\ index' = Append(index, b)
      /\ terms.depositor \in Depositors
      /\ \A d \in Depositors : depositorIndex'[d] =
             IF d = terms.depositor THEN Append(depositorIndex[d], b) ELSE depositorIndex[d]
  <2>1. Joins(b, terms)
      BY LockedJoins
  <2> QED BY <2>1, Zenon DEF Joins
<1>2. PICK n \in Nat : n = Len(index)
    BY IndexPositions
<1>3. /\ index' \in Seq(Bounties) /\ Len(index') = n + 1 /\ index'[n + 1] = b
      /\ DOMAIN index = 1 .. n /\ DOMAIN index' = 1 .. n + 1
      /\ \A i \in 1 .. n : index'[i] = index[i]
      /\ \A i, j \in 1 .. n : index[i] = index[j] => i = j
    BY <1>1, <1>2, IndexPositions
<1>4. QueryTypes'
  <2>1. [Unused EXCEPT !.status = "Locked", !.owed = terms.amount] \in Account
    <3>1. terms.amount \in Nat
        BY QueryAssumption
    <3> QED BY <3>1 DEF Unused, Account
  <2>2. accounts' \in [Bounties -> Account]
      BY <2>1 DEF Lock, IndexInv, QueryTypes
  <2>3. record' \in [Bounties -> Terms \cup {NoRecord}]
      BY DEF Lock, IndexInv, QueryTypes
  <2>4. depositorIndex' \in [Depositors -> Seq(Bounties)]
    <3>1. \A d \in Depositors : depositorIndex[d] \in Seq(Bounties) /\ Append(depositorIndex[d], b) \in Seq(Bounties)
        BY DEF IndexInv, QueryTypes
    <3> QED BY <1>1, <3>1 DEF Lock, IndexInv, QueryTypes
  <2>5. walk' \in [filter : {walk'.filter}, pages : Seq(Bounties), steady : SUBSET Bounties, done : BOOLEAN]
    <3>1. PICK kept \in SUBSET Bounties : walk' = [walk EXCEPT !.steady = kept]
      <4>1. PICK filter \in {walk.filter} :
                walk' = [walk EXCEPT !.steady = IF walk.done THEN @ ELSE @ \cap Matching(filter)']
          BY DEF Lock, Watch
      <4>2. walk.steady \in SUBSET Bounties
          BY DEF IndexInv, QueryTypes
      <4> QED BY <4>1, <4>2 DEF IndexInv, QueryTypes
    <3> QED BY <3>1 DEF IndexInv, QueryTypes
  <2> QED BY <1>3, <2>2, <2>3, <2>4, <2>5 DEF QueryTypes
<1>5. IsInjective(index')
  <2>1. \A i \in 1 .. n + 1 : i \in 1 .. n \/ i = n + 1
      OBVIOUS
  <2>2. \A i, j \in 1 .. n + 1 : index'[i] = index'[j] => i = j
      BY <1>1, <1>2, <1>3, <2>1
  <2> QED BY <1>3, <2>2 DEF IsInjective
<1>6. ToSet(index') = ToSet(index) \cup {b}
  <2>1. ToSet(index') = {index'[i] : i \in 1 .. n + 1} /\ ToSet(index) = {index[i] : i \in 1 .. n}
      BY <1>3 DEF ToSet
  <2> QED BY <1>3, <2>1
<1>7. {c \in Bounties : Status(c)' # "None"} = {c \in Bounties : Status(c) # "None"} \cup {b}
    BY <1>1 DEF Status, Unused
<1>8. \A c \in ToSet(index') : record'[c] \in Terms
    BY <1>1, <1>6 DEF IndexInv
<1>9. ASSUME NEW d \in Depositors PROVE depositorIndex'[d] = Filtered(index', Owned(d)')
  <2>1. PICK O, P : O = Owned(d) /\ P = Owned(d)'
      OBVIOUS
  <2>2. \A i \in 1 .. Len(index) : index[i] \in O <=> index[i] \in P
      BY <1>1, <2>1, IndexPositions DEF Owned
  <2>3. Filtered(index, O) = Filtered(index, P)
      BY <2>2, IndexPositions, FilteredEqual
  <2>4. Filtered(Append(index, b), P) = IF b \in P THEN Append(Filtered(index, P), b) ELSE Filtered(index, P)
      BY IndexPositions, FilteredAppend
  <2>5. b \in P <=> d = terms.depositor
      BY <1>1, <2>1 DEF Owned
  <2>6. depositorIndex[d] = Filtered(index, O)
      BY <2>1 DEF IndexInv
  <2>7. depositorIndex'[d] = Filtered(index', P)
      BY <1>1, <2>3, <2>4, <2>5, <2>6
  <2> QED BY <2>1, <2>7
<1>10. Sum([d \in Depositors |-> Len(depositorIndex'[d])], Depositors) = Len(index')
  <2>1. PICK f : f = [d \in Depositors |-> Len(depositorIndex[d])]
      OBVIOUS
  <2>2. PICK g : g = [d \in Depositors |-> Len(depositorIndex'[d])]
      OBVIOUS
  <2>3. \A d \in Depositors : Len(depositorIndex[d]) \in Nat /\ Len(Append(depositorIndex[d], b)) = Len(depositorIndex[d]) + 1
      BY DEF IndexInv, QueryTypes
  <2>4. /\ \A d \in Depositors : f[d] \in Int /\ g[d] \in Int
        /\ \A d \in Depositors \ {terms.depositor} : g[d] = f[d]
        /\ g[terms.depositor] - f[terms.depositor] = 1
    <3>1. /\ \A d \in Depositors : f[d] = Len(depositorIndex[d]) /\ g[d] = Len(depositorIndex'[d])
          /\ terms.depositor \in Depositors
          /\ \A d \in Depositors \ {terms.depositor} : depositorIndex'[d] = depositorIndex[d]
          /\ depositorIndex'[terms.depositor] = Append(depositorIndex[terms.depositor], b)
        BY <1>1, <2>1, <2>2
    <3>2. \A d \in Depositors : f[d] \in Nat
        BY <2>3, <3>1
    <3>3. g[terms.depositor] = f[terms.depositor] + 1 /\ \A d \in Depositors \ {terms.depositor} : g[d] = f[d]
        BY <2>3, <3>1
    <3> QED BY <3>1, <3>2, <3>3
  <2>5. Sum(g, Depositors) = Sum(f, Depositors) + (g[terms.depositor] - f[terms.depositor])
      BY <1>1, <2>4, SumChange, QueryAssumption
  <2>6. Sum(f, Depositors) = n
      BY <1>2, <2>1 DEF IndexInv
  <2>7. Sum(g, Depositors) = n + 1
      BY <2>4, <2>5, <2>6
  <2> QED BY <1>3, <2>2, <2>7
<1> QED BY <1>4, <1>5, <1>6, <1>7, <1>8, <1>9, <1>10 DEF IndexInv

\* Every step keeps the indexes in agreement: what is not a lock adds and removes no bounty.
LEMMA IndexInvStep == IndexInv /\ [QueryNext]_queryVars => IndexInv'
<1> SUFFICES ASSUME IndexInv, [QueryNext]_queryVars PROVE IndexInv'
    OBVIOUS
<1>1. ASSUME UNCHANGED <<accounts, index, depositorIndex, record>>,
             walk' \in [filter : {walk'.filter}, pages : Seq(Bounties), steady : SUBSET Bounties, done : BOOLEAN]
      PROVE  IndexInv'
    BY <1>1 DEF IndexInv, QueryTypes, Owned, Status
<1>2. ASSUME NEW b \in Bounties, NEW terms \in Terms, Lock(b, terms) PROVE IndexInv'
    BY <1>2, LockKeepsIndexes
<1>3. ASSUME NEW b \in Bounties, Change(b) PROVE IndexInv'
  <2>1. /\ index' = index /\ depositorIndex' = depositorIndex /\ record' = record
        /\ Status(b) # "None"
        /\ \A c \in Bounties \ {b} : accounts'[c] = accounts[c]
        /\ accounts' \in [Bounties -> Account]
        /\ accounts'[b].status # "None"
      BY <1>3, ChangedIsKept
  <2>2. walk' \in [filter : {walk'.filter}, pages : Seq(Bounties), steady : SUBSET Bounties, done : BOOLEAN]
    <3>1. PICK kept \in SUBSET Bounties : walk' = [walk EXCEPT !.steady = kept]
      <4>1. PICK filter \in {walk.filter} :
                walk' = [walk EXCEPT !.steady = IF walk.done THEN @ ELSE @ \cap Matching(filter)']
          BY <1>3 DEF Change, Watch
      <4>2. walk.steady \in SUBSET Bounties
          BY DEF IndexInv, QueryTypes
      <4> QED BY <4>1, <4>2 DEF IndexInv, QueryTypes
    <3> QED BY <3>1 DEF IndexInv, QueryTypes
  <2>3. QueryTypes'
      BY <2>1, <2>2 DEF IndexInv, QueryTypes
  <2>4. {c \in Bounties : Status(c)' # "None"} = {c \in Bounties : Status(c) # "None"}
      BY <2>1 DEF Status
  <2> QED BY <2>1, <2>3, <2>4 DEF IndexInv, Owned
<1>4. ASSUME NEW filter \in Filters, StartWalk(filter) PROVE IndexInv'
  <2>1. Matching(filter) \in SUBSET Bounties
      BY DEF Matching
  <2>2. walk' = [filter |-> filter, pages |-> <<>>, steady |-> Matching(filter), done |-> FALSE]
        /\ UNCHANGED <<accounts, index, depositorIndex, record>>
      BY <1>4 DEF StartWalk
  <2> QED BY <2>1, <2>2, <1>1
<1>5. ASSUME NEW limit \in Limits, NextPage(limit) PROVE IndexInv'
  <2>1. PICK page : /\ page = Listed(walk.filter, Len(walk.pages), limit)
                    /\ walk' = [walk EXCEPT !.pages = @ \o page, !.done = (page = <<>>)]
                    /\ UNCHANGED <<accounts, index, depositorIndex, record>>
      BY <1>5 DEF NextPage
  <2>2. page \in Seq(Bounties)
    <3>1. Len(walk.pages) \in Nat
        BY DEF IndexInv, QueryTypes
    <3> QED BY <2>1, <3>1, PageIsTyped
  <2>3. walk.pages \o page \in Seq(Bounties) /\ (page = <<>>) \in BOOLEAN
      BY <2>2 DEF IndexInv, QueryTypes
  <2>4. walk' \in [filter : {walk'.filter}, pages : Seq(Bounties), steady : SUBSET Bounties, done : BOOLEAN]
      BY <2>1, <2>3 DEF IndexInv, QueryTypes
  <2> QED BY <2>1, <2>4, <1>1
<1>6. CASE UNCHANGED queryVars
    BY <1>1, <1>6 DEF queryVars, IndexInv, QueryTypes
<1> QED BY <1>2, <1>3, <1>4, <1>5, <1>6 DEF QueryNext

\* So the indexes agree with the stored bounties in every reachable state.
LEMMA IndexInvHolds == QuerySpec => []IndexInv
BY IndexInvInit, IndexInvStep, PTL DEF QuerySpec

-----------------------------------------------------------------------------
(* The indexes agree *)

\* The index of a depositor lists bounties of the depositor that were locked.
LEMMA DepositorPositions ==
    ASSUME IndexInv, NEW d \in Depositors
    PROVE  /\ depositorIndex[d] \in Seq(Bounties)
           /\ \A i \in 1 .. Len(depositorIndex[d]) :
                 depositorIndex[d][i] \in Owned(d) /\ Status(depositorIndex[d][i]) # "None"
<1>1. PICK O : O = Owned(d)
    OBVIOUS
<1>2. depositorIndex[d] = Filtered(index, O) /\ depositorIndex[d] \in Seq(Bounties)
    BY <1>1 DEF IndexInv, QueryTypes
<1>3. ListsMatches(Filtered(index, O), index, O)
    BY IndexPositions, FilteredIs
<1>4. ASSUME NEW i \in 1 .. Len(depositorIndex[d])
      PROVE  depositorIndex[d][i] \in Owned(d) /\ Status(depositorIndex[d][i]) # "None"
  <2>1. PICK j \in 1 .. Len(index) : index[j] \in O /\ Filtered(index, O)[i] = index[j]
      BY <1>2, <1>3 DEF ListsMatches
  <2> QED BY <2>1, <1>1, <1>2, IndexPositions
<1> QED BY <1>2, <1>4

\* Every bounty of a depositor is counted under one status.
LEMMA StatsCountAll ==
    ASSUME IndexInv, NEW d \in Depositors
    PROVE  DepositorStats(d).locked + DepositorStats(d).released + DepositorStats(d).refunded
               = Len(depositorIndex[d])
<1> DEFINE n == Len(depositorIndex[d])
           Among(states) == {i \in DOMAIN depositorIndex[d] : Status(depositorIndex[d][i]) \in states}
           A == Among(ActiveStatus)
           B == Among({"Released"})
           C == Among({"Refunded"})
<1>1. DOMAIN depositorIndex[d] = 1 .. n /\ n \in Nat
    BY DepositorPositions
<1>2. \A i \in 1 .. n : Status(depositorIndex[d][i]) \in ActiveStatus \cup {"Released", "Refunded"}
  <2> SUFFICES ASSUME NEW i \in 1 .. n
               PROVE  Status(depositorIndex[d][i]) \in ActiveStatus \cup {"Released", "Refunded"}
      OBVIOUS
  <2>1. depositorIndex[d][i] \in Bounties /\ Status(depositorIndex[d][i]) # "None"
      BY DepositorPositions DEF Owned
  <2> QED BY <2>1 DEF IndexInv, QueryTypes, Account, Status, ActiveStatus
<1>3. /\ A \cup B \cup C = 1 .. n /\ A \cap B = {} /\ (A \cup B) \cap C = {}
      /\ A \subseteq 1 .. n /\ B \subseteq 1 .. n /\ C \subseteq 1 .. n /\ A \cup B \subseteq 1 .. n
    BY <1>1, <1>2 DEF ActiveStatus
<1>4. IsFiniteSet(1 .. n) /\ Cardinality(1 .. n) = n
    BY <1>1, FS_Interval
<1>5. /\ DepositorStats(d).locked = Cardinality(A)
      /\ DepositorStats(d).released = Cardinality(B)
      /\ DepositorStats(d).refunded = Cardinality(C)
    BY DEF DepositorStats
<1>6. PICK P, Q, R : P = A /\ Q = B /\ R = C
    OBVIOUS
<1> HIDE DEF A, B, C, n
<1>7. /\ P \cup Q \cup R = 1 .. n /\ P \cap Q = {} /\ (P \cup Q) \cap R = {}
      /\ IsFiniteSet(P) /\ IsFiniteSet(Q) /\ IsFiniteSet(R) /\ IsFiniteSet(P \cup Q)
    BY <1>3, <1>4, <1>6, FS_Subset
<1>8. Cardinality(P \cup Q) = Cardinality(P) + Cardinality(Q)
    BY <1>7, DisjointUnion
<1>9. Cardinality(P \cup Q \cup R) = Cardinality(P \cup Q) + Cardinality(R)
    BY <1>7, DisjointUnion
<1> QED BY <1>4, <1>5, <1>6, <1>7, <1>8, <1>9 DEF n

\* The indexes list the same bounties in the same order, so a page by position
\* and a page by filter are the same, and no bounty is counted twice or not at
\* all.
THEOREM IndexesAlwaysAgree == QuerySpec => []IndexesAgree
<1>1. IndexInv => IndexesAgree
  <2> SUFFICES ASSUME IndexInv PROVE IndexesAgree
      OBVIOUS
  <2>1. ASSUME NEW d \in Depositors, NEW offset \in 0 .. Len(index), NEW limit \in Limits,
               limit <= MaxQueryLimit
        PROVE  /\ PageOfDepositor(d, offset, limit) = Composite(d, "any", offset, limit)
               /\ PageOfDepositor(d, offset, limit) =
                      Page(index, {b \in Bounties : record[b].depositor = d}, offset, limit)
    <3>1. PICK list : list = depositorIndex[d]
        OBVIOUS
    <3>2. PICK M : M = {b \in Bounties : Matches("any", b) /\ record[b].depositor = d}
        OBVIOUS
    <3>3. list \in Seq(Bounties) /\ \A i \in 1 .. Len(list) : list[i] \in Owned(d)
        BY <3>1, DepositorPositions
    <3>4. \A i \in 1 .. Len(list) : list[i] \in M
        BY <3>2, <3>3 DEF Owned, Matches
    <3>5. Filtered(list, M) = list
        BY <3>3, <3>4, FilteredAll
    <3>6. Capped(limit) = limit
        BY <2>1 DEF Capped
    <3>7. list = Filtered(index, {b \in Bounties : record[b].depositor = d})
        BY <3>1 DEF IndexInv, Owned
    <3> QED BY <3>1, <3>2, <3>5, <3>6, <3>7 DEF PageOfDepositor, Composite, Page
  <2>2. Sum([d \in Depositors |-> DepositorStats(d).locked + DepositorStats(d).released
                                      + DepositorStats(d).refunded], Depositors) = Len(index)
    <3>1. [d \in Depositors |-> DepositorStats(d).locked + DepositorStats(d).released
                                    + DepositorStats(d).refunded]
              = [d \in Depositors |-> Len(depositorIndex[d])]
        BY StatsCountAll
    <3> QED BY <3>1, Zenon DEF IndexInv
  <2> QED BY <2>1, <2>2 DEF IndexesAgree, IndexInv
<1> QED BY <1>1, IndexInvHolds, PTL

-----------------------------------------------------------------------------
(* Pages of a list that stays *)

\* What pages has so far, and a page more of what F lists
Continues(all, F, pages, page) ==
    /\ Len(all) \in Nat /\ Len(pages) \in Nat /\ Len(pages) <= Len(all)
    /\ \A k \in 1 .. Len(pages) : all[k] = pages[k]
    /\ \A k \in 1 .. Len(all) : k > Len(pages) => k \in 1 .. Len(F) /\ all[k] = F[k]
    /\ page = <<>> => Len(F) <= Len(pages)

\* A page taken at the number of entries already returned continues them along the same list.
LEMMA PageContinues ==
    ASSUME NEW S, NEW F \in Seq(S), NEW pages \in Seq(S), NEW most \in Nat \ {0},
           NEW page, page = Slice(F, Len(pages), most)
    PROVE  pages \o page \in Seq(S) /\ Continues(pages \o page, F, pages, page)
<1> DEFINE o == Len(pages)
<1>1. o \in Nat /\ Len(F) \in Nat
    OBVIOUS
<1>2. /\ page \in Seq(S)
      /\ Len(page) = IF o + most <= Len(F) THEN most ELSE IF o <= Len(F) THEN Len(F) - o ELSE 0
      /\ \A k \in 1 .. Len(page) : page[k] = F[o + k]
  <2>1. page \in Seq(S) /\ IsSlice(page, F, o, most)
      BY <1>1, SliceIs
  <2> QED BY <2>1 DEF IsSlice
<1>3. PICK all : all = pages \o page
    OBVIOUS
<1>4. /\ all \in Seq(S) /\ Len(all) = o + Len(page)
      /\ \A i \in 1 .. o + Len(page) : all[i] = IF i <= o THEN pages[i] ELSE page[i - o]
    BY <1>2, <1>3, ConcatProperties
<1> HIDE DEF o
<1>5. Len(page) \in Nat /\ Len(page) + o <= (IF o <= Len(F) THEN Len(F) ELSE o)
    BY <1>1, <1>2
<1>6. \A k \in 1 .. o : all[k] = pages[k]
    BY <1>1, <1>4, <1>5
<1>7. ASSUME NEW k \in 1 .. Len(all), k > o PROVE k \in 1 .. Len(F) /\ all[k] = F[k]
  <2>1. k - o \in 1 .. Len(page) /\ all[k] = page[k - o] /\ k \in 1 .. Len(F)
      BY <1>1, <1>4, <1>5, <1>7
  <2>2. page[k - o] = F[o + (k - o)] /\ o + (k - o) = k
      BY <1>1, <1>2, <2>1
  <2> QED BY <2>1, <2>2
<1>8. page = <<>> => Len(F) <= o
  <2>1. page = <<>> => Len(page) = 0
      OBVIOUS
  <2> QED BY <1>1, <1>2, <2>1
<1>9. Continues(all, F, pages, page)
    BY <1>1, <1>4, <1>5, <1>6, <1>7, <1>8 DEF Continues, o
<1> QED BY <1>3, <1>4, <1>9

Has(list, x) == \E k \in 1 .. Len(list) : list[k] = x

\* The steady bounties whose rank the pages have reached are in them
Reached(list, M, pages, steady) ==
    \A i \in 1 .. Len(list) :
        list[i] \in steady /\ Rank(list, M, i) <= Len(pages) => Has(pages, list[i])

\* The pages have passed the rank of every bounty that is in them and matches
Passed(list, M, pages) ==
    /\ \A k, l \in 1 .. Len(pages) : pages[k] = pages[l] => k = l
    /\ \A k \in 1 .. Len(pages) : Has(list, pages[k])
    /\ \A i \in 1 .. Len(list) :
          Has(pages, list[i]) /\ list[i] \in M => Rank(list, M, i) <= Len(pages)

\* A page more reaches what it lists, and everything when it is empty.
LEMMA PageReaches ==
    ASSUME NEW list, NEW M, NEW F, ListsMatches(F, list, M), NEW pages, NEW page, NEW all,
           Continues(all, F, pages, page), NEW steady \in SUBSET M, Reached(list, M, pages, steady)
    PROVE  /\ Reached(list, M, all, steady)
           /\ page = <<>> => \A i \in 1 .. Len(list) : list[i] \in steady => Has(pages, list[i])
<1>1. /\ Len(all) \in Nat /\ Len(pages) \in Nat /\ Len(pages) <= Len(all)
      /\ \A k \in 1 .. Len(pages) : all[k] = pages[k]
      /\ \A k \in 1 .. Len(all) : k > Len(pages) => k \in 1 .. Len(F) /\ all[k] = F[k]
      /\ page = <<>> => Len(F) <= Len(pages)
    BY DEF Continues
<1>2. ASSUME NEW i \in 1 .. Len(list), list[i] \in steady
      PROVE  Rank(list, M, i) \in 1 .. Len(F) /\ F[Rank(list, M, i)] = list[i]
    BY <1>2 DEF ListsMatches
<1>3. ASSUME NEW i \in 1 .. Len(list), list[i] \in steady, Rank(list, M, i) <= Len(all)
      PROVE  Has(all, list[i])
  <2>1. CASE Rank(list, M, i) <= Len(pages)
    <3>1. PICK k \in 1 .. Len(pages) : pages[k] = list[i]
        BY <1>3, <2>1 DEF Reached, Has
    <3> QED BY <1>1, <3>1 DEF Has
  <2>2. CASE Rank(list, M, i) > Len(pages)
    <3>1. Rank(list, M, i) \in 1 .. Len(all)
        BY <1>1, <1>2, <1>3
    <3> QED BY <1>1, <1>2, <1>3, <2>2, <3>1 DEF Has
  <2> QED BY <1>1, <1>2, <1>3, <2>1, <2>2
<1>4. ASSUME page = <<>>, NEW i \in 1 .. Len(list), list[i] \in steady PROVE Has(pages, list[i])
  <2>1. ListsMatches(F, list, M) => Len(F) = Rank(list, M, Len(list))
      BY DEF ListsMatches
  <2>2. Rank(list, M, i) <= Len(pages)
    <3>1. PICK r, n : r = Rank(list, M, i) /\ n = Len(F)
        OBVIOUS
    <3>2. r \in 1 .. n /\ n <= Len(pages) /\ n \in Int
        BY <1>1, <1>2, <1>4, <3>1, RankSteps DEF ListsMatches
    <3> QED BY <1>1, <3>1, <3>2
  <2> QED BY <1>4, <2>2 DEF Reached
<1> QED BY <1>3, <1>4 DEF Reached

\* A page more repeats nothing.
LEMMA PagePasses ==
    ASSUME NEW list, NEW M, NEW F, ListsMatches(F, list, M),
           \A i, j \in 1 .. Len(list) : list[i] = list[j] => i = j,
           NEW pages, NEW page, NEW all, Continues(all, F, pages, page), Passed(list, M, pages)
    PROVE  Passed(list, M, all)
<1>1. /\ Len(all) \in Nat /\ Len(pages) \in Nat /\ Len(pages) <= Len(all)
      /\ \A k \in 1 .. Len(pages) : all[k] = pages[k]
      /\ \A k \in 1 .. Len(all) : k > Len(pages) => k \in 1 .. Len(F) /\ all[k] = F[k]
    BY DEF Continues
<1>2. \A k \in 1 .. Len(all) : k > Len(pages) =>
          \E i \in 1 .. Len(list) : list[i] \in M /\ Rank(list, M, i) = k /\ all[k] = list[i]
    BY <1>1 DEF ListsMatches
<1>3. \A k \in 1 .. Len(all) : k <= Len(pages) =>
          k \in 1 .. Len(pages) /\ all[k] = pages[k]
    BY <1>1
<1>4. \A k \in 1 .. Len(all) : k <= Len(pages) \/ k > Len(pages)
    BY <1>1
<1>5. ASSUME NEW k \in 1 .. Len(all), NEW l \in 1 .. Len(all), k <= Len(pages), l > Len(pages)
      PROVE  all[k] # all[l]
  <2>1. PICK i \in 1 .. Len(list) : list[i] \in M /\ Rank(list, M, i) = l /\ all[l] = list[i]
      BY <1>2, <1>5
  <2>2. SUFFICES ASSUME all[k] = all[l] PROVE FALSE
      OBVIOUS
  <2>3. Has(pages, list[i])
      BY <1>3, <1>5, <2>1, <2>2 DEF Has
  <2>4. l <= Len(pages)
      BY <2>1, <2>3 DEF Passed
  <2> QED BY <1>1, <1>5, <2>4
<1>6. ASSUME NEW k \in 1 .. Len(all), NEW l \in 1 .. Len(all), all[k] = all[l] PROVE k = l
  <2>1. CASE k <= Len(pages) /\ l <= Len(pages)
      BY <1>3, <1>6, <2>1 DEF Passed
  <2>2. CASE k > Len(pages) /\ l > Len(pages)
    <3>1. PICK i \in 1 .. Len(list) : Rank(list, M, i) = k /\ all[k] = list[i]
        BY <1>2, <2>2
    <3>2. PICK j \in 1 .. Len(list) : Rank(list, M, j) = l /\ all[l] = list[j]
        BY <1>2, <2>2
    <3> QED BY <1>6, <3>1, <3>2
  <2> QED BY <1>4, <1>5, <1>6, <2>1, <2>2
<1>7. ASSUME NEW k \in 1 .. Len(all) PROVE Has(list, all[k])
  <2>1. CASE k <= Len(pages)
      BY <1>3, <2>1 DEF Passed
  <2>2. CASE k > Len(pages)
      BY <1>2, <2>2 DEF Has
  <2> QED BY <1>4, <2>1, <2>2
<1>8. ASSUME NEW i \in 1 .. Len(list), Has(all, list[i]), list[i] \in M
      PROVE  Rank(list, M, i) <= Len(all)
  <2>1. PICK k \in 1 .. Len(all) : all[k] = list[i]
      BY <1>8 DEF Has
  <2>2. CASE k <= Len(pages)
    <3>1. Has(pages, list[i])
        BY <1>3, <2>1, <2>2 DEF Has
    <3>2. PICK r : r = Rank(list, M, i)
        OBVIOUS
    <3>3. r <= Len(pages) /\ r \in Int
        BY <1>8, <3>1, <3>2 DEF Passed, ListsMatches
    <3> QED BY <1>1, <3>2, <3>3
  <2>3. CASE k > Len(pages)
    <3>1. PICK j \in 1 .. Len(list) : Rank(list, M, j) = k /\ all[k] = list[j]
        BY <1>2, <2>3
    <3>2. i = j
        BY <2>1, <3>1
    <3> QED BY <1>1, <3>1, <3>2
  <2> QED BY <1>4, <2>2, <2>3
<1> QED BY <1>6, <1>7, <1>8 DEF Passed

-----------------------------------------------------------------------------
(* A list that changes between the pages *)

Extends(more, list) ==
    /\ Len(list) \in Nat /\ Len(more) \in Nat /\ Len(list) <= Len(more)
    /\ \A i \in 1 .. Len(list) : more[i] = list[i]

\* Bounties that join in front of a steady one only push it back.
LEMMA ReachedStays ==
    ASSUME NEW list, NEW more, Extends(more, list), NEW M, NEW N, MatchesMore(list, M, N, Len(list)),
           NEW pages, NEW steady, NEW kept \in SUBSET steady, Len(pages) \in Nat,
           \A i \in 1 .. Len(more) : more[i] \in kept => i <= Len(list),
           Reached(list, M, pages, steady)
    PROVE  Reached(more, N, pages, kept)
<1>1. /\ Len(list) \in Nat /\ Len(more) \in Nat /\ Len(list) <= Len(more)
      /\ \A i \in 1 .. Len(list) : more[i] = list[i]
    BY DEF Extends
<1>2. SameMatches(more, N, list, N, Len(list))
    BY <1>1 DEF SameMatches
<1>3. \A i \in 0 .. Len(list) : Rank(more, N, i) = Rank(list, N, i)
    BY <1>1, <1>2, RankEqual
<1>4. \A i \in 0 .. Len(list) : Rank(list, M, i) <= Rank(list, N, i)
    BY <1>1, RankMonotone
<1>5. ASSUME NEW i \in 1 .. Len(more), more[i] \in kept, Rank(more, N, i) <= Len(pages)
      PROVE  Has(pages, more[i])
  <2>1. i \in 1 .. Len(list) /\ i \in 0 .. Len(list) /\ i \in Nat
      BY <1>1, <1>5
  <2>2. Rank(list, M, i) \in Nat /\ Rank(list, N, i) \in Nat
      BY <2>1, RankSteps
  <2>3. Rank(list, M, i) <= Len(pages)
      BY <1>3, <1>4, <1>5, <2>1, <2>2
  <2> QED BY <1>1, <1>5, <2>1, <2>3 DEF Reached
<1> QED BY <1>5 DEF Reached

\* Bounties that leave, or join at the end, pull none back behind the pages.
LEMMA PassedStays ==
    ASSUME NEW list, NEW more, Extends(more, list), NEW M, NEW N, MatchesMore(list, N, M, Len(list)),
           NEW pages, Len(pages) \in Nat,
           \A i \in 1 .. Len(more) : Has(pages, more[i]) => i <= Len(list),
           Passed(list, M, pages)
    PROVE  Passed(more, N, pages)
<1>1. /\ Len(list) \in Nat /\ Len(more) \in Nat /\ Len(list) <= Len(more)
      /\ \A i \in 1 .. Len(list) : more[i] = list[i]
    BY DEF Extends
<1>2. SameMatches(more, N, list, N, Len(list))
    BY <1>1 DEF SameMatches
<1>3. \A i \in 0 .. Len(list) : Rank(more, N, i) = Rank(list, N, i)
    BY <1>1, <1>2, RankEqual
<1>4. \A i \in 0 .. Len(list) : Rank(list, N, i) <= Rank(list, M, i)
    BY <1>1, RankMonotone
<1>5. ASSUME NEW i \in 1 .. Len(more), Has(pages, more[i]), more[i] \in N
      PROVE  Rank(more, N, i) <= Len(pages)
  <2>1. i \in 1 .. Len(list) /\ i \in 0 .. Len(list) /\ i \in Nat
      BY <1>1, <1>5
  <2>2. Rank(list, M, i) \in Nat /\ Rank(list, N, i) \in Nat
      BY <2>1, RankSteps
  <2>3. list[i] \in M /\ Has(pages, list[i])
      BY <1>1, <1>5, <2>1 DEF MatchesMore
  <2>4. Rank(list, M, i) <= Len(pages)
      BY <2>1, <2>3 DEF Passed
  <2> QED BY <1>3, <1>4, <2>1, <2>2, <2>4
<1>6. ASSUME NEW k \in 1 .. Len(pages) PROVE Has(more, pages[k])
  <2>1. PICK i \in 1 .. Len(list) : list[i] = pages[k]
      BY DEF Passed, Has
  <2> QED BY <1>1, <2>1 DEF Has
<1> QED BY <1>5, <1>6 DEF Passed

\* What a call of others does to the list and to the walk
Moves ==
    /\ Extends(index', index)
    /\ \A i \in 1 .. Len(index') : index'[i] \in Bounties /\ (Status(index'[i]) # "None" => i <= Len(index))
    /\ walk'.filter = walk.filter /\ walk'.pages = walk.pages /\ walk'.done = walk.done
    /\ walk'.steady = IF walk.done THEN walk.steady ELSE walk.steady \cap Matching(walk.filter)'

\* The bounties that match grow, or the ones that were locked before shrink
Grows(filter) == \A b \in Bounties : b \in Matching(filter) => b \in Matching(filter)'
Shrinks(filter) ==
    \A b \in Bounties : Status(b) # "None" /\ b \in Matching(filter)' => b \in Matching(filter)

\* What the observer of a walk does at a step: it only forgets the bounties that stopped matching.
LEMMA WatchIs ==
    ASSUME IndexInv, Watch
    PROVE  /\ walk'.filter = walk.filter /\ walk'.pages = walk.pages /\ walk'.done = walk.done
           /\ walk'.steady = IF walk.done THEN walk.steady ELSE walk.steady \cap Matching(walk.filter)'
<1>1. PICK filter \in {walk.filter} :
          walk' = [walk EXCEPT !.steady = IF walk.done THEN @ ELSE @ \cap Matching(filter)']
    BY DEF Watch
<1>2. filter = walk.filter
    BY <1>1
<1> QED BY <1>1, <1>2 DEF IndexInv, QueryTypes

\* A lock adds a bounty at the end of the index and changes no other bounty.
LEMMA LockMoves ==
    ASSUME IndexInv, NEW b \in Bounties, NEW terms \in Terms, Lock(b, terms)
    PROVE  Moves /\ \A filter : Grows(filter) /\ Shrinks(filter)
<1>1. Joins(b, terms)
    BY LockedJoins
<1>2. /\ Status(b) = "None" /\ index' = Append(index, b)
      /\ \A c \in Bounties : c # b => accounts'[c] = accounts[c] /\ record'[c] = record[c]
    BY <1>1 DEF Joins
<1>3. PICK n \in Nat : n = Len(index)
    BY IndexPositions
<1>4. /\ index' \in Seq(Bounties) /\ Len(index') = n + 1 /\ index'[n + 1] = b
      /\ \A i \in 1 .. n : index'[i] = index[i] /\ index[i] \in Bounties
    BY <1>2, <1>3, IndexPositions
<1>5. Moves
  <2>1. Extends(index', index)
      BY <1>3, <1>4 DEF Extends
  <2>2. \A i \in 1 .. Len(index') : index'[i] \in Bounties /\ (Status(index'[i]) # "None" => i <= Len(index))
    <3> SUFFICES ASSUME NEW i \in 1 .. Len(index')
                 PROVE  index'[i] \in Bounties /\ (Status(index'[i]) # "None" => i <= Len(index))
        OBVIOUS
    <3>1. i \in 1 .. n \/ i = n + 1
        BY <1>4
    <3> QED BY <1>2, <1>3, <1>4, <3>1
  <2>3. Watch
      BY DEF Lock
  <2> QED BY <2>1, <2>2, <2>3, WatchIs DEF Moves
<1>6. ASSUME NEW filter, NEW c \in Bounties, c # b
      PROVE  c \in Matching(filter) <=> c \in Matching(filter)'
    BY <1>2, <1>6 DEF Matching, Matches, Status
<1>7. \A filter : b \notin Matching(filter)
    BY <1>2 DEF Matching
<1> QED BY <1>2, <1>5, <1>6, <1>7 DEF Grows, Shrinks

\* A bounty that changes was active, owes less or the same, and is not locked
\* again.
LEMMA ChangesAre ==
    ASSUME IndexInv, NEW b \in Bounties, Change(b)
    PROVE  /\ accounts[b].status \in ActiveStatus
           /\ accounts'[b].status = "Locked" => accounts[b].status = "Locked"
           /\ accounts[b].owed \in Nat /\ accounts'[b].owed \in Nat /\ accounts'[b].owed <= accounts[b].owed
<1>1. accounts'[b] \in Successors(b) /\ Status(b) # "None"
    BY ChangedIsKept
<1>2. PICK a, new : a = accounts[b] /\ new = accounts'[b]
    OBVIOUS
<1>3. a \in Account /\ a.status # "None"
    BY <1>1, <1>2 DEF IndexInv, QueryTypes, Status
<1>4. /\ new.owed \in 0 .. a.owed /\ new # a /\ Step(a, new)
      /\ new.status \in ActiveStatus \cup {"Released", "Refunded"}
    BY <1>1, <1>2 DEF Successors
<1>5. a.owed \in Nat
    BY <1>3 DEF Account
<1>6. a.status \in ActiveStatus
    BY <1>3, <1>4 DEF Step, Fund, Pay, PayOff, Reserve, Collect, GiveBack, ActiveStatus
<1>7. new.status = "Locked" => a.status = "Locked"
  <2> SUFFICES ASSUME new.status = "Locked", a.status = "PartiallyRefunded" PROVE FALSE
      BY <1>6 DEF ActiveStatus
  <2>1. GiveBack(a, new)
      BY <1>4 DEF Step, Fund, Pay, PayOff, Reserve, Collect
  <2>2. PICK part \in 1 .. a.owed, status \in {"PartiallyRefunded", "Refunded"} :
            new = [a EXCEPT !.owed = @ - part, !.refunded = @ + part, !.status = status]
      BY <2>1 DEF GiveBack
  <2>3. new.status = status
      BY <2>2, <1>3 DEF Account
  <2> QED BY <2>3
<1> QED BY <1>2, <1>4, <1>5, <1>6, <1>7

\* A change of a bounty's status takes it from no growing filter and adds it to no shrinking one.
LEMMA ChangeMoves ==
    ASSUME IndexInv, NEW b \in Bounties, Change(b)
    PROVE  /\ Moves
           /\ \A filter \in Fixed \cup Growing : Grows(filter)
           /\ \A filter \in Fixed \cup Shrinking : Shrinks(filter)
<1>1. /\ index' = index /\ record' = record /\ Status(b) # "None" /\ accounts'[b].status # "None"
      /\ \A c \in Bounties : c # b => accounts'[c] = accounts[c]
    BY ChangedIsKept
<1>2. /\ accounts[b].status \in ActiveStatus
      /\ accounts'[b].status = "Locked" => accounts[b].status = "Locked"
      /\ accounts[b].owed \in Nat /\ accounts'[b].owed \in Nat /\ accounts'[b].owed <= accounts[b].owed
    BY ChangesAre
<1>3. Moves
  <2>1. Watch
      BY DEF Change
  <2>2. Extends(index', index)
      BY <1>1, IndexPositions DEF Extends
  <2>3. \A i \in 1 .. Len(index') : index'[i] \in Bounties /\ i <= Len(index)
      BY <1>1, IndexPositions
  <2> QED BY <2>1, <2>2, <2>3, WatchIs DEF Moves
<1>4. ASSUME NEW filter, NEW c \in Bounties, c # b
      PROVE  c \in Matching(filter) <=> c \in Matching(filter)'
    BY <1>1, <1>4 DEF Matching, Matches, Status
<1>5. ASSUME NEW filter \in Fixed PROVE b \in Matching(filter) <=> b \in Matching(filter)'
  <2>1. CASE filter \in Depositors
      BY <1>1, <2>1 DEF Matching, Status
  <2>2. CASE filter \notin Depositors /\ filter = "amount"
      BY <1>1, <2>2 DEF Matching, Matches, Status
  <2>3. CASE filter \notin Depositors /\ filter = "deadline"
      BY <1>1, <2>3 DEF Matching, Matches, Status
  <2>4. CASE filter \notin Depositors /\ filter = "any"
      BY <1>1, <2>4 DEF Matching, Matches, Status
  <2> QED BY <2>1, <2>2, <2>3, <2>4 DEF Fixed
<1>6. ASSUME NEW filter \in Growing, b \in Matching(filter) PROVE b \in Matching(filter)'
  <2>1. CASE filter \in Depositors
      BY <1>1, <1>6, <2>1 DEF Matching, Status
  <2>2. CASE filter \notin Depositors
      BY <1>2, <1>6, <2>2 DEF Matching, Matches, Status, Growing, ActiveStatus
  <2> QED BY <2>1, <2>2
<1>7. ASSUME NEW filter \in Shrinking, b \in Matching(filter)' PROVE b \in Matching(filter)
  <2>1. CASE filter \in Depositors
      BY <1>1, <1>7, <2>1 DEF Matching, Status
  <2>2. CASE filter \notin Depositors /\ filter = "locked"
      BY <1>1, <1>2, <1>7, <2>2 DEF Matching, Matches, Status
  <2>3. CASE filter \notin Depositors /\ filter = "expiring"
      BY <1>1, <1>2, <1>7, <2>3 DEF Matching, Matches, Status
  <2>4. CASE filter \notin Depositors /\ filter = "valuable"
    <3>1. accounts'[b].owed >= 1
        BY <1>7, <2>4 DEF Matching, Matches, Status
    <3>2. accounts[b].owed >= 1
        BY <1>2, <3>1
    <3> QED BY <1>1, <1>2, <2>4, <3>2 DEF Matching, Matches, Status
  <2> QED BY <2>1, <2>2, <2>3, <2>4 DEF Shrinking
<1> QED BY <1>3, <1>4, <1>5, <1>6, <1>7 DEF Grows, Shrinks

-----------------------------------------------------------------------------
(* The walk *)

\* While it runs, a walk has seen the steady bounties it has reached, and the
\* bounties it has seen are behind it.
WalkInv ==
    /\ walk.filter \in Fixed \cup Growing =>
          IF walk.done THEN \A b \in walk.steady : Has(walk.pages, b)
          ELSE /\ walk.steady \subseteq Matching(walk.filter)
               /\ Reached(index, Matching(walk.filter), walk.pages, walk.steady)
    /\ walk.filter \in Fixed \cup Shrinking =>
          Passed(index, Matching(walk.filter), walk.pages)

\* No walk has begun in the initial state.
LEMMA WalkInvInit == QueryInit => WalkInv
<1> SUFFICES ASSUME QueryInit PROVE WalkInv
    OBVIOUS
<1>1. walk.done /\ walk.steady = {} /\ walk.pages = <<>>
    BY DEF QueryInit, Idle
<1> QED BY <1>1 DEF WalkInv, Passed, Has

\* A step of the contract under a walk keeps what the walk has returned in line with the index.
LEMMA MovesKeepWalk ==
    ASSUME IndexInv, WalkInv, Moves,
           walk.filter \in Fixed \cup Growing => Grows(walk.filter),
           walk.filter \in Fixed \cup Shrinking => Shrinks(walk.filter)
    PROVE  WalkInv'
<1>1. PICK list, more, M, N, pages, steady, kept :
          /\ list = index /\ more = index' /\ M = Matching(walk.filter) /\ N = Matching(walk.filter)'
          /\ pages = walk.pages /\ steady = walk.steady /\ kept = walk'.steady
    OBVIOUS
<1>2. /\ Extends(more, list) /\ Len(pages) \in Nat
      /\ walk'.filter = walk.filter /\ walk'.pages = pages /\ walk'.done = walk.done
      /\ kept = IF walk.done THEN steady ELSE steady \cap N
  <2>1. walk.pages \in Seq(Bounties)
      BY DEF IndexInv, QueryTypes
  <2>2. Len(pages) \in Nat
      BY <1>1, <2>1
  <2>3. Extends(index', index) /\ walk'.filter = walk.filter /\ walk'.pages = walk.pages /\ walk'.done = walk.done
        /\ walk'.steady = IF walk.done THEN walk.steady ELSE walk.steady \cap Matching(walk.filter)'
      BY DEF Moves
  <2> QED BY <1>1, <2>2, <2>3
<1>3. /\ \A i \in 1 .. Len(list) : list[i] \in Bounties /\ Status(list[i]) # "None"
      /\ \A i \in 1 .. Len(more) : more[i] \in Bounties /\ (Status(more[i]) # "None" => i <= Len(list))
    BY <1>1, IndexPositions DEF Moves
<1>4. ASSUME walk.filter \in Fixed \cup Growing, walk.done
      PROVE  \A b \in kept : Has(pages, b)
    BY <1>1, <1>2, <1>4 DEF WalkInv
<1>5. ASSUME walk.filter \in Fixed \cup Growing, ~walk.done
      PROVE  kept \subseteq N /\ Reached(more, N, pages, kept)
  <2>1. steady \subseteq M /\ Reached(list, M, pages, steady)
      BY <1>1, <1>5 DEF WalkInv
  <2>2. MatchesMore(list, M, N, Len(list))
      BY <1>1, <1>3, <1>5 DEF MatchesMore, Grows
  <2>3. \A i \in 1 .. Len(more) : more[i] \in kept => i <= Len(list)
    <3>1. \A b \in M : Status(b) # "None"
        BY <1>1 DEF Matching
    <3> QED BY <1>2, <1>3, <1>5, <2>1, <3>1
  <2>4. kept \in SUBSET steady /\ kept \subseteq N
      BY <1>2, <1>5
  <2> QED BY <1>2, <2>1, <2>2, <2>3, <2>4, ReachedStays
<1>6. ASSUME walk.filter \in Fixed \cup Shrinking
      PROVE  Passed(more, N, pages)
  <2>1. Passed(list, M, pages)
      BY <1>1, <1>6 DEF WalkInv
  <2>2. MatchesMore(list, N, M, Len(list))
      BY <1>1, <1>3, <1>6 DEF MatchesMore, Shrinks
  <2>3. \A i \in 1 .. Len(more) : Has(pages, more[i]) => i <= Len(list)
    <3> SUFFICES ASSUME NEW i \in 1 .. Len(more), Has(pages, more[i]) PROVE i <= Len(list)
        OBVIOUS
    <3>1. Has(list, more[i])
        BY <2>1 DEF Passed, Has
    <3>2. Status(more[i]) # "None"
        BY <1>3, <3>1 DEF Has
    <3> QED BY <1>3, <3>2
  <2> QED BY <1>2, <2>1, <2>2, <2>3, PassedStays
<1>7. walk'.filter \in Fixed \cup Growing =>
          IF walk'.done THEN \A b \in walk'.steady : Has(walk'.pages, b)
          ELSE walk'.steady \subseteq N /\ Reached(index', N, walk'.pages, walk'.steady)
    BY <1>1, <1>2, <1>4, <1>5
<1>8. walk'.filter \in Fixed \cup Shrinking => Passed(index', N, walk'.pages)
    BY <1>1, <1>2, <1>6
<1>9. Matching(walk.filter)' = N
    BY <1>1
<1> QED BY <1>7, <1>8, <1>9 DEF WalkInv, Fixed, Growing, Shrinking, Has, Reached, Passed

\* A walk starts with nothing returned.
LEMMA StartKeepsWalk ==
    ASSUME IndexInv, NEW filter \in Filters, StartWalk(filter)
    PROVE  WalkInv'
<1>1. /\ walk' = [filter |-> filter, pages |-> <<>>, steady |-> Matching(filter), done |-> FALSE]
      /\ UNCHANGED <<accounts, index, depositorIndex, record>>
    BY DEF StartWalk
<1>2. PICK list, M : list = index /\ M = Matching(filter)
    OBVIOUS
<1>3. list \in Seq(Bounties) /\ Len(list) \in Nat
    BY <1>2, IndexPositions
<1>4. Matching(walk.filter)' = M
    BY <1>1, <1>2 DEF Matching, Matches, Status
<1>5. Reached(list, M, <<>>, M)
  <2> SUFFICES ASSUME NEW i \in 1 .. Len(list), list[i] \in M, Rank(list, M, i) <= Len(<<>>) PROVE FALSE
      BY DEF Reached
  <2>1. Rank(list, M, i) \in 1 .. Len(Filtered(list, M))
    <3>1. ListsMatches(Filtered(list, M), list, M)
        BY <1>3, FilteredIs
    <3> QED BY <3>1 DEF ListsMatches
  <2> QED BY <2>1
<1>6. Passed(list, M, <<>>)
    BY DEF Passed, Has
<1> QED BY <1>1, <1>2, <1>4, <1>5, <1>6 DEF WalkInv, Fixed, Growing, Shrinking, Has, Reached, Passed

\* The next page goes on where the walk stands, and a short page ends it.
LEMMA PageKeepsWalk ==
    ASSUME IndexInv, WalkInv, NEW limit \in Limits, NextPage(limit)
    PROVE  WalkInv'
<1>1. PICK list, M, pages, steady :
          list = index /\ M = Matching(walk.filter) /\ pages = walk.pages /\ steady = walk.steady
    OBVIOUS
<1>2. PICK page : /\ page = Listed(walk.filter, Len(pages), limit)
                  /\ walk' = [walk EXCEPT !.pages = @ \o page, !.done = (page = <<>>)]
                  /\ UNCHANGED <<accounts, index, depositorIndex, record>> /\ ~walk.done
    BY <1>1 DEF NextPage
<1>3. /\ pages \in Seq(Bounties) /\ Len(pages) \in Nat /\ list \in Seq(Bounties)
      /\ \A i, j \in 1 .. Len(list) : list[i] = list[j] => i = j
  <2>1. walk.pages \in Seq(Bounties)
      BY DEF IndexInv, QueryTypes
  <2> QED BY <1>1, <2>1, IndexPositions
<1>4. PICK F : F = Filtered(list, M)
    OBVIOUS
<1>5. F \in Seq(Bounties) /\ ListsMatches(F, list, M)
    BY <1>3, <1>4, FilteredIs
<1>6. PICK most \in Nat \ {0} : page = Slice(F, Len(pages), most)
    BY <1>1, <1>2, <1>3, <1>4, ListedIs
<1>7. PICK all : all = pages \o page
    OBVIOUS
<1>8. Continues(all, F, pages, page)
    BY <1>3, <1>5, <1>6, <1>7, PageContinues
<1>9. walk'.filter = walk.filter /\ walk'.pages = all /\ walk'.steady = steady /\ walk'.done = (page = <<>>)
    BY <1>1, <1>2, <1>7 DEF IndexInv, QueryTypes
<1>10. Matching(walk.filter)' = M
    BY <1>1, <1>2, <1>9 DEF Matching, Matches, Status
<1>11. ASSUME walk.filter \in Fixed \cup Growing
       PROVE  /\ page # <<>> => steady \subseteq M /\ Reached(list, M, all, steady)
              /\ page = <<>> => \A b \in steady : Has(all, b)
  <2>1. steady \in SUBSET M /\ Reached(list, M, pages, steady)
      BY <1>1, <1>2, <1>11 DEF WalkInv
  <2>2. /\ Reached(list, M, all, steady)
        /\ page = <<>> => \A i \in 1 .. Len(list) : list[i] \in steady => Has(pages, list[i])
      BY <1>5, <1>8, <2>1, PageReaches
  <2>3. \A b \in steady : \E i \in 1 .. Len(list) : list[i] = b
    <3>1. \A b \in M : b \in Bounties /\ Status(b) # "None"
        BY <1>1 DEF Matching
    <3> QED BY <1>1, <2>1, <3>1, IndexPositions
  <2>4. \A b : Has(pages, b) => Has(all, b)
    <3>1. \A k \in 1 .. Len(pages) : k \in 1 .. Len(all) /\ all[k] = pages[k]
        BY <1>8 DEF Continues
    <3> QED BY <3>1 DEF Has
  <2> QED BY <2>1, <2>2, <2>3, <2>4
<1>12. ASSUME walk.filter \in Fixed \cup Shrinking PROVE Passed(list, M, all)
  <2>1. Passed(list, M, pages)
      BY <1>1, <1>12 DEF WalkInv
  <2> QED BY <1>3, <1>5, <1>8, <2>1, PagePasses
<1>13. walk'.filter \in Fixed \cup Growing =>
          IF walk'.done THEN \A b \in walk'.steady : Has(walk'.pages, b)
          ELSE walk'.steady \subseteq M /\ Reached(index', M, walk'.pages, walk'.steady)
    BY <1>1, <1>2, <1>9, <1>11
<1>14. walk'.filter \in Fixed \cup Shrinking => Passed(index', M, walk'.pages)
    BY <1>1, <1>2, <1>9, <1>12
<1> QED BY <1>10, <1>13, <1>14 DEF WalkInv, Fixed, Growing, Shrinking, Has, Reached, Passed

\* Every step keeps the invariant of the walk.
LEMMA WalkInvStep == IndexInv /\ WalkInv /\ [QueryNext]_queryVars => WalkInv'
<1> SUFFICES ASSUME IndexInv, WalkInv, [QueryNext]_queryVars PROVE WalkInv'
    OBVIOUS
<1>1. ASSUME NEW b \in Bounties, NEW terms \in Terms, Lock(b, terms) PROVE WalkInv'
  <2>1. Moves /\ Grows(walk.filter) /\ Shrinks(walk.filter)
      BY <1>1, LockMoves
  <2> QED BY <2>1, MovesKeepWalk
<1>2. ASSUME NEW b \in Bounties, Change(b) PROVE WalkInv'
  <2>1. /\ Moves
        /\ walk.filter \in Fixed \cup Growing => Grows(walk.filter)
        /\ walk.filter \in Fixed \cup Shrinking => Shrinks(walk.filter)
      BY <1>2, ChangeMoves
  <2> QED BY <2>1, MovesKeepWalk
<1>3. ASSUME NEW filter \in Filters, StartWalk(filter) PROVE WalkInv'
    BY <1>3, StartKeepsWalk
<1>4. ASSUME NEW limit \in Limits, NextPage(limit) PROVE WalkInv'
    BY <1>4, PageKeepsWalk
<1>5. CASE UNCHANGED queryVars
  <2>1. Matching(walk.filter)' = Matching(walk.filter)
      BY <1>5 DEF queryVars, Matching, Matches, Status
  <2> QED BY <1>5, <2>1 DEF queryVars, WalkInv, Fixed, Growing, Shrinking, Has, Reached, Passed
<1> QED BY <1>1, <1>2, <1>3, <1>4, <1>5 DEF QueryNext

\* A walk that ended has every bounty that matched all the while: its rank only
\* grew, so the pages did not jump over it.
THEOREM WalksNeverMiss == QuerySpec => []WalksMissNothing
<1>1. IndexInv /\ WalkInv => WalksMissNothing
  <2> SUFFICES ASSUME IndexInv, WalkInv, walk.done, walk.filter \in Fixed \cup Growing,
                      NEW b \in walk.steady
               PROVE  b \in ToSet(walk.pages)
      BY DEF WalksMissNothing
  <2>1. Has(walk.pages, b)
      BY DEF WalkInv
  <2>2. DOMAIN walk.pages = 1 .. Len(walk.pages)
    <3>1. walk.pages \in Seq(Bounties)
        BY DEF IndexInv, QueryTypes
    <3> QED BY <3>1
  <2> QED BY <2>1, <2>2 DEF Has, ToSet
<1> QED BY <1>1, WalkInvInit, WalkInvStep, IndexInvHolds, PTL DEF QuerySpec

\* A walk has no bounty twice: the rank of those it has only shrank, so none of
\* them came back in front of its pages.
THEOREM WalksNeverRepeat == QuerySpec => []WalksRepeatNothing
<1>1. IndexInv /\ WalkInv => WalksRepeatNothing
  <2> SUFFICES ASSUME IndexInv, WalkInv, walk.filter \in Fixed \cup Shrinking
               PROVE  IsInjective(walk.pages)
      BY DEF WalksRepeatNothing
  <2>1. DOMAIN walk.pages = 1 .. Len(walk.pages)
    <3>1. walk.pages \in Seq(Bounties)
        BY DEF IndexInv, QueryTypes
    <3> QED BY <3>1
  <2>2. \A k, l \in 1 .. Len(walk.pages) : walk.pages[k] = walk.pages[l] => k = l
      BY DEF WalkInv, Passed
  <2> QED BY <2>1, <2>2 DEF IsInjective
<1> QED BY <1>1, WalkInvInit, WalkInvStep, IndexInvHolds, PTL DEF QuerySpec

=============================================================================
