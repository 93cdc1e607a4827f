------------------------- MODULE BountyEscrowProofs -------------------------
(***************************************************************************)
(* Theorems about BountyEscrow and its views, for every value of their     *)
(* constants.  The first part goes bounty by bounty: the types, what every *)
(* call does to one bounty, the safety properties that follow from that,   *)
(* and that the contract implements the lifecycle of a bounty.  The second *)
(* is about totals over all bounties: the token balance, the incremental   *)
(* counters and totals, and the views that recompute them; sums over       *)
(* bounties move with the bounties a call touches, by the lemmas of        *)
(* DataProofs.                                                             *)
(***************************************************************************)
EXTENDS EscrowViews, DataProofs

\* Sets of bounties are finite, so their cardinality is a number.
LEMMA BatchIsCounted ==
    ASSUME NEW S \in SUBSET Bounties
    PROVE  IsFiniteSet(S) /\ Cardinality(S) \in Nat
BY BountiesAssumption, FS_Subset, FS_CardinalityType

\* The saturating subtraction of counters yields a counter.
LEMMA LessIsNat == ASSUME NEW n \in Nat, NEW k \in Nat PROVE Less(n, k) \in Nat
BY DEF Less

\* Each of the three steps keeps the type of a record it updates.
LEMMA AnalyticsAreTyped ==
    ASSUME NEW a \in Analytics, NEW amount \in Nat
    PROVE  OnRelease(a, amount) \in Analytics /\ OnRefund(a, amount) \in Analytics
BY DEF OnRelease, OnRefund, Analytics

\* So does each step of the counters.
LEMMA CountersAreTyped ==
    ASSUME TypeOK, NEW n \in Nat, CountReleased(n) \/ CountRefunded(n)
    PROVE  count' \in [locked : Nat, released : Nat, refunded : Nat]
<1>1. count \in [locked : Nat, released : Nat, refunded : Nat]
    BY DEF TypeOK
<1>2. count.locked \in Nat /\ count.released \in Nat /\ count.refunded \in Nat
    BY <1>1
<1>3. Less(count.locked, n) \in Nat
    BY <1>2, LessIsNat
<1>4. count.released + n \in Nat /\ count.refunded + n \in Nat
    BY <1>2
<1> QED BY <1>2, <1>3, <1>4 DEF CountReleased, CountRefunded

-----------------------------------------------------------------------------
(* Type correctness *)

\* Paying a set of bounties in full keeps the types of the books.
LEMMA PayInFullTyped ==
    ASSUME TypeOK, NEW S \in SUBSET Bounties, PayInFull(S)
    PROVE  /\ escrow' \in [Bounties -> Escrow]
           /\ analytics' \in [Bounties -> Analytics]
           /\ count' \in [locked : Nat, released : Nat, refunded : Nat]
<1> DEFINE due == [b \in S |-> escrow[b].amount]
<1>1. \A b \in S : due[b] \in Nat
    BY DEF TypeOK, Escrow
<1>2. escrow' \in [Bounties -> Escrow]
  <2>1. \A b \in Bounties :
            [escrow[b] EXCEPT !.status = "Released", !.remaining = 0] \in Escrow
      BY DEF TypeOK, Escrow, Settled
  <2>2. escrow' = [b \in Bounties |->
                     IF b \in S
                     THEN [escrow[b] EXCEPT !.status = "Released", !.remaining = 0]
                     ELSE escrow[b]]
      BY DEF PayInFull
  <2> QED BY <2>1, <2>2 DEF TypeOK
<1>3. analytics' \in [Bounties -> Analytics]
  <2>1. \A b \in S : OnRelease(analytics[b], due[b]) \in Analytics
      BY <1>1, AnalyticsAreTyped DEF TypeOK
  <2>2. analytics' = [b \in Bounties |->
                        IF b \in S THEN OnRelease(analytics[b], due[b]) ELSE analytics[b]]
      BY DEF PayInFull
  <2> QED BY <2>1, <2>2 DEF TypeOK
<1>4. count' \in [locked : Nat, released : Nat, refunded : Nat]
    BY BatchIsCounted, CountersAreTyped DEF PayInFull
<1> QED BY <1>2, <1>3, <1>4

\* Locking a set of bounties keeps all types.
LEMMA LockTyped ==
    ASSUME TypeOK, NEW S \in SUBSET Bounties,
           NEW amount \in [S -> Amounts], NEW deadline \in [S -> 1 .. MaxTime],
           Lock(S, amount, deadline)
    PROVE  TypeOK'
<1>1. \A b \in S : amount[b] \in Nat /\ deadline[b] \in Nat
  <2>1. Amounts \subseteq Nat /\ 1 .. MaxTime \subseteq Nat
      BY AmountsAssumption, BoundsAssumption
  <2> QED BY <2>1
<1>2. escrow' \in [Bounties -> Escrow]
    BY <1>1 DEF Lock, TypeOK, Escrow, Active
<1>3. analytics' \in [Bounties -> Analytics]
    BY <1>1 DEF Lock, TypeOK, Analytics
<1>4. count' \in [locked : Nat, released : Nat, refunded : Nat]
  <2>1. /\ count.locked + Cardinality(S) \in Nat
        /\ count.released \in Nat /\ count.refunded \in Nat
      BY BatchIsCounted DEF TypeOK
  <2> QED BY <2>1 DEF Lock
<1> QED BY <1>2, <1>3, <1>4 DEF Lock, TypeOK, config

\* The empty contract is well typed.
LEMMA InitTyped == Init => TypeOK
<1> SUFFICES ASSUME Init PROVE TypeOK
    OBVIOUS
<1>1. escrow \in [Bounties -> Escrow] /\ claims \in [Bounties -> Claim]
    BY DEF Init, NoEscrow, NoClaim, Escrow, Claim
<1>2. refundApproval \in [Bounties -> RefundApproval] /\ analytics \in [Bounties -> Analytics]
    BY DEF Init, NoApproval, NoAnalytics, RefundApproval, Analytics
<1>3. now \in 0 .. MaxTime /\ multisig \in MultisigConfig /\ policy \in AmountPolicy
    BY BoundsAssumption, AmountsAssumption DEF Init, MultisigConfig, AmountPolicy
<1>4. paused \in PauseFlags /\ count \in [locked : Nat, released : Nat, refunded : Nat]
    BY DEF Init, PauseFlags
<1> QED BY <1>1, <1>2, <1>3, <1>4 DEF Init, TypeOK

\* Every operation, and every stutter, keeps the types.
LEMMA NextTyped == TypeOK /\ [Next]_vars => TypeOK'
<1> SUFFICES ASSUME TypeOK, [Next]_vars PROVE TypeOK'
    OBVIOUS
<1>1. ASSUME NEW b \in Bounties, LockFunds(b) PROVE TypeOK'
    BY <1>1, LockTyped DEF LockFunds
<1>2. ASSUME NEW b \in Bounties, ReleaseFunds(b) PROVE TypeOK'
  <2>1. {b} \in SUBSET Bounties /\ PayInFull({b})
      BY <1>2 DEF ReleaseFunds
  <2>2. releaseApproval' \in [Bounties -> SUBSET Signers]
      BY <1>2 DEF ReleaseFunds, TypeOK
  <2> QED BY <1>2, <2>1, <2>2, PayInFullTyped DEF ReleaseFunds, TypeOK, config
<1>3. ASSUME NEW b \in Bounties, PartialRelease(b) PROVE TypeOK'
  <2> PICK payout \in 1 .. escrow[b].remaining :
           /\ escrow' = [escrow EXCEPT
                           ![b].remaining = escrow[b].remaining - payout,
                           ![b].status = IF escrow[b].remaining - payout = 0 THEN "Released" ELSE @]
           /\ analytics' = [analytics EXCEPT ![b] = OnRelease(@, payout)]
           /\ IF escrow[b].remaining - payout = 0 THEN CountReleased(1) ELSE UNCHANGED count
           /\ releaseApproval' = [releaseApproval EXCEPT ![b] = {}]
           /\ UNCHANGED <<now, claims, refundApproval, config>>
      BY <1>3 DEF PartialRelease
  <2>1. payout \in Nat /\ escrow[b].remaining - payout \in Nat
      BY DEF TypeOK, Escrow
  <2> DEFINE status == IF escrow[b].remaining - payout = 0 THEN "Released" ELSE escrow[b].status
             paid == [escrow[b] EXCEPT !.remaining = escrow[b].remaining - payout, !.status = status]
  <2>2a. escrow[b] \in Escrow
      BY DEF TypeOK
  <2>2b. paid \in Escrow
      BY <2>1, <2>2a DEF Escrow, Settled
  <2>2c. escrow' = [escrow EXCEPT ![b] = paid]
      BY DEF TypeOK
  <2>2. escrow' \in [Bounties -> Escrow]
    <3> HIDE DEF paid
    <3> QED BY <2>2b, <2>2c DEF TypeOK
  <2>3. analytics' \in [Bounties -> Analytics]
      BY <2>1, AnalyticsAreTyped DEF TypeOK
  <2>4. count' \in [locked : Nat, released : Nat, refunded : Nat]
      BY CountersAreTyped DEF TypeOK
  <2> QED BY <2>2, <2>3, <2>4 DEF TypeOK, config
<1>4. ASSUME NEW b \in Bounties, AuthorizeClaim(b) PROVE TypeOK'
  <2>1. now + claimWindow \in Nat /\ escrow[b].remaining \in Nat
      BY BoundsAssumption DEF TypeOK, Escrow
  <2>2. claims' \in [Bounties -> Claim]
      BY <1>4, <2>1 DEF AuthorizeClaim, Claimable, TypeOK, Claim
  <2> QED BY <1>4, <2>2 DEF AuthorizeClaim, Claimable, TypeOK, books, config
<1>5. ASSUME NEW b \in Bounties, ClaimFunds(b) PROVE TypeOK'
  <2> DEFINE claimed == [escrow[b] EXCEPT !.status = "Released", !.remaining = 0]
  <2>1a. escrow[b] \in Escrow
      BY DEF TypeOK
  <2>1b. claimed \in Escrow
      BY <2>1a DEF Escrow, Settled
  <2>1c. escrow' = [escrow EXCEPT ![b] = claimed]
      BY <1>5 DEF ClaimFunds, TypeOK
  <2>1. escrow' \in [Bounties -> Escrow]
    <3> HIDE DEF claimed
    <3> QED BY <2>1b, <2>1c DEF TypeOK
  <2>2. claims' \in [Bounties -> Claim]
      BY <1>5 DEF ClaimFunds, TypeOK, Claim
  <2>3. count' \in [locked : Nat, released : Nat, refunded : Nat]
      BY <1>5, CountersAreTyped DEF ClaimFunds
  <2> QED BY <1>5, <2>1, <2>2, <2>3 DEF ClaimFunds, TypeOK, config
<1>6. ASSUME NEW b \in Bounties, CancelPendingClaim(b) PROVE TypeOK'
    BY <1>6 DEF CancelPendingClaim, TypeOK, NoClaim, Claim, books, config
<1>7. ASSUME NEW b \in Bounties, ApproveRefund(b) PROVE TypeOK'
  <2>1. refundApproval' \in [Bounties -> RefundApproval]
      BY <1>7 DEF ApproveRefund, TypeOK, RefundApproval, Escrow
  <2> QED BY <1>7, <2>1 DEF ApproveRefund, TypeOK, books, config
<1>8. ASSUME NEW b \in Bounties, Refund(b) PROVE TypeOK'
  <2> DEFINE amount == RefundAmount(b)
  <2>1. /\ amount \in 1 .. escrow[b].remaining
        /\ escrow' = [escrow EXCEPT
                        ![b].remaining = @ - amount,
                        ![b].refunded = @ + amount,
                        ![b].status = IF RefundCloses(b) THEN "Refunded" ELSE "PartiallyRefunded"]
        /\ analytics' = [analytics EXCEPT ![b] = OnRefund(@, amount)]
        /\ IF RefundCloses(b) THEN CountRefunded(1) ELSE UNCHANGED count
        /\ refundApproval' = [refundApproval EXCEPT ![b] = NoApproval]
        /\ UNCHANGED <<now, claims, releaseApproval, config>>
      BY <1>8 DEF Refund, RefundAllowed
  <2> HIDE DEF amount
  <2>2. amount \in Nat /\ escrow[b].remaining - amount \in Nat
      BY <2>1 DEF TypeOK, Escrow
  <2>3. escrow' \in [Bounties -> Escrow]
      BY <2>1, <2>2 DEF TypeOK, Escrow, Settled, Active
  <2>4. analytics' \in [Bounties -> Analytics]
      BY <2>1, <2>2, AnalyticsAreTyped DEF TypeOK
  <2>5. count' \in [locked : Nat, released : Nat, refunded : Nat]
      BY <2>1, CountersAreTyped DEF TypeOK
  <2>6. refundApproval' \in [Bounties -> RefundApproval]
      BY <2>1 DEF TypeOK, NoApproval, RefundApproval
  <2> QED BY <2>1, <2>3, <2>4, <2>5, <2>6 DEF TypeOK, config
<1>9. ASSUME NEW b \in Bounties, NEW s \in Signers, ApproveLargeRelease(b, s) PROVE TypeOK'
    BY <1>9 DEF ApproveLargeRelease, TypeOK, books, config
<1>10. ASSUME NEW S \in SUBSET Bounties, BatchLockFunds(S) PROVE TypeOK'
  <2> PICK amount \in [S -> Amounts \ {0}], deadline \in [S -> 1 .. MaxTime] :
           Lock(S, amount, deadline)
      BY <1>10 DEF BatchLockFunds
  <2>1. amount \in [S -> Amounts]
      OBVIOUS
  <2> QED BY <2>1, LockTyped
<1>11. ASSUME NEW S \in SUBSET Bounties, BatchReleaseFunds(S) PROVE TypeOK'
    BY <1>11, PayInFullTyped DEF BatchReleaseFunds, TypeOK, config
<1>12. ASSUME NEW S \in SUBSET Bounties, SweepExpiredRefunds(S) PROVE TypeOK'
  <2> DEFINE due == [b \in S |-> escrow[b].remaining]
  <2>1. \A b \in S : due[b] \in Nat
      BY DEF TypeOK, Escrow
  <2>2. escrow' \in [Bounties -> Escrow]
    <3>1. ASSUME NEW b \in S
          PROVE  [escrow[b] EXCEPT !.status = "Refunded", !.remaining = 0,
                                   !.refunded = @ + due[b]] \in Escrow
      <4>1. escrow[b] \in Escrow
          BY DEF TypeOK
      <4>2. due[b] \in Nat /\ escrow[b].refunded + due[b] \in Nat
          BY <2>1, <4>1 DEF Escrow
      <4> HIDE DEF due
      <4> QED BY <4>1, <4>2 DEF Escrow, Settled
    <3>2. escrow' = [b \in Bounties |->
                       IF b \in S
                       THEN [escrow[b] EXCEPT !.status = "Refunded", !.remaining = 0,
                                              !.refunded = @ + due[b]]
                       ELSE escrow[b]]
        BY <1>12 DEF SweepExpiredRefunds
    <3> QED BY <3>1, <3>2 DEF TypeOK
  <2>3. analytics' \in [Bounties -> Analytics]
    <3>1. \A b \in S : OnRefund(analytics[b], due[b]) \in Analytics
        BY <2>1, AnalyticsAreTyped DEF TypeOK
    <3>2. analytics' = [b \in Bounties |->
                          IF b \in S THEN OnRefund(analytics[b], due[b]) ELSE analytics[b]]
        BY <1>12 DEF SweepExpiredRefunds
    <3> QED BY <3>1, <3>2 DEF TypeOK
  <2>4. count' \in [locked : Nat, released : Nat, refunded : Nat]
      BY <1>12, BatchIsCounted, CountersAreTyped DEF SweepExpiredRefunds
  <2> QED BY <1>12, <2>2, <2>3, <2>4 DEF SweepExpiredRefunds, TypeOK, config
<1>13. ASSUME Configure PROVE TypeOK'
    BY <1>13, ConfigAssumption
       DEF Configure, UpdateMultisigConfig, SetAmountPolicy, SetClaimWindow, SetPaused,
           SetEmergencyPause, GovernanceChange, TypeOK, books
<1>14. ASSUME Tick PROVE TypeOK'
    BY <1>14, BoundsAssumption DEF Tick, TypeOK, books, config
<1>15. ASSUME Gift PROVE TypeOK'
    BY <1>15 DEF Gift, TypeOK, config
<1>16. ASSUME UNCHANGED vars PROVE TypeOK'
    BY <1>16 DEF vars, TypeOK
<1> QED BY <1>1, <1>2, <1>3, <1>4, <1>5, <1>6, <1>7, <1>8, <1>9, <1>10, <1>11, <1>12,
           <1>13, <1>14, <1>15, <1>16 DEF Next

\* Type correctness: every call leaves storage with values of the declared
\* types; in particular no amount stored in an escrow becomes negative.
THEOREM TypesAreKept == Spec => []TypeOK
<1> QED BY InitTyped, NextTyped, PTL DEF Spec

-----------------------------------------------------------------------------
(* The kinds of step a bounty can take, whichever entry point it goes through *)

Kept(b) ==
    escrow'[b] = escrow[b] /\ claims'[b] = claims[b] /\ analytics'[b] = analytics[b]

Opened(b) ==
    /\ escrow[b].status = "None"
    /\ claims'[b] = claims[b]
    /\ \E x \in Nat, d \in Nat :
          escrow'[b] = [status |-> "Locked", amount |-> x, remaining |-> x,
                        refunded |-> 0, deadline |-> d]
    /\ analytics'[b] = [released |-> 0, refunded |-> 0, remaining |-> escrow'[b].amount]

ReleasedInFull(b) ==
    /\ Releasable(b)
    /\ claims'[b] = claims[b]
    /\ escrow'[b] = [escrow[b] EXCEPT !.status = "Released", !.remaining = 0]
    /\ analytics'[b] = OnRelease(analytics[b], escrow[b].amount)

ReleasedInPart(b) ==
    /\ Releasable(b)
    /\ claims'[b] = claims[b]
    /\ \E payout \in 1 .. escrow[b].remaining :
          /\ escrow'[b] = [escrow[b] EXCEPT
                             !.remaining = escrow[b].remaining - payout,
                             !.status = IF escrow[b].remaining - payout = 0
                                        THEN "Released" ELSE escrow[b].status]
          /\ analytics'[b] = OnRelease(analytics[b], payout)

ClaimSet(b) ==
    /\ escrow[b].status = "Locked"
    /\ escrow'[b] = escrow[b] /\ analytics'[b] = analytics[b]
    /\ claims'[b].status = "Pending" /\ claims'[b].amount = escrow[b].remaining

ClaimPaid(b) ==
    /\ claims[b].status = "Pending"
    /\ analytics'[b] = analytics[b]
    /\ escrow'[b] = [escrow[b] EXCEPT !.status = "Released", !.remaining = 0]
    /\ claims'[b] = [claims[b] EXCEPT !.status = "Claimed"]

ClaimDropped(b) ==
    /\ claims[b].status = "Pending"
    /\ escrow'[b] = escrow[b] /\ analytics'[b] = analytics[b]
    /\ claims'[b] = NoClaim

RefundedInPart(b) ==
    /\ Refundable(b)
    /\ claims'[b] = claims[b]
    /\ \E x \in 1 .. escrow[b].remaining, status \in {"PartiallyRefunded", "Refunded"} :
          /\ status = "PartiallyRefunded" => x < escrow[b].remaining
          /\ escrow'[b] = [escrow[b] EXCEPT !.remaining = escrow[b].remaining - x,
                                            !.refunded = escrow[b].refunded + x,
                                            !.status = status]
          /\ analytics'[b] = OnRefund(analytics[b], x)

Effect(b) ==
    \/ Kept(b)
    \/ Opened(b)
    \/ ReleasedInFull(b)
    \/ ReleasedInPart(b)
    \/ ClaimSet(b)
    \/ ClaimPaid(b)
    \/ ClaimDropped(b)
    \/ RefundedInPart(b)

-----------------------------------------------------------------------------

\* A call that pays a set of bounties in full releases each and keeps the rest.
LEMMA PayInFullEffect ==
    ASSUME TypeOK, NEW S \in SUBSET Bounties, PayInFull(S), claims' = claims,
           \A c \in S : Releasable(c), NEW b \in Bounties
    PROVE  Effect(b)
<1>1. /\ escrow'[b] = IF b \in S
                      THEN [escrow[b] EXCEPT !.status = "Released", !.remaining = 0]
                      ELSE escrow[b]
      /\ analytics'[b] = IF b \in S THEN OnRelease(analytics[b], escrow[b].amount)
                                    ELSE analytics[b]
    BY DEF PayInFull
<1>2. CASE b \in S
    BY <1>1, <1>2 DEF Effect, ReleasedInFull
<1>3. CASE b \notin S
    BY <1>1, <1>3 DEF Effect, Kept
<1> QED BY <1>2, <1>3

\* Locking a set of bounties opens each and keeps the rest.
LEMMA LockEffect ==
    ASSUME TypeOK, NEW S \in SUBSET Bounties,
           NEW amount \in [S -> Amounts], NEW deadline \in [S -> 1 .. MaxTime],
           Lock(S, amount, deadline), NEW b \in Bounties
    PROVE  Effect(b)
<1>1. /\ escrow'[b] = IF b \in S
                      THEN [status |-> "Locked", amount |-> amount[b],
                            remaining |-> amount[b], refunded |-> 0,
                            deadline |-> deadline[b]]
                      ELSE escrow[b]
      /\ analytics'[b] = IF b \in S
                         THEN [released |-> 0, refunded |-> 0, remaining |-> amount[b]]
                         ELSE analytics[b]
      /\ claims' = claims
    BY DEF Lock
<1>2. CASE b \in S
  <2>1. Amounts \subseteq Nat /\ 1 .. MaxTime \subseteq Nat
      BY AmountsAssumption, BoundsAssumption
  <2>2. amount[b] \in Nat /\ deadline[b] \in Nat
      BY <1>2, <2>1
  <2>3. escrow[b].status = "None"
      BY <1>2 DEF Lock
  <2> QED BY <1>1, <1>2, <2>2, <2>3 DEF Effect, Opened
<1>3. CASE b \notin S
    BY <1>1, <1>3 DEF Effect, Kept
<1> QED BY <1>2, <1>3

\* Every step of the contract takes every bounty by one of the kinds of step.
LEMMA EveryStepHasAnEffect ==
    ASSUME TypeOK, [Next]_vars, NEW b \in Bounties
    PROVE  Effect(b)
<1>0. /\ escrow \in [Bounties -> Escrow]
      /\ claims \in [Bounties -> Claim]
      /\ analytics \in [Bounties -> Analytics]
    BY DEF TypeOK
<1>1. ASSUME NEW c \in Bounties, LockFunds(c) PROVE Effect(b)
    BY <1>1, LockEffect DEF LockFunds
<1>2. ASSUME NEW c \in Bounties, ReleaseFunds(c) PROVE Effect(b)
  <2>1. {c} \in SUBSET Bounties /\ PayInFull({c}) /\ claims' = claims /\ Releasable(c)
      BY <1>2 DEF ReleaseFunds
  <2> QED BY <2>1, PayInFullEffect
<1>3. ASSUME NEW c \in Bounties, PartialRelease(c) PROVE Effect(b)
  <2> PICK payout \in 1 .. escrow[c].remaining :
           /\ Releasable(c)
           /\ escrow' = [escrow EXCEPT
                           ![c].remaining = escrow[c].remaining - payout,
                           ![c].status = IF escrow[c].remaining - payout = 0 THEN "Released" ELSE @]
           /\ analytics' = [analytics EXCEPT ![c] = OnRelease(@, payout)]
           /\ claims' = claims
      BY <1>3 DEF PartialRelease
  <2>1. CASE b = c
    <3>1. escrow'[b] = [escrow[b] EXCEPT
                          !.remaining = escrow[b].remaining - payout,
                          !.status = IF escrow[b].remaining - payout = 0
                                     THEN "Released" ELSE escrow[b].status]
        BY <1>0, <2>1 DEF Escrow
    <3>2. analytics'[b] = OnRelease(analytics[b], payout)
        BY <1>0, <2>1
    <3> QED BY <2>1, <3>1, <3>2 DEF Effect, ReleasedInPart
  <2>2. CASE b # c
      BY <1>0, <2>2 DEF Effect, Kept
  <2> QED BY <2>1, <2>2
<1>4. ASSUME NEW c \in Bounties, AuthorizeClaim(c) PROVE Effect(b)
  <2>1. /\ escrow[c].status = "Locked"
        /\ claims' = [claims EXCEPT ![c] = [status |-> "Pending",
                                            amount |-> escrow[c].remaining,
                                            expires |-> now + claimWindow]]
        /\ escrow' = escrow /\ analytics' = analytics
      BY <1>4 DEF AuthorizeClaim, Claimable, books
  <2>2. CASE b = c
      BY <1>0, <2>1, <2>2 DEF Effect, ClaimSet
  <2>3. CASE b # c
      BY <1>0, <2>1, <2>3 DEF Effect, Kept
  <2> QED BY <2>2, <2>3
<1>5. ASSUME NEW c \in Bounties, ClaimFunds(c) PROVE Effect(b)
  <2>1. /\ claims[c].status = "Pending"
        /\ escrow' = [escrow EXCEPT ![c].status = "Released", ![c].remaining = 0]
        /\ claims' = [claims EXCEPT ![c].status = "Claimed"]
        /\ analytics' = analytics
      BY <1>5 DEF ClaimFunds
  <2>2. CASE b = c
    <3>1. /\ escrow'[b] = [escrow[b] EXCEPT !.status = "Released", !.remaining = 0]
          /\ claims'[b] = [claims[b] EXCEPT !.status = "Claimed"]
        BY <1>0, <2>1, <2>2 DEF Escrow, Claim
    <3> QED BY <2>1, <2>2, <3>1 DEF Effect, ClaimPaid
  <2>3. CASE b # c
      BY <1>0, <2>1, <2>3 DEF Effect, Kept
  <2> QED BY <2>2, <2>3
<1>6. ASSUME NEW c \in Bounties, CancelPendingClaim(c) PROVE Effect(b)
  <2>1. /\ claims[c].status = "Pending"
        /\ claims' = [claims EXCEPT ![c] = NoClaim]
        /\ escrow' = escrow /\ analytics' = analytics
      BY <1>6 DEF CancelPendingClaim, books
  <2>2. CASE b = c
      BY <1>0, <2>1, <2>2 DEF Effect, ClaimDropped
  <2>3. CASE b # c
      BY <1>0, <2>1, <2>3 DEF Effect, Kept
  <2> QED BY <2>2, <2>3
<1>7. ASSUME NEW c \in Bounties, ApproveRefund(c) PROVE Effect(b)
    BY <1>7 DEF ApproveRefund, books, Effect, Kept
<1>8. ASSUME NEW c \in Bounties, Refund(c) PROVE Effect(b)
  <2> DEFINE x == RefundAmount(c)
             status == IF RefundCloses(c) THEN "Refunded" ELSE "PartiallyRefunded"
  <2>1. /\ Refundable(c)
        /\ x \in 1 .. escrow[c].remaining
        /\ status \in {"PartiallyRefunded", "Refunded"}
        /\ escrow' = [escrow EXCEPT ![c].remaining = @ - x, ![c].refunded = @ + x,
                                    ![c].status = status]
        /\ analytics' = [analytics EXCEPT ![c] = OnRefund(@, x)]
        /\ claims' = claims
      BY <1>8 DEF Refund, RefundAllowed
  <2>4. status = "PartiallyRefunded" => x < escrow[c].remaining
    <3>1. escrow[c].remaining \in Nat
        BY DEF TypeOK, Escrow
    <3> QED BY <2>1, <3>1 DEF RefundCloses, RefundAmount
  <2> HIDE DEF x, status
  <2>2. CASE b = c
    <3>1. escrow'[b] = [escrow[b] EXCEPT !.remaining = escrow[b].remaining - x,
                                         !.refunded = escrow[b].refunded + x,
                                         !.status = status]
        BY <1>0, <2>1, <2>2 DEF Escrow
    <3>2. analytics'[b] = OnRefund(analytics[b], x)
        BY <1>0, <2>1, <2>2
    <3> QED BY <2>1, <2>2, <2>4, <3>1, <3>2 DEF Effect, RefundedInPart
  <2>3. CASE b # c
      BY <1>0, <2>1, <2>3 DEF Effect, Kept
  <2> QED BY <2>2, <2>3
<1>9. ASSUME NEW c \in Bounties, NEW s \in Signers, ApproveLargeRelease(c, s) PROVE Effect(b)
    BY <1>9 DEF ApproveLargeRelease, books, Effect, Kept
<1>10. ASSUME NEW S \in SUBSET Bounties, BatchLockFunds(S) PROVE Effect(b)
  <2> PICK amount \in [S -> Amounts \ {0}], deadline \in [S -> 1 .. MaxTime] :
           Lock(S, amount, deadline)
      BY <1>10 DEF BatchLockFunds
  <2>1. amount \in [S -> Amounts]
      OBVIOUS
  <2> QED BY <2>1, LockEffect
<1>11. ASSUME NEW S \in SUBSET Bounties, BatchReleaseFunds(S) PROVE Effect(b)
    BY <1>11, PayInFullEffect DEF BatchReleaseFunds
<1>12. ASSUME NEW S \in SUBSET Bounties, SweepExpiredRefunds(S) PROVE Effect(b)
  <2>1. /\ escrow' = [c \in Bounties |->
                        IF c \in S
                        THEN [escrow[c] EXCEPT !.status = "Refunded", !.remaining = 0,
                                !.refunded = escrow[c].refunded + escrow[c].remaining]
                        ELSE escrow[c]]
        /\ analytics' = [c \in Bounties |->
                           IF c \in S THEN OnRefund(analytics[c], escrow[c].remaining)
                           ELSE analytics[c]]
        /\ claims' = claims
        /\ \A c \in S : Refundable(c) /\ escrow[c].remaining > 0
      BY <1>12 DEF SweepExpiredRefunds, Sweepable
  <2>2. CASE b \in S
    <3>1. escrow[b] \in Escrow /\ escrow[b].remaining \in 1 .. escrow[b].remaining
      <4>1. escrow[b] \in Escrow
          BY <1>0
      <4>2. escrow[b].remaining \in Nat /\ escrow[b].remaining > 0
          BY <4>1, <2>1, <2>2 DEF Escrow
      <4> QED BY <4>1, <4>2
    <3>2. escrow[b].remaining - escrow[b].remaining = 0
        BY <3>1 DEF Escrow
    <3>3. escrow'[b] = [escrow[b] EXCEPT
                          !.remaining = escrow[b].remaining - escrow[b].remaining,
                          !.refunded = escrow[b].refunded + escrow[b].remaining,
                          !.status = "Refunded"]
        BY <2>1, <2>2, <3>1, <3>2 DEF Escrow
    <3>4. analytics'[b] = OnRefund(analytics[b], escrow[b].remaining)
        BY <2>1, <2>2
    <3> QED BY <2>1, <2>2, <3>1, <3>3, <3>4 DEF Effect, RefundedInPart
  <2>3. CASE b \notin S
      BY <2>1, <2>3 DEF Effect, Kept
  <2> QED BY <2>2, <2>3
<1>13. ASSUME Configure PROVE Effect(b)
    BY <1>13 DEF Configure, UpdateMultisigConfig, SetAmountPolicy, SetClaimWindow, SetPaused,
                 SetEmergencyPause, GovernanceChange, books, Effect, Kept
<1>14. ASSUME Tick PROVE Effect(b)
    BY <1>14 DEF Tick, books, Effect, Kept
<1>15. ASSUME Gift PROVE Effect(b)
    BY <1>15 DEF Gift, Effect, Kept
<1>16. ASSUME UNCHANGED vars PROVE Effect(b)
    BY <1>16 DEF vars, Effect, Kept
<1> QED BY <1>1, <1>2, <1>3, <1>4, <1>5, <1>6, <1>7, <1>8, <1>9, <1>10, <1>11, <1>12,
           <1>13, <1>14, <1>15, <1>16 DEF Next

-----------------------------------------------------------------------------
(* Safety, bounty by bounty *)

\* Claims stay backed: whatever could release, refund or sweep a bounty asks
\* that no claim record exists, and a claim is opened only on a Locked escrow.
LEMMA ClaimsStayBacked ==
    ASSUME TypeOK, ClaimsAreBacked, [Next]_vars
    PROVE  ClaimsAreBacked'
<1> SUFFICES ASSUME NEW b \in Bounties
             PROVE  /\ claims'[b].status = "Pending" =>
                          escrow'[b].status = "Locked" /\ claims'[b].amount = escrow'[b].remaining
                    /\ claims'[b].status = "Claimed" => escrow'[b].status = "Released"
    BY DEF ClaimsAreBacked
<1>1. escrow[b] \in Escrow /\ claims[b] \in Claim
    BY DEF TypeOK
<1>2. /\ claims[b].status = "Pending" =>
            escrow[b].status = "Locked" /\ claims[b].amount = escrow[b].remaining
      /\ claims[b].status = "Claimed" => escrow[b].status = "Released"
    BY DEF ClaimsAreBacked
<1>3. CASE Kept(b)
    BY <1>2, <1>3 DEF Kept
<1>4. CASE Opened(b)
    BY <1>2, <1>4 DEF Opened
<1>5. CASE ReleasedInFull(b) \/ ReleasedInPart(b) \/ RefundedInPart(b)
    BY <1>5 DEF ReleasedInFull, ReleasedInPart, RefundedInPart, Releasable, Refundable, Undisputed
<1>6. CASE ClaimSet(b)
    BY <1>6 DEF ClaimSet
<1>7. CASE ClaimPaid(b)
    BY <1>1, <1>7 DEF ClaimPaid, Escrow, Claim
<1>8. CASE ClaimDropped(b)
    BY <1>8 DEF ClaimDropped, NoClaim
<1> QED BY EveryStepHasAnEffect, <1>3, <1>4, <1>5, <1>6, <1>7, <1>8 DEF Effect

\* The claim record claim() trusts is always true of the escrow.
THEOREM ClaimsAreAlwaysBacked == Spec => []ClaimsAreBacked
<1>1. Init => ClaimsAreBacked
    BY DEF Init, ClaimsAreBacked, NoClaim
<1>2. TypeOK /\ ClaimsAreBacked /\ [Next]_vars => ClaimsAreBacked'
    BY ClaimsStayBacked
<1> QED BY <1>1, <1>2, TypesAreKept, PTL DEF Spec

\* The refunds of the escrow and of its analytics agree, and a released escrow
\* has none: a release asks for Locked, and a refund leaves that status.
\* Inductive only together with: a bounty that is Locked or not yet opened has
\* no refund.
RefundsAreRecorded ==
    \A b \in Bounties :
        /\ escrow[b].refunded = analytics[b].refunded
        /\ escrow[b].status \in {"None", "Locked", "Released"} => escrow[b].refunded = 0
        /\ escrow[b].status = "PartiallyRefunded" => escrow[b].refunded > 0

\* Every operation writes what an escrow was refunded into its analytics, and moves its status with it.
LEMMA RefundsStayRecorded ==
    ASSUME TypeOK, ClaimsAreBacked, RefundsAreRecorded, [Next]_vars
    PROVE  RefundsAreRecorded'
<1> SUFFICES ASSUME NEW b \in Bounties
             PROVE  /\ escrow'[b].refunded = analytics'[b].refunded
                    /\ escrow'[b].status \in {"None", "Locked", "Released"} =>
                          escrow'[b].refunded = 0
                    /\ escrow'[b].status = "PartiallyRefunded" => escrow'[b].refunded > 0
    BY DEF RefundsAreRecorded
<1>1. escrow[b] \in Escrow /\ analytics[b] \in Analytics
    BY DEF TypeOK
<1>2. /\ escrow[b].refunded = analytics[b].refunded
      /\ escrow[b].status \in {"None", "Locked", "Released"} => escrow[b].refunded = 0
      /\ escrow[b].status = "PartiallyRefunded" => escrow[b].refunded > 0
    BY DEF RefundsAreRecorded
<1>3. CASE Kept(b) \/ ClaimSet(b) \/ ClaimDropped(b)
    BY <1>2, <1>3 DEF Kept, ClaimSet, ClaimDropped
<1>4. CASE Opened(b)
    BY <1>4 DEF Opened
<1>5. CASE ReleasedInFull(b)
    BY <1>1, <1>2, <1>5 DEF ReleasedInFull, Releasable, OnRelease, Escrow
<1>6. CASE ReleasedInPart(b)
    BY <1>1, <1>2, <1>6 DEF ReleasedInPart, Releasable, OnRelease, Escrow
<1>7. CASE ClaimPaid(b)
  <2>1. escrow[b].status = "Locked"
      BY <1>7 DEF ClaimPaid, ClaimsAreBacked
  <2> QED BY <1>1, <1>2, <1>7, <2>1 DEF ClaimPaid, Escrow
<1>8. CASE RefundedInPart(b)
  <2> PICK x \in 1 .. escrow[b].remaining, status \in {"PartiallyRefunded", "Refunded"} :
          /\ escrow'[b] = [escrow[b] EXCEPT !.remaining = escrow[b].remaining - x,
                                            !.refunded = escrow[b].refunded + x,
                                            !.status = status]
          /\ analytics'[b] = OnRefund(analytics[b], x)
      BY <1>8 DEF RefundedInPart
  <2>1. escrow'[b].refunded = escrow[b].refunded + x /\ escrow'[b].status = status
      BY <1>1 DEF Escrow
  <2>2. analytics'[b].refunded = analytics[b].refunded + x
      BY DEF OnRefund
  <2>3. x \in Nat /\ x > 0 /\ escrow[b].refunded \in Nat
      BY <1>1 DEF Escrow
  <2> QED BY <1>2, <2>1, <2>2, <2>3
<1> QED BY EveryStepHasAnEffect, <1>3, <1>4, <1>5, <1>6, <1>7, <1>8 DEF Effect

\* No bounty is both refunded and released: the first refund, partial or not,
\* closes every way of paying the rest to a contributor.
THEOREM NeverReleasedAfterRefund == Spec => []NoReleaseAfterRefund
<1>1. Init => RefundsAreRecorded
    BY DEF Init, RefundsAreRecorded, NoEscrow, NoAnalytics
<1>2. TypeOK /\ ClaimsAreBacked /\ RefundsAreRecorded /\ [Next]_vars => RefundsAreRecorded'
    BY RefundsStayRecorded
<1>3. RefundsAreRecorded => NoReleaseAfterRefund
    BY DEF RefundsAreRecorded, NoReleaseAfterRefund
<1> QED BY <1>1, <1>2, <1>3, TypesAreKept, ClaimsAreAlwaysBacked, PTL DEF Spec

-----------------------------------------------------------------------------
(* The books of one bounty *)

\* What the contract has paid for a bounty is a number, and so is each part.
LEMMA PaymentsAreNumbers ==
    ASSUME TypeOK, NEW b \in Bounties
    PROVE  /\ escrow[b] \in Escrow /\ claims[b] \in Claim /\ analytics[b] \in Analytics
           /\ analytics[b].released \in Nat /\ analytics[b].refunded \in Nat
           /\ Claimed(b) \in Nat /\ PaidOut(b) \in Nat
           /\ escrow[b].amount \in Nat /\ escrow[b].remaining \in Nat
<1>1. escrow[b] \in Escrow /\ claims[b] \in Claim /\ analytics[b] \in Analytics
    BY DEF TypeOK
<1>2. analytics[b].released \in Nat /\ analytics[b].refunded \in Nat
    BY <1>1 DEF Analytics
<1>3. Claimed(b) \in Nat
    BY <1>1 DEF Claim, Claimed
<1>4. escrow[b].amount \in Nat /\ escrow[b].remaining \in Nat
    BY <1>1 DEF Escrow
<1> QED BY <1>1, <1>2, <1>3, <1>4 DEF PaidOut

\* The books of each bounty stay balanced.  A full release pays the amount first
\* locked, so what it pays beyond the remaining amount is bounded by what the
\* partial releases had paid: by the amount itself.
LEMMA BooksStayBalanced ==
    ASSUME TypeOK, ClaimsAreBacked, BooksBalance, [Next]_vars
    PROVE  BooksBalance'
<1> SUFFICES ASSUME NEW b \in Bounties
             PROVE  IF escrow'[b].status = "Released"
                    THEN PaidOut(b)' \in escrow'[b].amount .. 2 * escrow'[b].amount
                    ELSE escrow'[b].remaining = escrow'[b].amount - PaidOut(b)'
    BY DEF BooksBalance
<1>1. /\ escrow[b] \in Escrow /\ claims[b] \in Claim /\ analytics[b] \in Analytics
      /\ analytics[b].released \in Nat /\ analytics[b].refunded \in Nat
      /\ Claimed(b) \in Nat /\ PaidOut(b) \in Nat
      /\ escrow[b].amount \in Nat /\ escrow[b].remaining \in Nat
    BY PaymentsAreNumbers
<1>2. IF escrow[b].status = "Released"
      THEN PaidOut(b) \in escrow[b].amount .. 2 * escrow[b].amount
      ELSE escrow[b].remaining = escrow[b].amount - PaidOut(b)
    BY DEF BooksBalance
<1>3. /\ PaidOut(b) = analytics[b].released + analytics[b].refunded + Claimed(b)
      /\ PaidOut(b)' = analytics'[b].released + analytics'[b].refunded + Claimed(b)'
    BY DEF PaidOut
<1>4. /\ claims[b].status = "Pending" =>
            escrow[b].status = "Locked" /\ claims[b].amount = escrow[b].remaining
      /\ claims[b].status = "Claimed" => escrow[b].status = "Released"
    BY DEF ClaimsAreBacked
<1>5. CASE Kept(b)
  <2>1. Claimed(b)' = Claimed(b)
      BY <1>5 DEF Kept, Claimed
  <2> QED BY <1>2, <1>3, <1>5, <2>1 DEF Kept
<1>6. CASE Opened(b)
  <2>1. claims'[b].status # "Claimed"
      BY <1>4, <1>6 DEF Opened
  <2>2. Claimed(b)' = 0
      BY <2>1 DEF Claimed
  <2>3. PICK x \in Nat : escrow'[b].status = "Locked" /\ escrow'[b].amount = x
                         /\ escrow'[b].remaining = x
      BY <1>6 DEF Opened
  <2>4. analytics'[b].released = 0 /\ analytics'[b].refunded = 0
      BY <1>6 DEF Opened
  <2> QED BY <1>3, <2>2, <2>3, <2>4
<1>7. CASE ReleasedInFull(b)
  <2>1. /\ Claimed(b)' = Claimed(b)
        /\ escrow[b].status = "Locked"
      BY <1>7 DEF ReleasedInFull, Releasable, Claimed
  <2>2. escrow'[b].status = "Released" /\ escrow'[b].amount = escrow[b].amount
      BY <1>1, <1>7 DEF ReleasedInFull, Escrow
  <2>3. /\ analytics'[b].released = analytics[b].released + escrow[b].amount
        /\ analytics'[b].refunded = analytics[b].refunded
      BY <1>7 DEF ReleasedInFull, OnRelease
  <2>4. PaidOut(b)' = PaidOut(b) + escrow[b].amount
      BY <1>1, <1>3, <2>1, <2>3
  <2>5. escrow[b].remaining = escrow[b].amount - PaidOut(b)
      BY <1>2, <2>1
  <2> QED BY <1>1, <2>2, <2>4, <2>5
<1>8. CASE ReleasedInPart(b)
  <2> PICK payout \in 1 .. escrow[b].remaining :
          /\ escrow'[b] = [escrow[b] EXCEPT
                             !.remaining = escrow[b].remaining - payout,
                             !.status = IF escrow[b].remaining - payout = 0
                                        THEN "Released" ELSE escrow[b].status]
          /\ analytics'[b] = OnRelease(analytics[b], payout)
      BY <1>8 DEF ReleasedInPart
  <2>1. Claimed(b)' = Claimed(b) /\ escrow[b].status = "Locked"
      BY <1>8 DEF ReleasedInPart, Releasable, Claimed
  <2>2. /\ escrow'[b].amount = escrow[b].amount
        /\ escrow'[b].remaining = escrow[b].remaining - payout
        /\ escrow'[b].status = IF escrow[b].remaining - payout = 0 THEN "Released" ELSE "Locked"
      BY <1>1, <2>1 DEF Escrow
  <2>3. /\ analytics'[b].released = analytics[b].released + payout
        /\ analytics'[b].refunded = analytics[b].refunded
      BY DEF OnRelease
  <2>4. PaidOut(b)' = PaidOut(b) + payout
      BY <1>1, <1>3, <2>1, <2>3
  <2>5. escrow[b].remaining = escrow[b].amount - PaidOut(b)
      BY <1>2, <2>1
  <2> QED BY <1>1, <2>2, <2>4, <2>5
<1>9. CASE ClaimSet(b) \/ ClaimDropped(b)
  <2>1. escrow[b].status = "Locked"
      BY <1>4, <1>9 DEF ClaimSet, ClaimDropped
  <2>2. Claimed(b) = 0
      BY <1>4, <2>1 DEF Claimed
  <2>3. claims'[b].status # "Claimed"
      BY <1>9 DEF ClaimSet, ClaimDropped, NoClaim
  <2>4. Claimed(b)' = 0
      BY <2>3 DEF Claimed
  <2>5. escrow'[b] = escrow[b] /\ analytics'[b] = analytics[b]
      BY <1>9 DEF ClaimSet, ClaimDropped
  <2> QED BY <1>2, <1>3, <2>2, <2>4, <2>5
<1>10. CASE ClaimPaid(b)
  <2>1. /\ escrow[b].status = "Locked" /\ claims[b].amount = escrow[b].remaining
        /\ Claimed(b) = 0
      BY <1>4, <1>10 DEF ClaimPaid, Claimed
  <2>2. claims'[b].status = "Claimed" /\ claims'[b].amount = claims[b].amount
      BY <1>1, <1>10 DEF ClaimPaid, Claim
  <2>3. Claimed(b)' = escrow[b].remaining
      BY <2>1, <2>2 DEF Claimed
  <2>4. escrow'[b].status = "Released" /\ escrow'[b].amount = escrow[b].amount
      BY <1>1, <1>10 DEF ClaimPaid, Escrow
  <2>5. analytics'[b] = analytics[b]
      BY <1>10 DEF ClaimPaid
  <2>6. PaidOut(b)' = PaidOut(b) + escrow[b].remaining
      BY <1>1, <1>3, <2>1, <2>3, <2>5
  <2>7. escrow[b].remaining = escrow[b].amount - PaidOut(b)
      BY <1>2, <2>1
  <2> QED BY <1>1, <2>4, <2>6, <2>7
<1>11. CASE RefundedInPart(b)
  <2> PICK x \in 1 .. escrow[b].remaining, status \in {"PartiallyRefunded", "Refunded"} :
          /\ escrow'[b] = [escrow[b] EXCEPT !.remaining = escrow[b].remaining - x,
                                            !.refunded = escrow[b].refunded + x,
                                            !.status = status]
          /\ analytics'[b] = OnRefund(analytics[b], x)
      BY <1>11 DEF RefundedInPart
  <2>1. Claimed(b)' = Claimed(b) /\ escrow[b].status \in Active
      BY <1>11 DEF RefundedInPart, Refundable, Claimed
  <2>2. /\ escrow'[b].amount = escrow[b].amount
        /\ escrow'[b].remaining = escrow[b].remaining - x
        /\ escrow'[b].status = status
      BY <1>1 DEF Escrow
  <2>3. /\ analytics'[b].released = analytics[b].released
        /\ analytics'[b].refunded = analytics[b].refunded + x
      BY DEF OnRefund
  <2>4. PaidOut(b)' = PaidOut(b) + x
      BY <1>1, <1>3, <2>1, <2>3
  <2>5. escrow[b].remaining = escrow[b].amount - PaidOut(b)
      BY <1>2, <2>1 DEF Active
  <2> QED BY <1>1, <2>2, <2>4, <2>5
<1> QED BY EveryStepHasAnEffect, <1>5, <1>6, <1>7, <1>8, <1>9, <1>10, <1>11 DEF Effect

\* Until a bounty is released its remaining amount is exactly what was locked
\* less what was paid; released, it paid its amount at least and twice at most.
THEOREM BooksAlwaysBalance == Spec => []BooksBalance
<1>1. Init => BooksBalance
  <2> SUFFICES ASSUME Init, NEW b \in Bounties
               PROVE  /\ escrow[b].status # "Released"
                      /\ escrow[b].remaining = escrow[b].amount - PaidOut(b)
      BY DEF BooksBalance
  <2>1. escrow[b] = NoEscrow /\ claims[b] = NoClaim /\ analytics[b] = NoAnalytics
      BY DEF Init
  <2>2. PaidOut(b) = 0
      BY <2>1 DEF PaidOut, Claimed, NoClaim, NoAnalytics
  <2> QED BY <2>1, <2>2 DEF NoEscrow
<1>2. TypeOK /\ ClaimsAreBacked /\ BooksBalance /\ [Next]_vars => BooksBalance'
    BY BooksStayBalanced
<1> QED BY <1>1, <1>2, TypesAreKept, ClaimsAreAlwaysBacked, PTL DEF Spec

-----------------------------------------------------------------------------
(* What a step may never do *)

\* Settled bounties stay as they are, because every kind of step but keeping
\* asks for a status that is not settled, the claim through its record.
LEMMA SettledStays ==
    ASSUME TypeOK, ClaimsAreBacked, [Next]_vars, NEW b \in Bounties,
           escrow[b].status \in Settled
    PROVE  escrow'[b] = escrow[b] /\ PaidOut(b)' = PaidOut(b)
<1>1. escrow[b].status \notin Active /\ escrow[b].status # "None"
    BY DEF Settled, Active
<1>2. claims[b].status # "Pending"
    BY <1>1 DEF ClaimsAreBacked, Active
<1>3. Kept(b)
    BY EveryStepHasAnEffect, <1>1, <1>2
       DEF Effect, Opened, ReleasedInFull, ReleasedInPart, ClaimSet, ClaimPaid, ClaimDropped,
           RefundedInPart, Releasable, Refundable, Active
<1> QED BY <1>3 DEF Kept, PaidOut, Claimed

\* A settled bounty is never paid, refunded, claimed or reopened again.
THEOREM SettledIsAlwaysFinal == Spec => SettledIsFinal
<1>1. TypeOK /\ ClaimsAreBacked /\ [Next]_vars =>
          [\A b \in Bounties : escrow[b].status \in Settled =>
               escrow'[b] = escrow[b] /\ PaidOut(b)' = PaidOut(b)]_vars
    BY SettledStays
<1> QED BY <1>1, TypesAreKept, ClaimsAreAlwaysBacked, PTL DEF Spec, SettledIsFinal

\* While a claim is pending nothing but the claim moves the bounty's money.
THEOREM ClaimsAlwaysFreeze == Spec => ClaimFreezesBounty
<1>1. ASSUME TypeOK, ClaimsAreBacked, [Next]_vars, NEW b \in Bounties,
             claims[b].status = "Pending", escrow'[b] # escrow[b]
      PROVE  claims'[b].status = "Claimed"
  <2>1. claims[b] \in Claim
      BY <1>1 DEF TypeOK
  <2>2. escrow[b].status = "Locked"
      BY <1>1 DEF ClaimsAreBacked
  <2>3. ClaimPaid(b)
      BY EveryStepHasAnEffect, <1>1, <2>2
         DEF Effect, Kept, Opened, ReleasedInFull, ReleasedInPart, ClaimSet, ClaimDropped,
             RefundedInPart, Releasable, Refundable, Undisputed
  <2> QED BY <2>1, <2>3 DEF ClaimPaid, Claim
<1>2. TypeOK /\ ClaimsAreBacked /\ [Next]_vars =>
          [\A b \in Bounties : claims[b].status = "Pending" /\ escrow'[b] # escrow[b] =>
               claims'[b].status = "Claimed"]_vars
    BY <1>1
<1> QED BY <1>2, TypesAreKept, ClaimsAreAlwaysBacked, PTL DEF Spec, ClaimFreezesBounty

-----------------------------------------------------------------------------
(* Which call moves a part of a bounty *)

\* A bounty changes by a lock, a full payment, or the three calls that move
\* what remains of it.
LEMMA WhoMovesABounty ==
    ASSUME TypeOK, [Next]_vars, NEW b \in Bounties, escrow'[b] # escrow[b]
    PROVE  \/ escrow[b].status = "None" /\ escrow'[b].refunded = 0
           \/ escrow'[b].status = "Released" /\ escrow'[b].refunded = escrow[b].refunded
           \/ PartialRelease(b) \/ Refund(b)
           \/ \E S \in SUBSET Bounties : b \in S /\ SweepExpiredRefunds(S)
<1> DEFINE Goal == \/ escrow[b].status = "None" /\ escrow'[b].refunded = 0
                   \/ escrow'[b].status = "Released" /\ escrow'[b].refunded = escrow[b].refunded
                   \/ PartialRelease(b) \/ Refund(b)
                   \/ \E S \in SUBSET Bounties : b \in S /\ SweepExpiredRefunds(S)
<1>0. escrow \in [Bounties -> Escrow] /\ escrow[b] \in Escrow
    BY DEF TypeOK
<1>1. ASSUME NEW S \in SUBSET Bounties, NEW amount, NEW deadline, Lock(S, amount, deadline)
      PROVE  Goal
  <2>1. /\ \A c \in S : escrow[c].status = "None"
        /\ escrow'[b] = IF b \in S
                        THEN [status |-> "Locked", amount |-> amount[b],
                              remaining |-> amount[b], refunded |-> 0,
                              deadline |-> deadline[b]]
                        ELSE escrow[b]
      BY <1>1 DEF Lock
  <2>2. b \in S /\ escrow'[b].refunded = 0
      BY <2>1
  <2> QED BY <2>1, <2>2
<1>2. ASSUME NEW S \in SUBSET Bounties, PayInFull(S)
      PROVE  Goal
  <2>1. escrow'[b] = IF b \in S
                     THEN [escrow[b] EXCEPT !.status = "Released", !.remaining = 0]
                     ELSE escrow[b]
      BY <1>2 DEF PayInFull
  <2> QED BY <1>0, <2>1 DEF Escrow
<1>3. ASSUME NEW c \in Bounties, PartialRelease(c) \/ Refund(c)
      PROVE  Goal
  <2>1. c = b
    <3>1. ASSUME c # b, PartialRelease(c) PROVE FALSE
        BY <1>0, <3>1 DEF PartialRelease
    <3>2. ASSUME c # b, Refund(c) PROVE FALSE
        BY <1>0, <3>2 DEF Refund
    <3> QED BY <1>3, <3>1, <3>2
  <2> QED BY <1>3, <2>1
<1>4. ASSUME NEW c \in Bounties, ClaimFunds(c)
      PROVE  Goal
  <2>1. escrow' = [escrow EXCEPT ![c].status = "Released", ![c].remaining = 0]
      BY <1>4 DEF ClaimFunds
  <2>2. c = b
      BY <1>0, <2>1
  <2> QED BY <1>0, <2>1, <2>2 DEF Escrow
<1>5. ASSUME NEW S \in SUBSET Bounties, SweepExpiredRefunds(S)
      PROVE  Goal
  <2>1. b \in S
      BY <1>5 DEF SweepExpiredRefunds
  <2> QED BY <1>5, <2>1
<1>6. ASSUME NEW c \in Bounties, LockFunds(c) \/ ReleaseFunds(c)
      PROVE  Goal
  <2>1. {c} \in SUBSET Bounties
      OBVIOUS
  <2> HIDE DEF Goal
  <2> QED BY <1>1, <1>2, <1>6, <2>1 DEF LockFunds, ReleaseFunds
<1>7. ASSUME NEW S \in SUBSET Bounties, BatchLockFunds(S) \/ BatchReleaseFunds(S)
      PROVE  Goal
  <2> HIDE DEF Goal
  <2> QED BY <1>1, <1>2, <1>7 DEF BatchLockFunds, BatchReleaseFunds
<1>8. ASSUME NEW c \in Bounties,
             \/ AuthorizeClaim(c) \/ CancelPendingClaim(c) \/ ApproveRefund(c)
             \/ \E s \in Signers : ApproveLargeRelease(c, s)
      PROVE  Goal
    BY <1>8 DEF AuthorizeClaim, CancelPendingClaim, ApproveRefund, ApproveLargeRelease, books
<1>9. ASSUME Configure \/ Gift \/ Tick \/ UNCHANGED vars
      PROVE  Goal
    BY <1>9 DEF Configure, UpdateMultisigConfig, SetAmountPolicy, SetClaimWindow, SetPaused,
                SetEmergencyPause, GovernanceChange, Gift, Tick, books, vars
<1> QED BY <1>3, <1>4, <1>5, <1>6, <1>7, <1>8, <1>9 DEF Next

\* What PartsNeedQuorum and EarlyRefundsAreApproved say of one step
PartNeedsQuorum(b) ==
    /\ escrow[b].status = "Locked" /\ escrow[b].amount >= multisig.threshold
    /\ escrow'[b].status = "Locked" /\ escrow'[b].remaining < escrow[b].remaining
    => /\ Cardinality(releaseApproval[b]) >= multisig.required
       /\ releaseApproval[b] # {}
       /\ releaseApproval'[b] = {}

EarlyRefundIsApproved(b) ==
    escrow'[b].refunded > escrow[b].refunded /\ now < escrow[b].deadline =>
        /\ refundApproval[b].mode # "None"
        /\ escrow'[b].refunded - escrow[b].refunded = refundApproval[b].amount

\* A part is paid by partial_release only, which asks for the quorum.
LEMMA PartsStayApproved ==
    ASSUME TypeOK, [Next]_vars, NEW b \in Bounties
    PROVE  PartNeedsQuorum(b)
<1> SUFFICES ASSUME escrow[b].status = "Locked", escrow[b].amount >= multisig.threshold,
                    escrow'[b].status = "Locked", escrow'[b].remaining < escrow[b].remaining
             PROVE  /\ Cardinality(releaseApproval[b]) >= multisig.required
                    /\ releaseApproval[b] # {}
                    /\ releaseApproval'[b] = {}
    BY DEF PartNeedsQuorum
<1>1. escrow \in [Bounties -> Escrow] /\ escrow[b] \in Escrow /\ escrow[b].remaining \in Nat
      /\ escrow[b].amount \in Nat /\ multisig.threshold \in Int
      /\ releaseApproval \in [Bounties -> SUBSET Signers]
    BY PaymentsAreNumbers DEF TypeOK, MultisigConfig
<1>2. escrow'[b] # escrow[b]
    BY <1>1
<1>3. ~Refund(b)
  <2>1. ASSUME Refund(b)
        PROVE  escrow'[b].status \in {"Refunded", "PartiallyRefunded"}
      BY <1>1, <2>1 DEF Refund, Escrow
  <2> QED BY <2>1
<1>4. ASSUME NEW S \in SUBSET Bounties, b \in S, SweepExpiredRefunds(S)
      PROVE  FALSE
  <2>1. escrow'[b].status = "Refunded"
      BY <1>1, <1>4 DEF SweepExpiredRefunds, Escrow
  <2> QED BY <2>1
<1>5. PartialRelease(b)
    BY <1>2, <1>3, <1>4, WhoMovesABounty
<1>6. ReleaseApproved(b) /\ releaseApproval' = [releaseApproval EXCEPT ![b] = {}]
    BY <1>5 DEF PartialRelease
<1> QED BY <1>1, <1>6 DEF ReleaseApproved

\* Before the deadline only refund pays back, and only what was approved.
LEMMA EarlyRefundsStayApproved ==
    ASSUME TypeOK, [Next]_vars, NEW b \in Bounties
    PROVE  EarlyRefundIsApproved(b)
<1> SUFFICES ASSUME escrow'[b].refunded > escrow[b].refunded, now < escrow[b].deadline
             PROVE  /\ refundApproval[b].mode # "None"
                    /\ escrow'[b].refunded - escrow[b].refunded = refundApproval[b].amount
    BY DEF EarlyRefundIsApproved
<1>1. /\ escrow \in [Bounties -> Escrow] /\ escrow[b] \in Escrow
      /\ escrow[b].refunded \in Nat /\ escrow[b].deadline \in Nat /\ now \in Nat
      /\ escrow[b].remaining \in Nat
    BY PaymentsAreNumbers, BoundsAssumption DEF TypeOK, Escrow
<1>2. escrow'[b] # escrow[b]
    BY <1>1
<1>3. ~PartialRelease(b)
  <2>1. ASSUME PartialRelease(b)
        PROVE  escrow'[b].refunded = escrow[b].refunded
      BY <1>1, <2>1 DEF PartialRelease, Escrow
  <2> QED BY <1>1, <2>1
<1>4. ASSUME NEW S \in SUBSET Bounties, b \in S, SweepExpiredRefunds(S)
      PROVE  FALSE
  <2>1. now >= escrow[b].deadline
      BY <1>4 DEF SweepExpiredRefunds, Sweepable
  <2> QED BY <1>1, <2>1
<1>5. Refund(b)
    BY <1>1, <1>2, <1>3, <1>4, WhoMovesABounty
<1>6. RefundAllowed(b) /\ escrow'[b].refunded = escrow[b].refunded + RefundAmount(b)
  <2> DEFINE x == RefundAmount(b)
  <2>1. /\ RefundAllowed(b)
        /\ escrow' = [escrow EXCEPT
                        ![b].remaining = @ - x,
                        ![b].refunded = @ + x,
                        ![b].status = IF RefundCloses(b) THEN "Refunded" ELSE "PartiallyRefunded"]
      BY <1>5 DEF Refund
  <2> HIDE DEF x
  <2>2. escrow'[b].refunded = escrow[b].refunded + x
      BY <1>1, <2>1 DEF Escrow
  <2> QED BY <2>1, <2>2 DEF x
<1>7. refundApproval[b].mode # "None"
    BY <1>1, <1>6 DEF RefundAllowed
<1>8. RefundAmount(b) = refundApproval[b].amount /\ RefundAmount(b) \in Nat
  <2>1. RefundAmount(b) \in 1 .. escrow[b].remaining
      BY <1>6 DEF RefundAllowed
  <2> QED BY <1>1, <1>7, <2>1 DEF RefundAmount
<1> QED BY <1>1, <1>6, <1>7, <1>8

\* A large bounty cannot be split past the signers: every part that is paid
\* had a quorum of its own, which the payment used up.
THEOREM PartsAlwaysNeedQuorum == Spec => PartsNeedQuorum
<1>1. TypeOK /\ [Next]_vars => [\A b \in Bounties : PartNeedsQuorum(b)]_vars
    BY PartsStayApproved
<1> QED BY <1>1, TypesAreKept, PTL DEF Spec, PartsNeedQuorum, PartNeedsQuorum

\* Before the deadline nothing is refunded but what the admin approved.
THEOREM EarlyRefundsAlwaysApproved == Spec => EarlyRefundsAreApproved
<1>1. TypeOK /\ [Next]_vars => [\A b \in Bounties : EarlyRefundIsApproved(b)]_vars
    BY EarlyRefundsStayApproved
<1> QED BY <1>1, TypesAreKept, PTL DEF Spec, EarlyRefundsAreApproved, EarlyRefundIsApproved

-----------------------------------------------------------------------------
(* Every call is, for every bounty, a step of its lifecycle *)

\* The accounts are accounts, in every state of the right type.
LEMMA AccountsAreTyped == TypeOK => Accounts \in [Bounties -> Lifecycle!Account]
<1> SUFFICES ASSUME TypeOK, NEW b \in Bounties
             PROVE  [status |-> escrow[b].status,
                     owed |-> escrow[b].remaining,
                     paid |-> analytics[b].released + Claimed(b),
                     refunded |-> escrow[b].refunded,
                     claim |-> claims[b].status] \in Lifecycle!Account
    BY DEF Accounts
<1>1. escrow[b] \in Escrow /\ claims[b] \in Claim
    BY PaymentsAreNumbers
<1>2. escrow[b].status \in {"None", "Locked", "PartiallyRefunded", "Released", "Refunded"}
    BY <1>1 DEF Escrow, Active, Settled
<1>3. escrow[b].remaining \in Nat /\ escrow[b].refunded \in Nat
    BY <1>1 DEF Escrow
<1>4. claims[b].status \in {"None", "Pending", "Claimed"}
    BY <1>1 DEF Claim
<1>5. analytics[b].released + Claimed(b) \in Nat
    BY PaymentsAreNumbers
<1> QED BY <1>2, <1>3, <1>4, <1>5 DEF Lifecycle!Account

\* A full release pays at least what is owed, as no bounty owes more than was
\* locked for it.
LEMMA OwedIsBounded ==
    ASSUME TypeOK, BooksBalance, NEW b \in Bounties, escrow[b].status # "Released"
    PROVE  escrow[b].remaining <= escrow[b].amount
BY PaymentsAreNumbers DEF BooksBalance

\* Each kind of step of a bounty is a step of its account.
LEMMA EffectIsLifecycleStep ==
    ASSUME TypeOK, TypeOK', ClaimsAreBacked, BooksBalance,
           NEW b \in Bounties, Effect(b)
    PROVE  Lifecycle!Step(Accounts[b], Accounts'[b])
<1> DEFINE a == Accounts[b]
           new == Accounts'[b]
<1> SUFFICES Lifecycle!Step(a, new)
    OBVIOUS
<1>1. /\ a = [status |-> escrow[b].status, owed |-> escrow[b].remaining,
              paid |-> analytics[b].released + Claimed(b),
              refunded |-> escrow[b].refunded, claim |-> claims[b].status]
      /\ new = [status |-> escrow'[b].status, owed |-> escrow'[b].remaining,
                paid |-> analytics'[b].released + Claimed(b)',
                refunded |-> escrow'[b].refunded, claim |-> claims'[b].status]
    BY DEF Accounts
<1>0. a \in Lifecycle!Account /\ new \in Lifecycle!Account
  <2>1. Accounts \in [Bounties -> Lifecycle!Account]
      BY AccountsAreTyped
  <2>2. (TypeOK => Accounts \in [Bounties -> Lifecycle!Account])'
      BY AccountsAreTyped, PTL
  <2> QED BY <2>1, <2>2
<1> HIDE DEF a, new
<1>2. /\ escrow[b] \in Escrow /\ claims[b] \in Claim /\ analytics[b] \in Analytics
      /\ analytics[b].released \in Nat /\ Claimed(b) \in Nat
      /\ escrow[b].amount \in Nat /\ escrow[b].remaining \in Nat
    BY PaymentsAreNumbers
<1>3. /\ claims[b].status = "Pending" =>
            escrow[b].status = "Locked" /\ claims[b].amount = escrow[b].remaining
      /\ claims[b].status = "Claimed" => escrow[b].status = "Released"
    BY DEF ClaimsAreBacked
<1>4. claims[b].status \in {"None", "Pending", "Claimed"}
    BY <1>2 DEF Claim
<1>5. claims[b].status # "Claimed" => Claimed(b) = 0
    BY DEF Claimed
<1>6. claims'[b] = claims[b] => Claimed(b)' = Claimed(b)
    BY DEF Claimed
<1>7. CASE Kept(b)
  <2>1. new = a
      BY <1>1, <1>6, <1>7 DEF Kept
  <2> QED BY <2>1 DEF Lifecycle!Step
<1>8. CASE Opened(b)
  <2>1. claims[b].status = "None" /\ Claimed(b)' = 0
      BY <1>3, <1>4, <1>5, <1>6, <1>8 DEF Opened
  <2>2. /\ escrow'[b].status = "Locked" /\ escrow'[b].refunded = 0
        /\ analytics'[b].released = 0 /\ claims'[b].status = "None"
      BY <1>8, <2>1 DEF Opened
  <2>3. new = [Lifecycle!Unused EXCEPT !.status = "Locked", !.owed = new.owed]
    <3>1. /\ new.status = "Locked" /\ new.paid = 0 /\ new.refunded = 0 /\ new.claim = "None"
        BY <1>1, <2>1, <2>2
    <3>2. /\ Lifecycle!Unused \in Lifecycle!Account
          /\ Lifecycle!Unused.paid = 0 /\ Lifecycle!Unused.refunded = 0
          /\ Lifecycle!Unused.claim = "None"
        BY DEF Lifecycle!Unused, Lifecycle!Account
    <3> QED BY <1>0, <3>1, <3>2 DEF Lifecycle!Account
  <2>4. a.status = "None"
      BY <1>1, <1>8 DEF Opened
  <2> QED BY <2>3, <2>4 DEF Lifecycle!Step, Lifecycle!Fund
<1>9. CASE ReleasedInFull(b)
  <2>1. escrow[b].status = "Locked" /\ claims[b].status = "None" /\ claims'[b] = claims[b]
      BY <1>9 DEF ReleasedInFull, Releasable, Undisputed
  <2>2. /\ escrow'[b].status = "Released" /\ escrow'[b].remaining = 0
        /\ escrow'[b].refunded = escrow[b].refunded
      BY <1>2, <1>9 DEF ReleasedInFull, Escrow
  <2>3. analytics'[b].released = analytics[b].released + escrow[b].amount
      BY <1>9 DEF ReleasedInFull, OnRelease
  <2>4. escrow[b].remaining <= escrow[b].amount
      BY OwedIsBounded, <2>1
  <2>5. new.paid >= a.paid + a.owed
      BY <1>1, <1>2, <1>6, <2>1, <2>3, <2>4
  <2>6. new = [a EXCEPT !.owed = 0, !.paid = new.paid, !.status = "Released"]
    <3>1. /\ new.status = "Released" /\ new.owed = 0
          /\ new.refunded = a.refunded /\ new.claim = a.claim
        BY <1>1, <2>1, <2>2
    <3> QED BY <1>0, <3>1 DEF Lifecycle!Account
  <2> QED BY <1>1, <2>1, <2>5, <2>6 DEF Lifecycle!Step, Lifecycle!PayOff
<1>10. CASE ReleasedInPart(b)
  <2> PICK payout \in 1 .. escrow[b].remaining :
          /\ escrow'[b] = [escrow[b] EXCEPT
                             !.remaining = escrow[b].remaining - payout,
                             !.status = IF escrow[b].remaining - payout = 0
                                        THEN "Released" ELSE escrow[b].status]
          /\ analytics'[b] = OnRelease(analytics[b], payout)
      BY <1>10 DEF ReleasedInPart
  <2>1. escrow[b].status = "Locked" /\ claims[b].status = "None" /\ claims'[b] = claims[b]
      BY <1>10 DEF ReleasedInPart, Releasable, Undisputed
  <2>2. /\ escrow'[b].status = IF payout = escrow[b].remaining THEN "Released"
                                                               ELSE escrow[b].status
        /\ escrow'[b].remaining = escrow[b].remaining - payout
        /\ escrow'[b].refunded = escrow[b].refunded
      BY <1>2 DEF Escrow
  <2>3. analytics'[b].released + Claimed(b)' = analytics[b].released + Claimed(b) + payout
      BY <1>2, <1>6, <2>1 DEF OnRelease
  <2>4. new = [a EXCEPT !.owed = a.owed - payout, !.paid = a.paid + payout,
                        !.status = IF payout = a.owed THEN "Released" ELSE a.status]
    <3>1. /\ new.status = IF payout = a.owed THEN "Released" ELSE a.status
          /\ new.owed = a.owed - payout /\ new.paid = a.paid + payout
          /\ new.refunded = a.refunded /\ new.claim = a.claim
        BY <1>1, <2>1, <2>2, <2>3
    <3> QED BY <1>0, <3>1 DEF Lifecycle!Account
  <2>5. a.status = "Locked" /\ a.claim = "None" /\ payout \in 1 .. a.owed
      BY <1>1, <2>1
  <2> QED BY <2>4, <2>5 DEF Lifecycle!Step, Lifecycle!Pay
<1>11. CASE ClaimSet(b) \/ ClaimDropped(b)
  <2>1. escrow[b].status = "Locked" /\ claims[b].status \in {"None", "Pending"}
      BY <1>3, <1>4, <1>11 DEF ClaimSet, ClaimDropped
  <2>2. /\ escrow'[b] = escrow[b] /\ analytics'[b] = analytics[b]
        /\ claims'[b].status \in {"None", "Pending"}
      BY <1>11 DEF ClaimSet, ClaimDropped, NoClaim
  <2>3. Claimed(b)' = 0 /\ Claimed(b) = 0
      BY <2>1, <2>2 DEF Claimed
  <2>4. new = [a EXCEPT !.claim = new.claim]
    <3>1. /\ new.status = a.status /\ new.owed = a.owed /\ new.paid = a.paid
          /\ new.refunded = a.refunded
        BY <1>1, <2>2, <2>3
    <3> QED BY <1>0, <3>1 DEF Lifecycle!Account
  <2>5. a.status = "Locked" /\ a.claim \in {"None", "Pending"} /\ new.claim \in {"None", "Pending"}
      BY <1>1, <2>1, <2>2
  <2> QED BY <2>4, <2>5 DEF Lifecycle!Step, Lifecycle!Reserve
<1>12. CASE ClaimPaid(b)
  <2>1. /\ escrow[b].status = "Locked" /\ claims[b].amount = escrow[b].remaining
        /\ claims[b].status = "Pending" /\ Claimed(b) = 0
      BY <1>3, <1>5, <1>12 DEF ClaimPaid
  <2>2. /\ claims'[b].status = "Claimed" /\ claims'[b].amount = claims[b].amount
        /\ escrow'[b].status = "Released" /\ escrow'[b].remaining = 0
        /\ escrow'[b].refunded = escrow[b].refunded
        /\ analytics'[b] = analytics[b]
      BY <1>2, <1>12 DEF ClaimPaid, Escrow, Claim
  <2>3. Claimed(b)' = escrow[b].remaining
      BY <2>1, <2>2 DEF Claimed
  <2>4. analytics'[b].released + Claimed(b)' = analytics[b].released + Claimed(b) + escrow[b].remaining
      BY <1>2, <2>1, <2>2, <2>3
  <2>5. new = [a EXCEPT !.owed = 0, !.paid = a.paid + a.owed, !.status = "Released",
                        !.claim = "Claimed"]
    <3>1. /\ new.status = "Released" /\ new.owed = 0 /\ new.paid = a.paid + a.owed
          /\ new.refunded = a.refunded /\ new.claim = "Claimed"
        BY <1>1, <2>1, <2>2, <2>4
    <3> QED BY <1>0, <3>1 DEF Lifecycle!Account
  <2>6. a.status = "Locked" /\ a.claim = "Pending"
      BY <1>1, <2>1
  <2> QED BY <2>5, <2>6 DEF Lifecycle!Step, Lifecycle!Collect
<1>13. CASE RefundedInPart(b)
  <2> PICK x \in 1 .. escrow[b].remaining, status \in {"PartiallyRefunded", "Refunded"} :
          /\ escrow'[b] = [escrow[b] EXCEPT !.remaining = escrow[b].remaining - x,
                                            !.refunded = escrow[b].refunded + x,
                                            !.status = status]
          /\ analytics'[b] = OnRefund(analytics[b], x)
      BY <1>13 DEF RefundedInPart
  <2>1. /\ escrow[b].status \in {"Locked", "PartiallyRefunded"}
        /\ claims[b].status = "None" /\ claims'[b] = claims[b]
      BY <1>13 DEF RefundedInPart, Refundable, Undisputed, Active
  <2>2. /\ escrow'[b].status = status
        /\ escrow'[b].remaining = escrow[b].remaining - x
        /\ escrow'[b].refunded = escrow[b].refunded + x
      BY <1>2 DEF Escrow
  <2>3. analytics'[b].released + Claimed(b)' = analytics[b].released + Claimed(b)
      BY <1>6, <2>1 DEF OnRefund
  <2>4. new = [a EXCEPT !.owed = a.owed - x, !.refunded = a.refunded + x, !.status = status]
    <3>1. /\ new.status = status /\ new.owed = a.owed - x /\ new.paid = a.paid
          /\ new.refunded = a.refunded + x /\ new.claim = a.claim
        BY <1>1, <2>1, <2>2, <2>3
    <3> QED BY <1>0, <3>1 DEF Lifecycle!Account
  <2>5. a.status \in {"Locked", "PartiallyRefunded"} /\ a.claim = "None" /\ x \in 1 .. a.owed
      BY <1>1, <2>1
  <2>6. Lifecycle!GiveBack(a, new)
      BY <2>4, <2>5 DEF Lifecycle!GiveBack
  <2> QED BY <2>6 DEF Lifecycle!Step
<1> QED BY <1>7, <1>8, <1>9, <1>10, <1>11, <1>12, <1>13 DEF Effect

\* The contract implements the lifecycle: initial states are initial states of
\* the lifecycle, and every call is a step of it or none.
THEOREM LifecycleIsKept == Spec => KeepsLifecycle
<1>1. Init => Lifecycle!Init
    BY DEF Init, Lifecycle!Init, Lifecycle!Unused, Accounts, Claimed,
           NoEscrow, NoClaim, NoAnalytics
<1>2. TypeOK /\ TypeOK' /\ ClaimsAreBacked /\ BooksBalance /\ [Next]_vars
          => [Lifecycle!Next]_Accounts
  <2> SUFFICES ASSUME TypeOK, TypeOK', ClaimsAreBacked, BooksBalance,
                      [Next]_vars
               PROVE  Lifecycle!Next
      OBVIOUS
  <2>1. Accounts' \in [Bounties -> Lifecycle!Account]
    <3>1. (TypeOK => Accounts \in [Bounties -> Lifecycle!Account])'
        BY AccountsAreTyped, PTL
    <3> QED BY <3>1
  <2>2. \A b \in Bounties : Lifecycle!Step(Accounts[b], Accounts'[b])
      BY EveryStepHasAnEffect, EffectIsLifecycleStep
  <2> QED BY <2>1, <2>2 DEF Lifecycle!Next
<1> QED BY <1>1, <1>2, TypesAreKept, ClaimsAreAlwaysBacked, BooksAlwaysBalance,
           PTL DEF Spec, KeepsLifecycle, Lifecycle!Spec

-----------------------------------------------------------------------------
(* How a call moves money, over all bounties together *)

Deposits == [b \in Bounties |-> escrow[b].amount]
Payouts == [b \in Bounties |-> analytics[b].released + Claimed(b)]
Refunds == [b \in Bounties |-> escrow[b].refunded]

\* The bounties of S gain d
Gains(f, g, S, d) == \A b \in Bounties : g[b] = IF b \in S THEN f[b] + d[b] ELSE f[b]

Deposited(S, d) ==
    /\ Gains(Deposits, Deposits', S, d) /\ Payouts' = Payouts /\ Refunds' = Refunds
    /\ held' = held + Sum(d, S)
    /\ total' = [locked |-> total.locked + Sum(d, S),
                 released |-> total.released, refunded |-> total.refunded]

Paid(S, d) ==
    /\ Deposits' = Deposits /\ Gains(Payouts, Payouts', S, d) /\ Refunds' = Refunds
    /\ TransferOut(Sum(d, S)) /\ TotalReleased(Sum(d, S))

Reimbursed(S, d) ==
    /\ Deposits' = Deposits /\ Payouts' = Payouts /\ Gains(Refunds, Refunds', S, d)
    /\ TransferOut(Sum(d, S)) /\ TotalRefunded(Sum(d, S))

\* A gift moves nothing that the contract keeps a record of
NothingMoved == UNCHANGED <<Deposits, Payouts, Refunds, total>> /\ held' \in {held, held + 1}

MoneyMoves ==
    \/ NothingMoved
    \/ \E S \in SUBSET Bounties : \E d \in [S -> Nat] :
          Deposited(S, d) \/ Paid(S, d) \/ Reimbursed(S, d)

\* What was never locked has no record of any money.
Unopened ==
    \A b \in Bounties : escrow[b].status = "None" => escrow[b] = NoEscrow /\ analytics[b] = NoAnalytics

\* Each of the three functions tells an amount for every bounty.
LEMMA MoneyIsNumbers ==
    ASSUME TypeOK
    PROVE  /\ \A b \in Bounties : Deposits[b] \in Nat /\ Payouts[b] \in Nat /\ Refunds[b] \in Nat
           /\ IsFiniteSet(Bounties)
  BY PaymentsAreNumbers, BountiesAssumption DEF Deposits, Payouts, Refunds, Escrow

\* A call that opens bounties deposits their amounts.
LEMMA LockDeposits ==
    ASSUME TypeOK, Unopened, NEW S \in SUBSET Bounties,
           NEW amount \in [S -> Amounts], NEW deadline, Lock(S, amount, deadline)
    PROVE  MoneyMoves
  <1>1. amount \in [S -> Nat]
    BY AmountsAssumption
  <1>2. ASSUME NEW b \in S
        PROVE  escrow[b] = NoEscrow /\ analytics[b] = NoAnalytics
    BY DEF Lock, Unopened
  <1>3. /\ escrow' = [b \in Bounties |->
                        IF b \in S
                        THEN [status |-> "Locked", amount |-> amount[b],
                              remaining |-> amount[b], refunded |-> 0,
                              deadline |-> deadline[b]]
                        ELSE escrow[b]]
        /\ analytics' = [b \in Bounties |->
                           IF b \in S
                           THEN [released |-> 0, refunded |-> 0, remaining |-> amount[b]]
                           ELSE analytics[b]]
        /\ claims' = claims
    BY DEF Lock
  <1>4. ASSUME NEW b \in Bounties
        PROVE  /\ escrow'[b].amount = IF b \in S THEN escrow[b].amount + amount[b]
                                      ELSE escrow[b].amount
               /\ escrow'[b].refunded = escrow[b].refunded
               /\ analytics'[b].released + Claimed(b)' = analytics[b].released + Claimed(b)
    <2>1. Claimed(b)' = Claimed(b)
      BY <1>3 DEF Claimed
    <2>2. CASE b \in S
      BY <1>1, <1>2, <1>3, <2>1, <2>2 DEF NoEscrow, NoAnalytics
    <2>3. CASE b \notin S
      BY <1>3, <2>1, <2>3
    <2>. QED
      BY <2>2, <2>3
  <1>5. Gains(Deposits, Deposits', S, amount)
    BY <1>4 DEF Gains, Deposits
  <1>6. Payouts' = Payouts /\ Refunds' = Refunds
    BY <1>4 DEF Payouts, Refunds
  <1>7. Deposited(S, amount)
    BY <1>5, <1>6 DEF Deposited, Lock
  <1>. QED
    BY <1>1, <1>7 DEF MoneyMoves

\* A call that pays bounties in full pays each the amount first locked.
LEMMA PayInFullPays ==
    ASSUME TypeOK, NEW S \in SUBSET Bounties, PayInFull(S), claims' = claims
    PROVE  MoneyMoves
  <1>. DEFINE due == [b \in S |-> escrow[b].amount]
  <1>1. due \in [S -> Nat]
    BY PaymentsAreNumbers
  <1>2. /\ escrow' = [b \in Bounties |->
                        IF b \in S
                        THEN [escrow[b] EXCEPT !.status = "Released", !.remaining = 0]
                        ELSE escrow[b]]
        /\ analytics' = [b \in Bounties |->
                           IF b \in S THEN OnRelease(analytics[b], due[b]) ELSE analytics[b]]
        /\ TransferOut(Sum(due, S)) /\ TotalReleased(Sum(due, S))
    BY DEF PayInFull
  <1>3. ASSUME NEW b \in Bounties
        PROVE  /\ escrow'[b].amount = escrow[b].amount /\ escrow'[b].refunded = escrow[b].refunded
               /\ analytics'[b].released + Claimed(b)' =
                     IF b \in S THEN (analytics[b].released + Claimed(b)) + due[b]
                     ELSE analytics[b].released + Claimed(b)
    <2>1. Claimed(b)' = Claimed(b)
      BY DEF Claimed
    <2>2. escrow[b] \in Escrow /\ analytics[b].released \in Nat /\ Claimed(b) \in Nat
      BY PaymentsAreNumbers
    <2>3. escrow'[b].amount = escrow[b].amount /\ escrow'[b].refunded = escrow[b].refunded
      BY <1>2, <2>2 DEF Escrow
    <2>4. CASE b \in S
      <3>1. analytics'[b].released = analytics[b].released + due[b] /\ due[b] \in Nat
        BY <1>1, <1>2, <2>4 DEF OnRelease
      <3>. HIDE DEF due
      <3>. QED
        BY <2>1, <2>2, <2>3, <2>4, <3>1
    <2>5. CASE b \notin S
      BY <1>2, <2>1, <2>3, <2>5
    <2>. QED
      BY <2>4, <2>5
  <1>. HIDE DEF due
  <1>4. Deposits' = Deposits /\ Refunds' = Refunds
    BY <1>3 DEF Deposits, Refunds
  <1>5. Gains(Payouts, Payouts', S, due)
    BY <1>3 DEF Gains, Payouts
  <1>6. Paid(S, due)
    BY <1>2, <1>4, <1>5 DEF Paid
  <1>. QED
    BY <1>1, <1>6 DEF MoneyMoves

\* A payment out of one bounty.
LEMMA OnePayment ==
    ASSUME TypeOK, NEW b \in Bounties, NEW x \in Nat, TransferOut(x), TotalReleased(x),
           \A c \in Bounties :
               /\ escrow'[c].amount = escrow[c].amount /\ escrow'[c].refunded = escrow[c].refunded
               /\ analytics'[c].released + Claimed(c)' =
                     IF c = b THEN (analytics[c].released + Claimed(c)) + x
                     ELSE analytics[c].released + Claimed(c)
    PROVE  MoneyMoves
  <1>. DEFINE d == [c \in {b} |-> x]
  <1>1. d \in [{b} -> Nat] /\ d[b] = x /\ {b} \in SUBSET Bounties
    OBVIOUS
  <1>. HIDE DEF d
  <1>2. Sum(d, {b}) = x
    BY <1>1, SumSingleton
  <1>3. Deposits' = Deposits /\ Refunds' = Refunds
    BY DEF Deposits, Refunds
  <1>4. Gains(Payouts, Payouts', {b}, d)
    BY <1>1 DEF Gains, Payouts
  <1>5. Paid({b}, d)
    BY <1>2, <1>3, <1>4 DEF Paid
  <1>. QED
    BY <1>1, <1>5 DEF MoneyMoves

\* A call that changes nothing of the escrows but what it records as refunded
\* reimburses that much.
LEMMA Reimburses ==
    ASSUME TypeOK, NEW S \in SUBSET Bounties, NEW d \in [S -> Nat],
           TransferOut(Sum(d, S)), TotalRefunded(Sum(d, S)), claims' = claims,
           \A c \in Bounties :
               /\ escrow'[c].amount = escrow[c].amount
               /\ escrow'[c].refunded = IF c \in S THEN escrow[c].refunded + d[c] ELSE escrow[c].refunded
               /\ analytics'[c].released = analytics[c].released
    PROVE  MoneyMoves
  <1>1. Deposits' = Deposits /\ Payouts' = Payouts
    BY DEF Deposits, Payouts, Claimed
  <1>2. Gains(Refunds, Refunds', S, d)
    BY DEF Gains, Refunds
  <1>3. Reimbursed(S, d)
    BY <1>1, <1>2 DEF Reimbursed
  <1>. QED
    BY <1>3 DEF MoneyMoves

\* Every call moves money in one of the three ways, or none.
LEMMA EveryStepMovesMoney ==
    ASSUME TypeOK, ClaimsAreBacked, Unopened, [Next]_vars
    PROVE  MoneyMoves
  <1>0. /\ escrow \in [Bounties -> Escrow]
        /\ claims \in [Bounties -> Claim]
        /\ analytics \in [Bounties -> Analytics]
    BY DEF TypeOK
  <1>1. ASSUME NEW b \in Bounties, LockFunds(b)
        PROVE  MoneyMoves
    BY <1>1, LockDeposits DEF LockFunds
  <1>2. ASSUME NEW b \in Bounties, ReleaseFunds(b)
        PROVE  MoneyMoves
    <2>1. {b} \in SUBSET Bounties /\ PayInFull({b}) /\ claims' = claims
      BY <1>2 DEF ReleaseFunds
    <2>. QED
      BY <2>1, PayInFullPays
  <1>3. ASSUME NEW b \in Bounties, PartialRelease(b)
        PROVE  MoneyMoves
    <2>1. PICK payout \in 1 .. escrow[b].remaining :
             /\ TransferOut(payout) /\ TotalReleased(payout)
             /\ escrow' = [escrow EXCEPT
                             ![b].remaining = escrow[b].remaining - payout,
                             ![b].status = IF escrow[b].remaining - payout = 0 THEN "Released" ELSE @]
             /\ analytics' = [analytics EXCEPT ![b] = OnRelease(@, payout)]
             /\ claims' = claims
      BY <1>3 DEF PartialRelease
    <2>2. payout \in Nat
      BY PaymentsAreNumbers
    <2>3. ASSUME NEW c \in Bounties
          PROVE  /\ escrow'[c].amount = escrow[c].amount
                 /\ escrow'[c].refunded = escrow[c].refunded
                 /\ analytics'[c].released =
                       IF c = b THEN analytics[c].released + payout ELSE analytics[c].released
                 /\ Claimed(c)' = Claimed(c)
      <3>1. escrow'[c].amount = escrow[c].amount /\ escrow'[c].refunded = escrow[c].refunded
        BY <1>0, <2>1 DEF Escrow
      <3>2. analytics'[c].released =
                IF c = b THEN analytics[c].released + payout ELSE analytics[c].released
        BY <1>0, <2>1 DEF OnRelease
      <3>3. Claimed(c)' = Claimed(c)
        BY <2>1 DEF Claimed
      <3>. QED
        BY <3>1, <3>2, <3>3
    <2>4. \A c \in Bounties : analytics[c].released \in Nat /\ Claimed(c) \in Nat
      BY PaymentsAreNumbers
    <2>5. \A c \in Bounties :
              analytics'[c].released + Claimed(c)' =
                  IF c = b THEN (analytics[c].released + Claimed(c)) + payout
                  ELSE analytics[c].released + Claimed(c)
      BY <2>2, <2>3, <2>4
    <2>. QED
      BY <2>1, <2>2, <2>3, <2>5, OnePayment
  <1>4. ASSUME NEW b \in Bounties, AuthorizeClaim(b) \/ CancelPendingClaim(b)
        PROVE  MoneyMoves
    <2>1. /\ UNCHANGED books /\ \A c \in Bounties : Claimed(c) = Claimed(c)'
      <3>1. CASE AuthorizeClaim(b)
        <4>1. /\ claims' = [claims EXCEPT ![b] = [status |-> "Pending",
                                                  amount |-> escrow[b].remaining,
                                                  expires |-> now + claimWindow]]
              /\ escrow[b].status = "Locked" /\ UNCHANGED books
          BY <3>1 DEF AuthorizeClaim, Claimable
        <4>2. claims[b].status # "Claimed"
          BY <4>1 DEF ClaimsAreBacked
        <4>. QED
          BY <1>0, <4>1, <4>2 DEF Claimed
      <3>2. CASE CancelPendingClaim(b)
        BY <1>0, <3>2 DEF CancelPendingClaim, Claimed, NoClaim
      <3>. QED
        BY <1>4, <3>1, <3>2
    <2>. QED
      BY <2>1 DEF books, MoneyMoves, NothingMoved, Deposits, Payouts, Refunds
  <1>5. ASSUME NEW b \in Bounties, ClaimFunds(b)
        PROVE  MoneyMoves
    <2>1. /\ claims[b].status = "Pending"
          /\ TransferOut(claims[b].amount) /\ TotalReleased(claims[b].amount)
          /\ escrow' = [escrow EXCEPT ![b].status = "Released", ![b].remaining = 0]
          /\ claims' = [claims EXCEPT ![b].status = "Claimed"]
          /\ analytics' = analytics
      BY <1>5 DEF ClaimFunds
    <2>2. claims[b].amount \in Nat
      BY <1>0 DEF Claim
    <2>3. ASSUME NEW c \in Bounties
          PROVE  /\ escrow'[c].amount = escrow[c].amount
                 /\ escrow'[c].refunded = escrow[c].refunded
                 /\ Claimed(c)' = IF c = b THEN claims[b].amount ELSE Claimed(c)
                 /\ c = b => Claimed(c) = 0
      <3>1. escrow'[c].amount = escrow[c].amount /\ escrow'[c].refunded = escrow[c].refunded
        BY <1>0, <2>1 DEF Escrow
      <3>2. claims'[c].status = (IF c = b THEN "Claimed" ELSE claims[c].status)
            /\ claims'[c].amount = claims[c].amount
        BY <1>0, <2>1 DEF Claim
      <3>3. Claimed(c)' = IF c = b THEN claims[b].amount ELSE Claimed(c)
        BY <3>2 DEF Claimed
      <3>4. c = b => Claimed(c) = 0
        BY <2>1 DEF Claimed
      <3>. QED
        BY <3>1, <3>3, <3>4
    <2>4. \A c \in Bounties : analytics[c].released \in Nat /\ Claimed(c) \in Nat
      BY PaymentsAreNumbers
    <2>5. \A c \in Bounties :
              analytics'[c].released + Claimed(c)' =
                  IF c = b THEN (analytics[c].released + Claimed(c)) + claims[b].amount
                  ELSE analytics[c].released + Claimed(c)
      BY <2>1, <2>2, <2>3, <2>4
    <2>. QED
      BY <2>1, <2>2, <2>3, <2>5, OnePayment
  <1>6. ASSUME NEW b \in Bounties, Refund(b)
        PROVE  MoneyMoves
    <2>. DEFINE amount == RefundAmount(b)
                d == [c \in {b} |-> amount]
    <2>1. /\ amount \in 1 .. escrow[b].remaining
          /\ TransferOut(amount) /\ TotalRefunded(amount)
          /\ escrow' = [escrow EXCEPT
                          ![b].remaining = @ - amount,
                          ![b].refunded = @ + amount,
                          ![b].status = IF RefundCloses(b) THEN "Refunded" ELSE "PartiallyRefunded"]
          /\ analytics' = [analytics EXCEPT ![b] = OnRefund(@, amount)]
          /\ claims' = claims
      BY <1>6 DEF Refund, RefundAllowed
    <2>. HIDE DEF amount
    <2>2. amount \in Nat
      BY <2>1, PaymentsAreNumbers
    <2>3. d \in [{b} -> Nat] /\ d[b] = amount /\ {b} \in SUBSET Bounties
      BY <2>2
    <2>. HIDE DEF d
    <2>4. Sum(d, {b}) = amount
      BY <2>2, <2>3, SumSingleton
    <2>5. ASSUME NEW c \in Bounties
          PROVE  /\ escrow'[c].amount = escrow[c].amount
                 /\ escrow'[c].refunded =
                       IF c \in {b} THEN escrow[c].refunded + d[c] ELSE escrow[c].refunded
                 /\ analytics'[c].released = analytics[c].released
      <3>1. escrow'[c].amount = escrow[c].amount
        BY <1>0, <2>1 DEF Escrow
      <3>2. escrow'[c].refunded = IF c = b THEN escrow[c].refunded + amount ELSE escrow[c].refunded
        BY <1>0, <2>1 DEF Escrow
      <3>3. analytics'[c].released = analytics[c].released
        BY <1>0, <2>1 DEF OnRefund
      <3>. QED
        BY <2>3, <3>1, <3>2, <3>3
    <2>6. TransferOut(Sum(d, {b})) /\ TotalRefunded(Sum(d, {b})) /\ claims' = claims
      BY <2>1, <2>4
    <2>. QED
      BY <2>3, <2>5, <2>6, Reimburses
  <1>7. ASSUME NEW S \in SUBSET Bounties, BatchLockFunds(S)
        PROVE  MoneyMoves
    <2>1. PICK amount \in [S -> Amounts \ {0}], deadline \in [S -> 1 .. MaxTime] :
             Lock(S, amount, deadline)
      BY <1>7 DEF BatchLockFunds
    <2>2. amount \in [S -> Amounts]
      OBVIOUS
    <2>. QED
      BY <2>1, <2>2, LockDeposits
  <1>8. ASSUME NEW S \in SUBSET Bounties, BatchReleaseFunds(S)
        PROVE  MoneyMoves
    BY <1>8, PayInFullPays DEF BatchReleaseFunds
  <1>9. ASSUME NEW S \in SUBSET Bounties, SweepExpiredRefunds(S)
        PROVE  MoneyMoves
    <2>. DEFINE due == [b \in S |-> escrow[b].remaining]
    <2>1. due \in [S -> Nat]
      BY PaymentsAreNumbers
    <2>2. /\ TransferOut(Sum(due, S)) /\ TotalRefunded(Sum(due, S)) /\ claims' = claims
          /\ escrow' = [b \in Bounties |->
                          IF b \in S
                          THEN [escrow[b] EXCEPT !.status = "Refunded", !.remaining = 0,
                                                 !.refunded = @ + due[b]]
                          ELSE escrow[b]]
          /\ analytics' = [b \in Bounties |->
                             IF b \in S THEN OnRefund(analytics[b], due[b]) ELSE analytics[b]]
      BY <1>9 DEF SweepExpiredRefunds
    <2>. HIDE DEF due
    <2>3. ASSUME NEW c \in Bounties
          PROVE  /\ escrow'[c].amount = escrow[c].amount
                 /\ escrow'[c].refunded =
                       IF c \in S THEN escrow[c].refunded + due[c] ELSE escrow[c].refunded
                 /\ analytics'[c].released = analytics[c].released
      <3>1. escrow[c] \in Escrow
        BY <1>0
      <3>2. CASE c \in S
        BY <2>2, <3>1, <3>2 DEF Escrow, OnRefund
      <3>3. CASE c \notin S
        BY <2>2, <3>3
      <3>. QED
        BY <3>2, <3>3
    <2>. QED
      BY <2>1, <2>2, <2>3, Reimburses
  <1>10. ASSUME UNCHANGED <<books, claims>>
         PROVE  MoneyMoves
    BY <1>10 DEF books, MoneyMoves, NothingMoved, Deposits, Payouts, Refunds, Claimed
  <1>11. ASSUME NEW b \in Bounties, ApproveRefund(b) \/ \E s \in Signers : ApproveLargeRelease(b, s)
         PROVE  MoneyMoves
    BY <1>10, <1>11 DEF ApproveRefund, ApproveLargeRelease
  <1>12. ASSUME Gift
         PROVE  MoneyMoves
    BY <1>12 DEF Gift, MoneyMoves, NothingMoved, Deposits, Payouts, Refunds, Claimed
  <1>13. ASSUME Configure \/ Tick \/ UNCHANGED vars
         PROVE  MoneyMoves
    BY <1>10, <1>13 DEF Configure, UpdateMultisigConfig, SetAmountPolicy, SetClaimWindow,
                        SetPaused, SetEmergencyPause, GovernanceChange, Tick, books, vars
  <1>. QED
    BY <1>1, <1>2, <1>3, <1>4, <1>5, <1>6, <1>7, <1>8, <1>9, <1>11, <1>12, <1>13 DEF Next

-----------------------------------------------------------------------------
(* What the totals are *)

\* The three totals are sums over all bounties.  This is the strengthening of
\* LockedIsExplained that is inductive.  It says nothing of the token balance,
\* which others may raise.
TotalsAreSums ==
    total = [locked |-> (Sum(Deposits, Bounties) - Sum(Payouts, Bounties)) - Sum(Refunds, Bounties),
             released |-> Sum(Payouts, Bounties), refunded |-> Sum(Refunds, Bounties)]

\* The sums are amounts.
LEMMA SumsAreNumbers ==
    ASSUME TypeOK
    PROVE  /\ Sum(Deposits, Bounties) \in Nat
           /\ Sum(Payouts, Bounties) \in Nat
           /\ Sum(Refunds, Bounties) \in Nat
  BY MoneyIsNumbers, SumNat

\* So the count of what is locked is a number, though it may be below zero.
LEMMA LockedIsNumber ==
    ASSUME TypeOK, TotalsAreSums
    PROVE  total.locked \in Int
  BY SumsAreNumbers DEF TotalsAreSums

\* What a batch moves is an amount.
LEMMA BatchIsNumber ==
    ASSUME NEW S \in SUBSET Bounties, NEW d \in [S -> Nat]
    PROVE  Sum(d, S) \in Nat
  BY BatchIsCounted, SumNat

\* When some bounties gain d, the sum gains the sum of d.
LEMMA SumGains ==
    ASSUME NEW f, \A b \in Bounties : f[b] \in Nat, NEW g,
           NEW S \in SUBSET Bounties, NEW d \in [S -> Nat], Gains(f, g, S, d)
    PROVE  Sum(g, Bounties) = Sum(f, Bounties) + Sum(d, S)
  <1>1. /\ IsFiniteSet(Bounties) /\ \A b \in Bounties : f[b] \in Int
        /\ \A b \in S : d[b] \in Int
        /\ \A b \in Bounties : g[b] = IF b \in S THEN f[b] + d[b] ELSE f[b]
    BY BountiesAssumption DEF Gains
  <1>. QED
    BY <1>1, SumShift

\* Nothing is recorded of a bounty before it is locked.
LEMMA UnopenedStays ==
    ASSUME TypeOK, ClaimsAreBacked, Unopened, [Next]_vars
    PROVE  Unopened'
  <1>. SUFFICES ASSUME NEW b \in Bounties, escrow'[b].status = "None"
                PROVE  escrow'[b] = NoEscrow /\ analytics'[b] = NoAnalytics
    BY DEF Unopened
  <1>1. escrow[b] \in Escrow
    BY DEF TypeOK
  <1>2. Effect(b)
    BY EveryStepHasAnEffect
  <1>3. escrow'[b] = escrow[b] /\ analytics'[b] = analytics[b]
    <2>1. ~Opened(b)
      <3>1. ASSUME NEW x, NEW d,
                   escrow'[b] = [status |-> "Locked", amount |-> x, remaining |-> x,
                                 refunded |-> 0, deadline |-> d]
            PROVE  FALSE
        BY <3>1
      <3>. QED
        BY <3>1 DEF Opened
    <2>2. ~ReleasedInFull(b) /\ ~ClaimPaid(b)
      BY <1>1 DEF ReleasedInFull, ClaimPaid, Escrow
    <2>3. ~ReleasedInPart(b)
      BY <1>1 DEF ReleasedInPart, Releasable, Escrow
    <2>4. ~RefundedInPart(b)
      BY <1>1 DEF RefundedInPart, Escrow
    <2>. QED
      BY <1>2, <2>1, <2>2, <2>3, <2>4 DEF Effect, Kept, ClaimSet, ClaimDropped
  <1>. QED
    BY <1>3 DEF Unopened

\* Whatever a call moves, the totals stay the sums.
LEMMA TotalsStaySums ==
    ASSUME TypeOK, TypeOK', TotalsAreSums, MoneyMoves
    PROVE  TotalsAreSums'
  <1>. DEFINE D == Sum(Deposits, Bounties)
              P == Sum(Payouts, Bounties)
              R == Sum(Refunds, Bounties)
              D2 == Sum(Deposits', Bounties)
              P2 == Sum(Payouts', Bounties)
              R2 == Sum(Refunds', Bounties)
  <1>1. /\ D \in Nat /\ P \in Nat /\ R \in Nat
        /\ \A b \in Bounties : Deposits[b] \in Nat /\ Payouts[b] \in Nat /\ Refunds[b] \in Nat
    BY SumsAreNumbers, MoneyIsNumbers
  <1>2. total = [locked |-> (D - P) - R, released |-> P, refunded |-> R]
    BY DEF TotalsAreSums
  <1>3. SUFFICES total' = [locked |-> (D2 - P2) - R2, released |-> P2, refunded |-> R2]
    BY DEF TotalsAreSums
  <1>. HIDE DEF D, P, R, D2, P2, R2
  <1>4. CASE NothingMoved
    <2>1. D2 = D /\ P2 = P /\ R2 = R /\ total' = total
      BY <1>4 DEF NothingMoved, D, P, R, D2, P2, R2
    <2>. QED
      BY <1>2, <2>1
  <1>5. ASSUME NEW S \in SUBSET Bounties, NEW d \in [S -> Nat], Deposited(S, d)
        PROVE  total' = [locked |-> (D2 - P2) - R2, released |-> P2, refunded |-> R2]
    <2>. DEFINE x == Sum(d, S)
    <2>1. x \in Nat
      BY BatchIsNumber
    <2>2. D2 = D + x /\ P2 = P /\ R2 = R
      BY <1>1, <1>5, SumGains DEF Deposited, D, P, R, D2, P2, R2
    <2>3. total' = [locked |-> total.locked + x, released |-> total.released,
                    refunded |-> total.refunded]
      BY <1>5 DEF Deposited
    <2>. HIDE DEF x
    <2>4. ((D - P) - R) + x = (D2 - P2) - R2
      BY <1>1, <2>1, <2>2
    <2>. QED
      BY <1>2, <2>2, <2>3, <2>4
  <1>6. ASSUME NEW S \in SUBSET Bounties, NEW d \in [S -> Nat], Paid(S, d)
        PROVE  total' = [locked |-> (D2 - P2) - R2, released |-> P2, refunded |-> R2]
    <2>. DEFINE x == Sum(d, S)
    <2>1. x \in Nat
      BY BatchIsNumber
    <2>2. D2 = D /\ P2 = P + x /\ R2 = R
      BY <1>1, <1>6, SumGains DEF Paid, D, P, R, D2, P2, R2
    <2>3. total' = [locked |-> total.locked - x, released |-> total.released + x,
                    refunded |-> total.refunded]
      BY <1>6 DEF Paid, TotalReleased
    <2>. HIDE DEF x
    <2>4. ((D - P) - R) - x = (D2 - P2) - R2
      BY <1>1, <2>1, <2>2
    <2>. QED
      BY <1>2, <2>2, <2>3, <2>4
  <1>7. ASSUME NEW S \in SUBSET Bounties, NEW d \in [S -> Nat], Reimbursed(S, d)
        PROVE  total' = [locked |-> (D2 - P2) - R2, released |-> P2, refunded |-> R2]
    <2>. DEFINE x == Sum(d, S)
    <2>1. x \in Nat
      BY BatchIsNumber
    <2>2. D2 = D /\ P2 = P /\ R2 = R + x
      BY <1>1, <1>7, SumGains DEF Reimbursed, D, P, R, D2, P2, R2
    <2>3. total' = [locked |-> total.locked - x, released |-> total.released,
                    refunded |-> total.refunded + x]
      BY <1>7 DEF Reimbursed, TotalRefunded
    <2>. HIDE DEF x
    <2>4. ((D - P) - R) - x = (D2 - P2) - R2
      BY <1>1, <2>1, <2>2
    <2>. QED
      BY <1>2, <2>2, <2>3, <2>4
  <1>. QED
    BY <1>4, <1>5, <1>6, <1>7 DEF MoneyMoves

\* Nothing is recorded at the start.
LEMMA TotalsStartAtZero == Init => Unopened /\ TotalsAreSums
  <1>. SUFFICES ASSUME Init PROVE Unopened /\ TotalsAreSums
    OBVIOUS
  <1>1. \A b \in Bounties : Deposits[b] = 0 /\ Payouts[b] = 0 /\ Refunds[b] = 0
    BY DEF Init, Deposits, Payouts, Refunds, Claimed, NoEscrow, NoClaim, NoAnalytics
  <1>2. /\ Sum(Deposits, Bounties) = 0 /\ Sum(Payouts, Bounties) = 0
        /\ Sum(Refunds, Bounties) = 0
    BY <1>1, BountiesAssumption, SumZero
  <1>3. Unopened
    BY DEF Init, Unopened
  <1>4. total = [locked |-> 0, released |-> 0, refunded |-> 0]
    BY DEF Init
  <1>. QED
    BY <1>2, <1>3, <1>4 DEF TotalsAreSums

\* The totals kept by increments are, at any time, what a sum over the records
\* of all bounties gives: deposits less payouts less refunds.
THEOREM TotalsAreAlwaysSums == Spec => [](Unopened /\ TotalsAreSums)
  <1>1. Init => Unopened /\ TotalsAreSums
    BY TotalsStartAtZero
  <1>2. TypeOK /\ TypeOK' /\ ClaimsAreBacked /\ Unopened /\ TotalsAreSums /\ [Next]_vars
            => (Unopened /\ TotalsAreSums)'
    BY UnopenedStays, EveryStepMovesMoney, TotalsStaySums
  <1>. QED
    BY <1>1, <1>2, TypesAreKept, ClaimsAreAlwaysBacked, PTL DEF Spec

\* The analytics record of refunds is the escrow's, so the locked total is also
\* what the analytics and claim records say.
LEMMA LockedFollowsSums ==
    ASSUME TypeOK, NoReleaseAfterRefund, TotalsAreSums
    PROVE  LockedIsExplained
  <1>. DEFINE owed == [b \in Bounties |-> escrow[b].amount - PaidOut(b)]
              paid == [b \in Bounties |-> PaidOut(b)]
  <1>1. ASSUME NEW b \in Bounties
        PROVE  /\ paid[b] = Payouts[b] + Refunds[b] /\ paid[b] \in Int
               /\ Deposits[b] = owed[b] + paid[b] /\ owed[b] \in Int
    <2>1. /\ analytics[b].released \in Nat /\ analytics[b].refunded \in Nat /\ Claimed(b) \in Nat
          /\ escrow[b].amount \in Nat /\ PaidOut(b) \in Nat
          /\ escrow[b].refunded = analytics[b].refunded
      BY PaymentsAreNumbers DEF NoReleaseAfterRefund
    <2>2. PaidOut(b) = (analytics[b].released + Claimed(b)) + escrow[b].refunded
      BY <2>1 DEF PaidOut
    <2>. QED
      BY <2>1, <2>2 DEF Payouts, Refunds, Deposits
  <1>. HIDE DEF owed, paid
  <1>2. /\ \A b \in Bounties : Payouts[b] \in Int /\ Refunds[b] \in Int
        /\ IsFiniteSet(Bounties)
    BY MoneyIsNumbers
  <1>3. Sum(paid, Bounties) = Sum(Payouts, Bounties) + Sum(Refunds, Bounties)
    BY <1>1, <1>2, SumPlus
  <1>4. Sum(Deposits, Bounties) = Sum(owed, Bounties) + Sum(paid, Bounties)
    BY <1>1, <1>2, SumPlus
  <1>5. Sum(owed, Bounties) \in Int /\ Sum(paid, Bounties) \in Int
    BY <1>1, <1>2, SumInt
  <1>6. /\ Sum(Payouts, Bounties) \in Nat /\ Sum(Refunds, Bounties) \in Nat
        /\ Sum(Deposits, Bounties) \in Nat
    BY SumsAreNumbers
  <1>7. total.locked = (Sum(Deposits, Bounties) - Sum(Payouts, Bounties)) - Sum(Refunds, Bounties)
    BY DEF TotalsAreSums
  <1>8. total.locked = Sum(owed, Bounties)
    BY <1>3, <1>4, <1>5, <1>6, <1>7
  <1>. QED
    BY <1>8 DEF owed, LockedIsExplained

\* What counts as locked is always what was locked less what the records say
\* was paid, over all bounties together: no call moves an amount it does not record.
THEOREM LockedIsAlwaysExplained == Spec => []LockedIsExplained
  <1>1. TypeOK /\ NoReleaseAfterRefund /\ TotalsAreSums => LockedIsExplained
    BY LockedFollowsSums
  <1>. QED
    BY <1>1, TypesAreKept, NeverReleasedAfterRefund, TotalsAreAlwaysSums, PTL

-----------------------------------------------------------------------------
(* The token balance *)

\* Whatever a call moves, it takes no more out of the balance than out of the
\* locked total, and it adds no less to it.
LEMMA BalanceStaysTracked ==
    ASSUME TypeOK, TotalsAreSums, BalanceIsTracked, MoneyMoves
    PROVE  BalanceIsTracked'
  <1>1. held \in Nat /\ total.locked \in Int /\ total.locked <= held
    BY LockedIsNumber DEF BalanceIsTracked
  <1>2. CASE NothingMoved
    BY <1>1, <1>2 DEF NothingMoved, BalanceIsTracked
  <1>3. ASSUME NEW S \in SUBSET Bounties, NEW d \in [S -> Nat],
               Deposited(S, d) \/ Paid(S, d) \/ Reimbursed(S, d)
        PROVE  BalanceIsTracked'
    <2>. DEFINE x == Sum(d, S)
    <2>1. x \in Nat
      BY BatchIsNumber
    <2>2. \/ held' = held + x /\ total'.locked = total.locked + x
          \/ x <= held /\ held' = held - x /\ total'.locked = total.locked - x
      BY <1>3 DEF Deposited, Paid, Reimbursed, TransferOut, TotalReleased, TotalRefunded
    <2>. HIDE DEF x
    <2>. QED
      BY <1>1, <2>1, <2>2 DEF BalanceIsTracked
  <1>. QED
    BY <1>2, <1>3 DEF MoneyMoves

\* The contract always holds at least what it counts as locked: no call pays out
\* more than it takes off the count, and what others send only adds to it.
THEOREM BalanceIsAlwaysTracked == Spec => []BalanceIsTracked
  <1>1. Init => BalanceIsTracked
    BY DEF Init, BalanceIsTracked
  <1>2. TypeOK /\ ClaimsAreBacked /\ Unopened /\ TotalsAreSums /\ BalanceIsTracked /\ [Next]_vars
            => BalanceIsTracked'
    BY EveryStepMovesMoney, BalanceStaysTracked
  <1>. QED
    BY <1>1, <1>2, TypesAreKept, ClaimsAreAlwaysBacked, TotalsAreAlwaysSums, PTL DEF Spec

-----------------------------------------------------------------------------
(* What stops payments stops them everywhere *)

\* What ControlsHold says of one step
ControlsAreObeyed ==
    /\ paused.global => held' >= held /\ total' = total
    /\ paused.lock => total'.locked <= total.locked
    /\ paused.release => total'.released = total.released
    /\ paused.refund => total'.refunded = total.refunded
    /\ ~govOk =>
          /\ total'.refunded = total.refunded
          /\ total'.released # total.released =>
                \E b \in Bounties : claims[b].status = "Pending" /\ claims'[b].status = "Claimed"
          /\ paused' = paused

\* What is in the contract's books and in its balance
NumbersAreReal == held \in Int /\ total.locked \in Int

\* A call that takes no token out and moves no total obeys, if it asks the
\* governance contract before it moves a pause flag.
LEMMA QuietObeys ==
    ASSUME NumbersAreReal, held' >= held, total' = total, govOk \/ paused' = paused
    PROVE  ControlsAreObeyed
  BY DEF ControlsAreObeyed, NumbersAreReal

\* So do a deposit while deposits are open,
LEMMA DepositObeys ==
    ASSUME ~Paused("lock"), paused' = paused,
           total'.released = total.released, total'.refunded = total.refunded
    PROVE  ControlsAreObeyed
  <1>1. ~paused.global /\ ~paused.lock
    BY DEF Paused
  <1>. QED
    BY <1>1 DEF ControlsAreObeyed

\* a payout while payouts are open,
LEMMA PayoutObeys ==
    ASSUME ~Paused("release"), paused' = paused, NumbersAreReal,
           NEW x \in Nat, TotalReleased(x),
           \/ govOk
           \/ \E b \in Bounties : claims[b].status = "Pending" /\ claims'[b].status = "Claimed"
    PROVE  ControlsAreObeyed
  <1>1. ~paused.global /\ ~paused.release
    BY DEF Paused
  <1>2. total'.locked <= total.locked /\ total'.refunded = total.refunded
    BY DEF TotalReleased, NumbersAreReal
  <1>. QED
    BY <1>1, <1>2 DEF ControlsAreObeyed

\* and a refund while refunds are open.
LEMMA RefundObeys ==
    ASSUME ~Paused("refund"), paused' = paused, NumbersAreReal, govOk,
           NEW x \in Nat, TotalRefunded(x)
    PROVE  ControlsAreObeyed
  <1>1. ~paused.global /\ ~paused.refund
    BY DEF Paused
  <1>2. total'.locked <= total.locked /\ total'.released = total.released
    BY DEF TotalRefunded, NumbersAreReal
  <1>. QED
    BY <1>1, <1>2 DEF ControlsAreObeyed

\* Every call obeys what stops payments when it is made.
LEMMA EveryStepObeys ==
    ASSUME TypeOK, TotalsAreSums, BalanceIsTracked, [Next]_vars
    PROVE  ControlsAreObeyed
  <1>0. NumbersAreReal
    BY LockedIsNumber DEF NumbersAreReal, BalanceIsTracked
  <1>1. ASSUME NEW S \in SUBSET Bounties, NEW amount, NEW deadline, Lock(S, amount, deadline)
        PROVE  ControlsAreObeyed
    BY <1>1, DepositObeys DEF Lock, config
  <1>2. ASSUME NEW S \in SUBSET Bounties, PayInFull(S), ~Paused("release"), govOk,
               paused' = paused
        PROVE  ControlsAreObeyed
    <2>. DEFINE due == [b \in S |-> escrow[b].amount]
    <2>1. due \in [S -> Nat]
      BY PaymentsAreNumbers
    <2>2. TotalReleased(Sum(due, S))
      BY <1>2 DEF PayInFull
    <2>. HIDE DEF due
    <2>3. Sum(due, S) \in Nat
      BY <2>1, BatchIsNumber
    <2>. QED
      BY <1>0, <1>2, <2>2, <2>3, PayoutObeys
  <1>3. ASSUME NEW b \in Bounties, PartialRelease(b)
        PROVE  ControlsAreObeyed
    <2>1. PICK payout \in 1 .. escrow[b].remaining :
             /\ govOk /\ ~Paused("release") /\ TotalReleased(payout)
             /\ paused' = paused
      BY <1>3 DEF PartialRelease, config
    <2>2. payout \in Nat
      BY PaymentsAreNumbers
    <2>. QED
      BY <1>0, <2>1, <2>2, PayoutObeys
  <1>4. ASSUME NEW b \in Bounties, ClaimFunds(b)
        PROVE  ControlsAreObeyed
    <2>1. claims \in [Bounties -> Claim] /\ claims[b].amount \in Nat
      BY DEF TypeOK, Claim
    <2>2. /\ claims[b].status = "Pending" /\ ~Paused("release")
          /\ TotalReleased(claims[b].amount)
          /\ claims' = [claims EXCEPT ![b].status = "Claimed"] /\ paused' = paused
      BY <1>4 DEF ClaimFunds, config
    <2>3. claims'[b].status = "Claimed"
      BY <2>1, <2>2 DEF Claim
    <2>4. \E c \in Bounties : claims[c].status = "Pending" /\ claims'[c].status = "Claimed"
      BY <2>2, <2>3
    <2>. QED
      BY <1>0, <2>1, <2>2, <2>4, PayoutObeys
  <1>5. ASSUME NEW b \in Bounties, Refund(b)
        PROVE  ControlsAreObeyed
    <2>1. /\ RefundAmount(b) \in 1 .. escrow[b].remaining
          /\ govOk /\ ~Paused("refund") /\ paused' = paused
          /\ TotalRefunded(RefundAmount(b))
      BY <1>5 DEF Refund, RefundAllowed, config
    <2>2. RefundAmount(b) \in Nat
      BY <2>1, PaymentsAreNumbers
    <2>. QED
      BY <1>0, <2>1, <2>2, RefundObeys
  <1>6. ASSUME NEW S \in SUBSET Bounties, SweepExpiredRefunds(S)
        PROVE  ControlsAreObeyed
    <2>. DEFINE due == [b \in S |-> escrow[b].remaining]
    <2>1. due \in [S -> Nat]
      BY PaymentsAreNumbers
    <2>2. /\ TotalRefunded(Sum(due, S))
          /\ govOk /\ ~Paused("refund") /\ paused' = paused
      BY <1>6 DEF SweepExpiredRefunds, config
    <2>. HIDE DEF due
    <2>3. Sum(due, S) \in Nat
      BY <2>1, BatchIsNumber
    <2>. QED
      BY <1>0, <2>2, <2>3, RefundObeys
  <1>7. ASSUME NEW b \in Bounties, LockFunds(b) \/ ReleaseFunds(b)
        PROVE  ControlsAreObeyed
    <2>1. {b} \in SUBSET Bounties
      OBVIOUS
    <2>. QED
      BY <1>1, <1>2, <1>7, <2>1 DEF LockFunds, ReleaseFunds, config
  <1>8. ASSUME NEW S \in SUBSET Bounties, BatchLockFunds(S) \/ BatchReleaseFunds(S)
        PROVE  ControlsAreObeyed
    BY <1>1, <1>2, <1>8 DEF BatchLockFunds, BatchReleaseFunds, config
  <1>9. ASSUME held' = held, total' = total, govOk \/ paused' = paused
        PROVE  ControlsAreObeyed
    BY <1>0, <1>9, QuietObeys DEF NumbersAreReal
  <1>10. ASSUME NEW b \in Bounties,
               \/ AuthorizeClaim(b) \/ CancelPendingClaim(b) \/ ApproveRefund(b)
               \/ \E s \in Signers : ApproveLargeRelease(b, s)
        PROVE  ControlsAreObeyed
    BY <1>9, <1>10
       DEF AuthorizeClaim, CancelPendingClaim, ApproveRefund, ApproveLargeRelease, books, config
  <1>11. ASSUME Gift
         PROVE  ControlsAreObeyed
    BY <1>0, <1>11, QuietObeys DEF Gift, config, NumbersAreReal
  <1>12. ASSUME Configure \/ Tick \/ UNCHANGED vars
         PROVE  ControlsAreObeyed
    BY <1>9, <1>12
       DEF Configure, UpdateMultisigConfig, SetAmountPolicy, SetClaimWindow, SetPaused,
           SetEmergencyPause, GovernanceChange, Tick, books, config, vars
  <1>. QED
    BY <1>3, <1>4, <1>5, <1>6, <1>7, <1>8, <1>10, <1>11, <1>12 DEF Next

\* The emergency switch, the three pause flags and the governance version stop
\* the tokens they are meant to stop, whichever entry point is called.
THEOREM ControlsAlwaysHold == Spec => ControlsHold
  <1>1. TypeOK /\ TotalsAreSums /\ BalanceIsTracked /\ [Next]_vars => [ControlsAreObeyed]_vars
    BY EveryStepObeys
  <1>. QED
    BY <1>1, TypesAreKept, TotalsAreAlwaysSums, BalanceIsAlwaysTracked, PTL DEF Spec, ControlsHold, ControlsAreObeyed

-----------------------------------------------------------------------------
(* The incremental counters agree with a scan of every escrow *)

\* The bounties a scan finds in some states form a finite set.
LEMMA BucketIsFinite ==
    ASSUME NEW states
    PROVE  /\ IsFiniteSet({b \in Bounties : escrow[b].status \in states})
           /\ InBucket(states) \in Nat
BY BountiesAssumption, FS_Subset, FS_CardinalityType DEF InBucket

\* Bounties that enter some states add their number to the scan's count.
LEMMA BucketGains ==
    ASSUME NEW states, NEW S \in SUBSET Bounties,
           \A b \in Bounties : escrow'[b].status \in states <=>
                                   escrow[b].status \in states \/ b \in S,
           \A b \in S : escrow[b].status \notin states
    PROVE  InBucket(states)' = InBucket(states) + Cardinality(S)
<1> DEFINE old == {b \in Bounties : escrow[b].status \in states}
           new == {b \in Bounties : escrow'[b].status \in states}
<1>1. new = old \cup S /\ old \cap S = {}
    OBVIOUS
<1>2. IsFiniteSet(old) /\ Cardinality(old) \in Nat
    BY BucketIsFinite DEF InBucket
<1>3. IsFiniteSet(S) /\ Cardinality(S) \in Nat
    BY BatchIsCounted
<1> HIDE DEF old, new
<1>4. Cardinality(old \cup S) = Cardinality(old) + Cardinality(S) - Cardinality(old \cap S)
    BY <1>2, <1>3, FS_Union
<1>5. Cardinality(old \cap S) = 0
    BY <1>1, FS_EmptySet
<1>6. Cardinality(new) = Cardinality(old) + Cardinality(S)
    BY <1>1, <1>2, <1>3, <1>4, <1>5
<1> QED BY <1>6 DEF InBucket, old, new

\* Bounties that leave some states take their number off it.
LEMMA BucketLoses ==
    ASSUME NEW states, NEW S \in SUBSET Bounties,
           \A b \in Bounties : escrow'[b].status \in states <=>
                                   escrow[b].status \in states /\ b \notin S,
           \A b \in S : escrow[b].status \in states
    PROVE  /\ InBucket(states)' = InBucket(states) - Cardinality(S)
           /\ Cardinality(S) <= InBucket(states)
<1> DEFINE old == {b \in Bounties : escrow[b].status \in states}
           new == {b \in Bounties : escrow'[b].status \in states}
<1>1. new = old \ S /\ old \cap S = S /\ S \in SUBSET old
    OBVIOUS
<1>2. IsFiniteSet(old) /\ Cardinality(old) \in Nat
    BY BucketIsFinite DEF InBucket
<1> HIDE DEF old, new
<1>3. Cardinality(old \ S) = Cardinality(old) - Cardinality(old \cap S)
    BY <1>2, FS_Difference
<1>4. Cardinality(S) <= Cardinality(old)
    BY <1>1, <1>2, FS_Subset
<1>5. Cardinality(new) = Cardinality(old) - Cardinality(S)
    BY <1>1, <1>3
<1> QED BY <1>4, <1>5 DEF InBucket, old, new

\* A status bucket keeps its bounties when no bounty enters or leaves it.
LEMMA BucketStays ==
    ASSUME NEW states,
           \A b \in Bounties : escrow'[b].status \in states <=> escrow[b].status \in states
    PROVE  InBucket(states)' = InBucket(states)
BY DEF InBucket

-----------------------------------------------------------------------------
(* How a call counts what it moves *)

\* Statuses that stay where they were, with counters that do, keep the match.
LEMMA NothingMoves ==
    ASSUME CountsMatchScan, count' = count,
           \A b \in Bounties :
               \/ escrow'[b].status = escrow[b].status
               \/ escrow'[b].status \in Active /\ escrow[b].status \in Active
    PROVE  CountsMatchScan'
<1>1. InBucket(Active)' = InBucket(Active)
    BY BucketStays
<1>2. InBucket({"Released"})' = InBucket({"Released"})
    BY BucketStays DEF Active
<1>3. InBucket({"Refunded"})' = InBucket({"Refunded"})
    BY BucketStays DEF Active
<1> QED BY <1>1, <1>2, <1>3 DEF CountsMatchScan

\* Opening the bounties of S counts each as locked.
LEMMA OpeningIsCounted ==
    ASSUME CountsMatchScan, NEW S \in SUBSET Bounties,
           count' = [locked |-> count.locked + Cardinality(S),
                     released |-> count.released, refunded |-> count.refunded],
           \A b \in S : escrow[b].status = "None" /\ escrow'[b].status = "Locked",
           \A b \in Bounties \ S : escrow'[b].status = escrow[b].status
    PROVE  CountsMatchScan'
<1>1. InBucket(Active)' = InBucket(Active) + Cardinality(S)
    BY BucketGains DEF Active
<1>2. InBucket({"Released"})' = InBucket({"Released"})
    BY BucketStays
<1>3. InBucket({"Refunded"})' = InBucket({"Refunded"})
    BY BucketStays
<1> QED BY <1>1, <1>2, <1>3 DEF CountsMatchScan

\* Releasing the bounties of S moves each from the locked count to the released.
LEMMA ReleasingIsCounted ==
    ASSUME CountsMatchScan, NEW S \in SUBSET Bounties, CountReleased(Cardinality(S)),
           \A b \in S : escrow[b].status \in Active /\ escrow'[b].status = "Released",
           \A b \in Bounties \ S : escrow'[b].status = escrow[b].status
    PROVE  CountsMatchScan'
<1>1. /\ InBucket(Active)' = InBucket(Active) - Cardinality(S)
      /\ Cardinality(S) <= InBucket(Active)
    BY BucketLoses DEF Active
<1>2. InBucket({"Released"})' = InBucket({"Released"}) + Cardinality(S)
    BY BucketGains DEF Active
<1>3. InBucket({"Refunded"})' = InBucket({"Refunded"})
    BY BucketStays DEF Active
<1>4. Less(count.locked, Cardinality(S)) = count.locked - Cardinality(S)
    BY <1>1, BucketIsFinite, BatchIsCounted DEF CountsMatchScan, Less
<1>5. /\ count'.locked = count.locked - Cardinality(S)
      /\ count'.released = count.released + Cardinality(S)
      /\ count'.refunded = count.refunded
    BY <1>4 DEF CountReleased
<1> QED BY <1>1, <1>2, <1>3, <1>5 DEF CountsMatchScan

\* Refunding the bounties of S moves each from the locked count to the refunded.
LEMMA RefundingIsCounted ==
    ASSUME CountsMatchScan, NEW S \in SUBSET Bounties, CountRefunded(Cardinality(S)),
           \A b \in S : escrow[b].status \in Active /\ escrow'[b].status = "Refunded",
           \A b \in Bounties \ S : escrow'[b].status = escrow[b].status
    PROVE  CountsMatchScan'
<1>1. /\ InBucket(Active)' = InBucket(Active) - Cardinality(S)
      /\ Cardinality(S) <= InBucket(Active)
    BY BucketLoses DEF Active
<1>2. InBucket({"Refunded"})' = InBucket({"Refunded"}) + Cardinality(S)
    BY BucketGains DEF Active
<1>3. InBucket({"Released"})' = InBucket({"Released"})
    BY BucketStays DEF Active
<1>4. Less(count.locked, Cardinality(S)) = count.locked - Cardinality(S)
    BY <1>1, BucketIsFinite, BatchIsCounted DEF CountsMatchScan, Less
<1>5. /\ count'.locked = count.locked - Cardinality(S)
      /\ count'.refunded = count.refunded + Cardinality(S)
      /\ count'.released = count.released
    BY <1>4 DEF CountRefunded
<1> QED BY <1>1, <1>2, <1>3, <1>5 DEF CountsMatchScan

-----------------------------------------------------------------------------

\* Every operation moves the status counters as it moves the bounties between buckets.
LEMMA CountsStayMatched ==
    ASSUME TypeOK, ClaimsAreBacked, CountsMatchScan, [Next]_vars
    PROVE  CountsMatchScan'
<1>0. /\ escrow \in [Bounties -> Escrow]
      /\ \A b \in Bounties : {b} \in SUBSET Bounties /\ Cardinality({b}) = 1
    BY FS_Singleton DEF TypeOK
<1>1. ASSUME NEW S \in SUBSET Bounties, NEW amount, NEW deadline, Lock(S, amount, deadline)
      PROVE  CountsMatchScan'
  <2>1. /\ count' = [locked |-> count.locked + Cardinality(S),
                     released |-> count.released, refunded |-> count.refunded]
        /\ \A b \in S : escrow[b].status = "None" /\ escrow'[b].status = "Locked"
        /\ \A b \in Bounties \ S : escrow'[b].status = escrow[b].status
      BY <1>1 DEF Lock
  <2> QED BY <2>1, OpeningIsCounted
<1>2. ASSUME NEW S \in SUBSET Bounties, PayInFull(S), \A b \in S : Releasable(b)
      PROVE  CountsMatchScan'
  <2>1. \A b \in Bounties :
            escrow'[b] = IF b \in S
                         THEN [escrow[b] EXCEPT !.status = "Released", !.remaining = 0]
                         ELSE escrow[b]
      BY <1>2 DEF PayInFull
  <2>2. \A b \in S : escrow[b].status \in Active /\ escrow'[b].status = "Released"
      BY <1>0, <1>2, <2>1 DEF Releasable, Active, Escrow
  <2>3. \A b \in Bounties \ S : escrow'[b].status = escrow[b].status
      BY <2>1
  <2>4. CountReleased(Cardinality(S))
      BY <1>2 DEF PayInFull
  <2> QED BY <2>2, <2>3, <2>4, ReleasingIsCounted
<1>3. ASSUME NEW c \in Bounties, PartialRelease(c) PROVE CountsMatchScan'
  <2> PICK payout \in 1 .. escrow[c].remaining :
           /\ Releasable(c)
           /\ escrow' = [escrow EXCEPT
                           ![c].remaining = escrow[c].remaining - payout,
                           ![c].status = IF escrow[c].remaining - payout = 0 THEN "Released" ELSE @]
           /\ IF escrow[c].remaining - payout = 0 THEN CountReleased(1) ELSE UNCHANGED count
      BY <1>3 DEF PartialRelease
  <2>1. /\ escrow[c].status \in Active
        /\ escrow'[c].status = IF escrow[c].remaining - payout = 0 THEN "Released"
                                                                   ELSE escrow[c].status
        /\ \A b \in Bounties \ {c} : escrow'[b].status = escrow[b].status
      BY <1>0 DEF Releasable, Active, Escrow
  <2>2. CASE escrow[c].remaining - payout = 0
    <3>1. CountReleased(Cardinality({c}))
        BY <1>0, <2>2
    <3> QED BY <1>0, <2>1, <2>2, <3>1, ReleasingIsCounted
  <2>3. CASE escrow[c].remaining - payout # 0
      BY <2>1, <2>3, NothingMoves
  <2> QED BY <2>2, <2>3
<1>4. ASSUME NEW c \in Bounties, ClaimFunds(c) PROVE CountsMatchScan'
  <2>1. /\ escrow' = [escrow EXCEPT ![c].status = "Released", ![c].remaining = 0]
        /\ CountReleased(1)
        /\ claims[c].status = "Pending"
      BY <1>4 DEF ClaimFunds
  <2>2. escrow[c].status \in Active
      BY <2>1 DEF ClaimsAreBacked, Active
  <2>3. /\ escrow'[c].status = "Released"
        /\ \A b \in Bounties \ {c} : escrow'[b].status = escrow[b].status
      BY <1>0, <2>1 DEF Escrow
  <2>4. CountReleased(Cardinality({c}))
      BY <1>0, <2>1
  <2> QED BY <1>0, <2>2, <2>3, <2>4, ReleasingIsCounted
<1>5. ASSUME NEW c \in Bounties, Refund(c) PROVE CountsMatchScan'
  <2>1. /\ Refundable(c)
        /\ escrow' = [escrow EXCEPT
                        ![c].remaining = @ - RefundAmount(c),
                        ![c].refunded = @ + RefundAmount(c),
                        ![c].status = IF RefundCloses(c) THEN "Refunded" ELSE "PartiallyRefunded"]
        /\ IF RefundCloses(c) THEN CountRefunded(1) ELSE UNCHANGED count
      BY <1>5 DEF Refund, RefundAllowed
  <2>2. /\ escrow[c].status \in Active
        /\ escrow'[c].status = IF RefundCloses(c) THEN "Refunded" ELSE "PartiallyRefunded"
        /\ \A b \in Bounties \ {c} : escrow'[b].status = escrow[b].status
      BY <1>0, <2>1 DEF Refundable, Escrow
  <2>3. CASE RefundCloses(c)
    <3>1. CountRefunded(Cardinality({c}))
        BY <1>0, <2>1, <2>3
    <3> QED BY <1>0, <2>2, <2>3, <3>1, RefundingIsCounted
  <2>4. CASE ~RefundCloses(c)
    <3>1. escrow'[c].status \in Active
        BY <2>2, <2>4 DEF Active
    <3> QED BY <2>1, <2>2, <2>4, <3>1, NothingMoves
  <2> QED BY <2>3, <2>4
<1>6. ASSUME NEW S \in SUBSET Bounties, SweepExpiredRefunds(S) PROVE CountsMatchScan'
  <2>1. /\ escrow' = [c \in Bounties |->
                        IF c \in S
                        THEN [escrow[c] EXCEPT !.status = "Refunded", !.remaining = 0,
                                !.refunded = escrow[c].refunded + escrow[c].remaining]
                        ELSE escrow[c]]
        /\ CountRefunded(Cardinality(S))
        /\ \A c \in S : Refundable(c)
      BY <1>6 DEF SweepExpiredRefunds, Sweepable
  <2>2. \A b \in S : escrow[b].status \in Active /\ escrow'[b].status = "Refunded"
      BY <1>0, <2>1 DEF Refundable, Escrow
  <2>3. \A b \in Bounties \ S : escrow'[b].status = escrow[b].status
      BY <2>1
  <2> QED BY <2>1, <2>2, <2>3, RefundingIsCounted
<1>7. ASSUME escrow' = escrow, count' = count PROVE CountsMatchScan'
    BY <1>7, NothingMoves
<1>8. ASSUME NEW c \in Bounties,
             \/ LockFunds(c) \/ ReleaseFunds(c) \/ PartialRelease(c) \/ ClaimFunds(c) \/ Refund(c)
      PROVE  CountsMatchScan'
  <2>1. ReleaseFunds(c) => PayInFull({c}) /\ Releasable(c)
      BY DEF ReleaseFunds
  <2> QED BY <1>0, <1>1, <1>2, <1>3, <1>4, <1>5, <1>8, <2>1 DEF LockFunds
<1>9. ASSUME NEW c \in Bounties,
             \/ AuthorizeClaim(c) \/ CancelPendingClaim(c) \/ ApproveRefund(c)
             \/ \E s \in Signers : ApproveLargeRelease(c, s)
      PROVE  CountsMatchScan'
    BY <1>7, <1>9 DEF AuthorizeClaim, CancelPendingClaim, ApproveRefund, ApproveLargeRelease, books
<1>10. ASSUME NEW S \in SUBSET Bounties,
              BatchLockFunds(S) \/ BatchReleaseFunds(S) \/ SweepExpiredRefunds(S)
       PROVE  CountsMatchScan'
    BY <1>1, <1>2, <1>6, <1>10 DEF BatchLockFunds, BatchReleaseFunds
<1>11. ASSUME Configure \/ Gift \/ Tick \/ UNCHANGED vars PROVE CountsMatchScan'
    BY <1>7, <1>11 DEF Configure, UpdateMultisigConfig, SetAmountPolicy, SetClaimWindow, SetPaused,
                       SetEmergencyPause, GovernanceChange, Gift, Tick, books, vars
<1> QED BY <1>8, <1>9, <1>10, <1>11 DEF Next

\* The counters always are what a full scan of the escrows would find, so the
\* saturating subtraction never saturates.
THEOREM CountsAlwaysMatchScan == Spec => []CountsMatchScan
<1>1. Init => CountsMatchScan
  <2> SUFFICES ASSUME Init PROVE CountsMatchScan
      OBVIOUS
  <2>1. \A b \in Bounties : escrow[b].status = "None"
      BY DEF Init, NoEscrow
  <2>2. /\ {b \in Bounties : escrow[b].status \in Active} = {}
        /\ {b \in Bounties : escrow[b].status \in {"Released"}} = {}
        /\ {b \in Bounties : escrow[b].status \in {"Refunded"}} = {}
      BY <2>1 DEF Active
  <2> QED BY <2>2, FS_EmptySet DEF Init, CountsMatchScan, InBucket
<1>2. TypeOK /\ ClaimsAreBacked /\ CountsMatchScan /\ [Next]_vars => CountsMatchScan'
    BY CountsStayMatched
<1> QED BY <1>1, <1>2, TypesAreKept, ClaimsAreAlwaysBacked, PTL DEF Spec

-----------------------------------------------------------------------------
(* The views that scan every escrow *)

\* A quotient times its divisor is at most the dividend.
LEMMA QuotientIsBelow ==
    ASSUME NEW x \in Nat, NEW n \in Nat \ {0}
    PROVE  (x \div n) * n <= x
  OBVIOUS

\* A scan for some states finds a finite set of bounties, and one for two
\* disjoint sets of states finds as many as two scans.
LEMMA ScansAdd ==
    ASSUME NEW A, NEW B, A \cap B = {}
    PROVE  /\ IsFiniteSet(Of(A)) /\ Cardinality(Of(A)) \in Nat /\ Of(A) \in SUBSET Bounties
           /\ Cardinality(Of(A \cup B)) = Cardinality(Of(A)) + Cardinality(Of(B))
  <1>1. /\ Of(A) \in SUBSET Bounties /\ Of(B) \in SUBSET Bounties
        /\ Of(A \cup B) = Of(A) \cup Of(B) /\ Of(A) \cap Of(B) = {}
    BY DEF Of
  <1>2. /\ IsFiniteSet(Of(A)) /\ IsFiniteSet(Of(B))
        /\ Cardinality(Of(A)) \in Nat /\ Cardinality(Of(B)) \in Nat
    BY <1>1, BatchIsCounted
  <1>3. Cardinality(Of(A) \cup Of(B)) =
            Cardinality(Of(A)) + Cardinality(Of(B)) - Cardinality(Of(A) \cap Of(B))
    BY <1>2, FS_Union
  <1>4. Cardinality(Of(A) \cap Of(B)) = 0
    BY <1>1, FS_EmptySet, Zenon
  <1>5. Cardinality(Of(A) \cup Of(B)) = Cardinality(Of(A)) + Cardinality(Of(B))
    BY <1>2, <1>3, <1>4
  <1>6. Cardinality(Of(A \cup B)) = Cardinality(Of(A)) + Cardinality(Of(B))
    BY <1>1, <1>5, Zenon
  <1>. QED
    BY <1>1, <1>2, <1>6, Zenon

\* The counters, as scans.
LEMMA CountersAreScans ==
    ASSUME CountsMatchScan
    PROVE  /\ count.locked = Cardinality(Of(Active))
           /\ count.released = Cardinality(Of({"Released"}))
           /\ count.refunded = Cardinality(Of({"Refunded"}))
  BY DEF CountsMatchScan, InBucket, Of

\* The counts of the views agree with the scan, but for the partly refunded,
\* which the locked counter counts too.
LEMMA CountsReconcile ==
    ASSUME CountsMatchScan
    PROVE  /\ \A s \in Settled : CountOf(s) = CountScan(s)
           /\ CountOf("Locked") - CountOf("PartiallyRefunded") = CountScan("Locked")
           /\ count.locked + count.released + count.refunded = Cardinality(Of(Active \cup Settled))
  <1>1. \A s \in Settled : CountOf(s) = CountScan(s)
    BY CountersAreScans DEF Settled, CountOf, CountScan
  <1>2. Cardinality(Of(Active)) =
            Cardinality(Of({"Locked"})) + Cardinality(Of({"PartiallyRefunded"}))
    <2>1. Active = {"Locked"} \cup {"PartiallyRefunded"}
          /\ {"Locked"} \cap {"PartiallyRefunded"} = {}
      BY DEF Active
    <2>. QED
      BY <2>1, ScansAdd, Zenon
  <1>3. \A A : IsFiniteSet(Of(A)) /\ Cardinality(Of(A)) \in Nat
    <2>1. \A A : A \cap {} = {}
      OBVIOUS
    <2>. QED
      BY <2>1, ScansAdd, Zenon
  <1>4. CountOf("Locked") - CountOf("PartiallyRefunded") = CountScan("Locked")
    <2>1. CountOf("Locked") = count.locked /\ CountOf("PartiallyRefunded") = CountScan("PartiallyRefunded")
      BY DEF CountOf
    <2>2. /\ CountScan("Locked") = Cardinality(Of({"Locked"}))
          /\ CountScan("PartiallyRefunded") = Cardinality(Of({"PartiallyRefunded"}))
      BY DEF CountScan
    <2>. QED
      BY <1>2, <1>3, <2>1, <2>2, CountersAreScans
  <1>5. Cardinality(Of(Settled)) = Cardinality(Of({"Released"})) + Cardinality(Of({"Refunded"}))
    <2>1. Settled = {"Released"} \cup {"Refunded"} /\ {"Released"} \cap {"Refunded"} = {}
      BY DEF Settled
    <2>. QED
      BY <2>1, ScansAdd, Zenon
  <1>6. Cardinality(Of(Active \cup Settled)) = Cardinality(Of(Active)) + Cardinality(Of(Settled))
    <2>1. Active \cap Settled = {}
      BY DEF Active, Settled
    <2>. QED
      BY <2>1, ScansAdd, Zenon
  <1>7. count.locked + count.released + count.refunded = Cardinality(Of(Active \cup Settled))
    BY <1>3, <1>5, <1>6, CountersAreScans
  <1>. QED
    BY <1>1, <1>4, <1>7

\* What a bounty that is not released owes is what was locked less what was
\* paid out and refunded; a released one was paid at least its amount.
LEMMA OwedBySums ==
    ASSUME TypeOK, BooksBalance, NoReleaseAfterRefund, NEW b \in Bounties
    PROVE  /\ escrow[b].amount \in Nat /\ escrow[b].remaining \in Nat /\ escrow[b].refunded \in Nat
           /\ Payouts[b] \in Nat /\ PaidOut(b) = Payouts[b] + escrow[b].refunded
           /\ escrow[b].status # "Released" =>
                 (escrow[b].amount - escrow[b].remaining) - escrow[b].refunded = Payouts[b]
           /\ escrow[b].status = "Released" => Payouts[b] >= escrow[b].amount
  <1>1. /\ analytics[b].released \in Nat /\ analytics[b].refunded \in Nat /\ Claimed(b) \in Nat
        /\ escrow[b].amount \in Nat /\ escrow[b].remaining \in Nat /\ PaidOut(b) \in Nat
        /\ Payouts[b] = analytics[b].released + Claimed(b)
    BY PaymentsAreNumbers DEF Payouts
  <1>2. /\ escrow[b].refunded = analytics[b].refunded
        /\ escrow[b].status = "Released" => escrow[b].refunded = 0
    BY DEF NoReleaseAfterRefund
  <1>3. PaidOut(b) = Payouts[b] + escrow[b].refunded
    BY <1>1, <1>2 DEF PaidOut
  <1>4. CASE escrow[b].status = "Released"
    <2>1. PaidOut(b) \in escrow[b].amount .. 2 * escrow[b].amount
      BY <1>4 DEF BooksBalance
    <2>. QED
      BY <1>1, <1>2, <1>3, <1>4, <2>1
  <1>5. CASE escrow[b].status # "Released"
    <2>1. escrow[b].remaining = escrow[b].amount - PaidOut(b)
      BY <1>5 DEF BooksBalance
    <2>. QED
      BY <1>1, <1>2, <1>3, <1>5, <2>1
  <1>. QED
    BY <1>4, <1>5

\* The totals are what the full scan gives, when every settled bounty was paid
\* its amount and no more.
LEMMA TotalsReconcile ==
    ASSUME TypeOK, BooksBalance, NoReleaseAfterRefund, Unopened, TotalsAreSums,
           LockedIsExplained,
           \A b \in Of(Settled) : escrow[b].remaining = 0 /\ PaidOut(b) = escrow[b].amount
    PROVE  total = FullScan
  <1>. DEFINE owes == [b \in Bounties |-> escrow[b].remaining]
              owed == [b \in Bounties |-> escrow[b].amount - PaidOut(b)]
              scanned == [b \in Bounties |->
                            escrow[b].amount - escrow[b].remaining - ScannedRefund(b)]
  <1>1. ASSUME NEW b \in Bounties
        PROVE  /\ owes[b] \in Int /\ Payouts[b] \in Int
               /\ owed[b] = owes[b] /\ scanned[b] = Payouts[b]
    <2>1. /\ escrow[b].amount \in Nat /\ escrow[b].remaining \in Nat
          /\ escrow[b].refunded \in Nat /\ Payouts[b] \in Nat
          /\ PaidOut(b) = Payouts[b] + escrow[b].refunded
          /\ escrow[b].status # "Released" =>
                (escrow[b].amount - escrow[b].remaining) - escrow[b].refunded = Payouts[b]
      BY OwedBySums
    <2>2. (escrow[b].amount - escrow[b].remaining) - escrow[b].refunded = Payouts[b]
      <3>1. CASE escrow[b].status = "Released"
        <4>1. escrow[b].remaining = 0 /\ PaidOut(b) = escrow[b].amount
          BY <3>1 DEF Of, Settled
        <4>. QED
          BY <2>1, <4>1
      <3>. QED
        BY <2>1, <3>1
    <2>3. escrow[b].amount - PaidOut(b) = escrow[b].remaining
      BY <2>1, <2>2
    <2>. QED
      BY <2>1, <2>2, <2>3 DEF ScannedRefund
  <1>2. ASSUME NEW b \in Bounties \ Of(Active)
        PROVE  owes[b] = 0
    <2>1. escrow[b].status \in {"None"} \cup Active \cup Settled
      BY DEF TypeOK, Escrow
    <2>2. escrow[b].status = "None" \/ b \in Of(Settled)
      BY <2>1 DEF Of
    <2>. QED
      BY <2>2 DEF Unopened, NoEscrow
  <1>3. total.locked = Sum(owed, Bounties)
    BY DEF LockedIsExplained
  <1>4. FullScan = [locked |-> Sum(owes, Of(Active)), released |-> Sum(scanned, Bounties),
                    refunded |-> Sum(Refunds, Bounties)]
    BY DEF FullScan, Refunds, ScannedRefund
  <1>. HIDE DEF owes, owed, scanned
  <1>5. IsFiniteSet(Bounties) /\ IsFiniteSet(Bounties \ Of(Active)) /\ Of(Active) \in SUBSET Bounties
    BY BatchIsCounted, BountiesAssumption DEF Of
  <1>6. Sum(owed, Bounties) = Sum(owes, Bounties) /\ Sum(scanned, Bounties) = Sum(Payouts, Bounties)
    BY <1>1, <1>5, SumEqual
  <1>7. Sum(owes, Bounties) = Sum(owes, Of(Active)) + Sum(owes, Bounties \ Of(Active))
    BY <1>1, <1>5, SumSplit
  <1>8. Sum(owes, Bounties \ Of(Active)) = 0
    BY <1>2, <1>5, SumZero
  <1>9. Sum(owes, Of(Active)) \in Int
    <2>1. IsFiniteSet(Of(Active))
      BY <1>5, BatchIsCounted
    <2>. QED
      BY <1>1, <1>5, <2>1, SumInt
  <1>10. Sum(owes, Of(Active)) = total.locked
    BY <1>3, <1>6, <1>7, <1>8, <1>9
  <1>. QED
    BY <1>4, <1>6, <1>10 DEF TotalsAreSums

\* The volumes the views tell.
LEMMA VolumesReconcile ==
    ASSUME TypeOK, BooksBalance, NoReleaseAfterRefund, TotalsAreSums
    PROVE  /\ VolumeScan("Locked") + VolumeOf("PartiallyRefunded") = FullScan.locked
           /\ VolumeOf("Released") >= VolumeScan("Released")
  <1>. DEFINE owes == [b \in Bounties |-> escrow[b].remaining]
              first == [b \in Bounties |-> escrow[b].amount]
              L == Of({"Locked"})
              A == Of(Active)
              R == Of({"Released"})
  <1>1. /\ VolumeScan("Locked") = Sum(owes, L)
        /\ VolumeOf("PartiallyRefunded") = Sum(owes, Of({"PartiallyRefunded"}))
        /\ FullScan.locked = Sum(owes, A)
        /\ VolumeScan("Released") = Sum(first, R)
    BY DEF VolumeScan, VolumeOf, FullScan, Active
  <1>2. \A b \in Bounties : /\ owes[b] \in Nat /\ first[b] \in Nat /\ Payouts[b] \in Nat
                            /\ b \in R => first[b] <= Payouts[b]
    BY OwedBySums DEF Of
  <1>3. /\ A \in SUBSET Bounties /\ L \in SUBSET A /\ R \in SUBSET Bounties
        /\ A \ L = Of({"PartiallyRefunded"})
    BY DEF Of, Active
  <1>. HIDE DEF owes, first, L, A, R
  <1>4. IsFiniteSet(A) /\ IsFiniteSet(R) /\ IsFiniteSet(Bounties)
    BY <1>3, BatchIsCounted, BountiesAssumption
  <1>5. Sum(owes, A) = Sum(owes, L) + Sum(owes, A \ L)
    <2>1. \A b \in A : owes[b] \in Int
      BY <1>2, <1>3
    <2>. QED
      BY <1>3, <1>4, <2>1, SumSplit
  <1>6. Sum(first, R) <= Sum(Payouts, R)
    <2>1. \A b \in R : first[b] \in Int /\ Payouts[b] \in Int /\ first[b] <= Payouts[b]
      BY <1>2, <1>3
    <2>. QED
      BY <1>4, <2>1, SumMonotone
  <1>7. Sum(Payouts, R) <= Sum(Payouts, Bounties)
    BY <1>2, <1>3, <1>4, SumBounds
  <1>8. Sum(first, R) \in Nat /\ Sum(Payouts, R) \in Nat /\ Sum(Payouts, Bounties) \in Nat
    <2>1. \A b \in R : first[b] \in Nat /\ Payouts[b] \in Nat
      BY <1>2, <1>3
    <2>. QED
      BY <1>2, <1>4, <2>1, SumNat
  <1>9. VolumeOf("Released") = Sum(Payouts, Bounties)
    BY DEF VolumeOf, TotalsAreSums
  <1>10. VolumeScan("Locked") + VolumeOf("PartiallyRefunded") = FullScan.locked
    BY <1>1, <1>3, <1>5, Zenon
  <1>11. VolumeOf("Released") >= VolumeScan("Released")
    <2>1. Sum(first, R) <= Sum(Payouts, Bounties)
      BY <1>6, <1>7, <1>8
    <2>. QED
      BY <1>1, <1>8, <1>9, <2>1
  <1>. QED
    BY <1>10, <1>11

\* The average of get_contract_analytics does not exceed what was locked.
LEMMA AverageReconciles ==
    ASSUME TypeOK, CountsMatchScan, TotalsAreSums
    PROVE  AverageBounty * Cardinality(Of(Active \cup Settled))
               <= Sum([b \in Bounties |-> escrow[b].amount], Bounties)
  <1>. DEFINE n == count.locked + count.released + count.refunded
              x == total.locked + total.released + total.refunded
              D == Sum(Deposits, Bounties)
  <1>1. n = Cardinality(Of(Active \cup Settled)) /\ n \in Nat
    BY CountsReconcile DEF TypeOK
  <1>2. x = D /\ D \in Nat
    <2>1. /\ D \in Nat /\ Sum(Payouts, Bounties) \in Nat /\ Sum(Refunds, Bounties) \in Nat
      BY SumsAreNumbers
    <2>2. /\ total.locked = (D - Sum(Payouts, Bounties)) - Sum(Refunds, Bounties)
          /\ total.released = Sum(Payouts, Bounties) /\ total.refunded = Sum(Refunds, Bounties)
      BY DEF TotalsAreSums
    <2>. HIDE DEF D
    <2>. QED
      BY <2>1, <2>2
  <1>3. AverageBounty = IF n = 0 THEN 0 ELSE x \div n
    BY DEF AverageBounty
  <1>4. D = Sum([b \in Bounties |-> escrow[b].amount], Bounties)
    BY DEF Deposits
  <1>. HIDE DEF n, x, D
  <1>5. AverageBounty * n <= D
    <2>1. CASE n = 0
      BY <1>2, <1>3, <2>1
    <2>2. CASE n # 0
      BY <1>1, <1>2, <1>3, <2>2, QuotientIsBelow
    <2>. QED
      BY <2>1, <2>2
  <1>. QED
    BY <1>1, <1>4, <1>5

\* The counters and the views that scan all escrows tell the same, but for the
\* departures that ScanReconciles names.
THEOREM ScanAlwaysReconciles == Spec => []ScanReconciles
  <1>1. ASSUME TypeOK, BooksBalance, NoReleaseAfterRefund, CountsMatchScan,
               Unopened, TotalsAreSums, BalanceIsTracked, LockedIsExplained
        PROVE  ScanReconciles
    <2>1. total.refunded = FullScan.refunded
      BY <1>1 DEF TotalsAreSums, FullScan, ScannedRefund, Refunds
    <2>. QED
      BY <1>1, <2>1, TotalsReconcile, CountsReconcile, VolumesReconcile, AverageReconciles
         DEF ScanReconciles
  <1>. QED
    BY <1>1, TypesAreKept, BooksAlwaysBalance, NeverReleasedAfterRefund, CountsAlwaysMatchScan,
       TotalsAreAlwaysSums, BalanceIsAlwaysTracked, LockedIsAlwaysExplained, PTL

-----------------------------------------------------------------------------
(* Announced refunds *)

\* An approval that is stored is for an amount.
ApprovalsAreReal ==
    \A b \in Bounties : refundApproval[b].mode # "None" => refundApproval[b].amount >= 1

\* An operation approves a refund of at least 1, or takes the approval away.
LEMMA StepKeepsApprovals ==
    ASSUME TypeOK, ApprovalsAreReal, [Next]_vars
    PROVE  ApprovalsAreReal'
<1>1. ASSUME NEW b \in Bounties, ApproveRefund(b) PROVE ApprovalsAreReal'
  <2> PICK amount \in 1 .. escrow[b].remaining, mode \in {"Full", "Partial"} :
           refundApproval' = [refundApproval EXCEPT ![b] = [mode |-> mode, amount |-> amount]]
      BY <1>1 DEF ApproveRefund
  <2>1. amount >= 1
      BY DEF TypeOK, Escrow
  <2> QED BY <2>1 DEF TypeOK, ApprovalsAreReal
<1>2. ASSUME NEW b \in Bounties, Refund(b) PROVE ApprovalsAreReal'
  <2>1. refundApproval' = [refundApproval EXCEPT ![b] = NoApproval]
      BY <1>2 DEF Refund
  <2> QED BY <2>1 DEF TypeOK, ApprovalsAreReal, NoApproval
<1>3. CASE UNCHANGED refundApproval
    BY <1>3 DEF ApprovalsAreReal
<1>4. ASSUME NEW b \in Bounties,
             \/ LockFunds(b) \/ ReleaseFunds(b) \/ PartialRelease(b) \/ AuthorizeClaim(b)
             \/ ClaimFunds(b) \/ CancelPendingClaim(b)
             \/ \E s \in Signers : ApproveLargeRelease(b, s)
      PROVE  UNCHANGED refundApproval
    BY <1>4 DEF LockFunds, Lock, ReleaseFunds, PartialRelease, AuthorizeClaim, ClaimFunds,
                CancelPendingClaim, ApproveLargeRelease
<1>5. ASSUME NEW S \in SUBSET Bounties,
             BatchLockFunds(S) \/ BatchReleaseFunds(S) \/ SweepExpiredRefunds(S)
      PROVE  UNCHANGED refundApproval
    BY <1>5 DEF BatchLockFunds, Lock, BatchReleaseFunds, SweepExpiredRefunds
<1>6. Configure \/ Gift \/ Tick \/ UNCHANGED vars => UNCHANGED refundApproval
    BY DEF Configure, UpdateMultisigConfig, SetAmountPolicy, SetClaimWindow, SetPaused,
           SetEmergencyPause, GovernanceChange, Gift, Tick, vars
<1> QED BY <1>1, <1>2, <1>3, <1>4, <1>5, <1>6 DEF Next

\* So an approval on file is of at least 1 in every reachable state.
LEMMA ApprovalsAlwaysReal == Spec => []ApprovalsAreReal
<1>1. Init => ApprovalsAreReal
    BY DEF Init, ApprovalsAreReal, NoApproval
<1>2. TypeOK /\ ApprovalsAreReal /\ [Next]_vars => ApprovalsAreReal'
    BY StepKeepsApprovals
<1> QED BY <1>1, <1>2, TypesAreKept, PTL DEF Spec

\* A call that refunds one bounty finds its guards: they are necessary.
LEMMA RefundNeedsGuards ==
    ASSUME TypeOK, NEW b \in Bounties, Refund(b) \/ SweepExpiredRefunds({b})
    PROVE  RefundPossible(b)
<1>1. CASE Refund(b)
    BY <1>1 DEF Refund, TransferOut, RefundPossible, RefundSucceeds, SweepSucceeds
<1>2. CASE SweepExpiredRefunds({b})
  <2> PICK due : due = [c \in {b} |-> escrow[c].remaining]
      OBVIOUS
  <2>1. due[b] = escrow[b].remaining /\ due[b] \in Int
      BY DEF TypeOK, Escrow
  <2>2. Sum(due, {b}) = due[b]
      BY <2>1, SumSingleton
  <2>3. Sum(due, {b}) <= held
      BY <1>2, Zenon DEF SweepExpiredRefunds, TransferOut
  <2> QED BY <1>2, <2>1, <2>2, <2>3 DEF SweepExpiredRefunds, RefundPossible, RefundSucceeds, SweepSucceeds
<1> QED BY <1>1, <1>2

\* What the eligibility view announces is what the guards of the two calls
\* admit, and no call refunds a bounty that it calls not refundable.
THEOREM RefundsAlwaysAnnounced ==
    Spec => /\ [](\A b \in Bounties : RefundAnnounced(b))
            /\ [][\A b \in Bounties :
                     Refund(b) \/ SweepExpiredRefunds({b}) => CanRefund(b)]_vars
<1> DEFINE Announced == \A b \in Bounties : RefundAnnounced(b)
           Refundables == \A b \in Bounties : Refund(b) \/ SweepExpiredRefunds({b}) => CanRefund(b)
<1>1. ASSUME TypeOK, ApprovalsAreReal, BalanceIsTracked PROVE Announced
  <2> SUFFICES ASSUME NEW b \in Bounties PROVE RefundAnnounced(b)
      OBVIOUS
  <2>1. /\ escrow[b].remaining \in Nat /\ escrow[b].deadline \in Nat /\ now \in Nat
        /\ refundApproval[b].amount \in Nat
        /\ refundApproval[b].mode # "None" => refundApproval[b].amount >= 1
      BY <1>1, BoundsAssumption DEF TypeOK, Escrow, RefundApproval, ApprovalsAreReal
  <2>0. held \in Int
      BY <1>1 DEF BalanceIsTracked
  <2>2. RefundPossible(b) => CanRefund(b)
      BY DEF RefundPossible, RefundSucceeds, SweepSucceeds, RefundAllowed, Sweepable, Refundable, CanRefund
  <2>3. ASSUME CanRefund(b), Undisputed(b), ~Paused("refund"), govOk, escrow[b].remaining # 0,
               ~(held < escrow[b].remaining),
               ~(now < escrow[b].deadline /\ refundApproval[b].amount > escrow[b].remaining)
        PROVE  RefundPossible(b)
    <3>1. Refundable(b) /\ escrow[b].remaining <= held
        BY <2>0, <2>1, <2>3 DEF Refundable, CanRefund
    <3>2. CASE now >= escrow[b].deadline
        BY <2>1, <2>3, <3>1, <3>2 DEF RefundPossible, RefundSucceeds, SweepSucceeds, Sweepable
    <3>3. CASE now < escrow[b].deadline
      <4>1. refundApproval[b].mode # "None"
          BY <2>1, <2>3, <3>3 DEF CanRefund
      <4>2. RefundAmount(b) \in 1 .. escrow[b].remaining
          BY <2>1, <2>3, <3>3, <4>1 DEF RefundAmount
      <4>3. RefundAmount(b) <= held
          BY <2>0, <2>1, <3>1, <4>2
      <4> QED BY <2>3, <3>1, <4>1, <4>2, <4>3 DEF RefundPossible, RefundSucceeds, SweepSucceeds, RefundAllowed
    <3> QED BY <2>1, <3>2, <3>3
  <2> QED BY <2>2, <2>3 DEF RefundAnnounced
<1>2. ASSUME TypeOK, ApprovalsAreReal, BalanceIsTracked PROVE Refundables
    BY <1>1, <1>2, RefundNeedsGuards DEF RefundAnnounced
<1>3. TypeOK /\ ApprovalsAreReal /\ BalanceIsTracked => [Refundables]_vars
    BY <1>2
<1> HIDE DEF Announced, Refundables
<1>4. Spec => []Announced /\ [][Refundables]_vars
    BY <1>1, <1>3, TypesAreKept, ApprovalsAlwaysReal, BalanceIsAlwaysTracked, PTL
<1> QED BY <1>4 DEF Announced, Refundables

-----------------------------------------------------------------------------
(* Liveness *)

\* What the keeper is assumed to do for one bounty
Swept(b) == WF_vars(SweepExpiredRefunds({b}))
KeeperSweeps == \A b \in Bounties : Swept(b)

\* An expired bounty that owes something, with nothing against its refund
Due(b) ==
    /\ Expired(b)
    /\ Undisputed(b) /\ ~Paused("refund") /\ govOk
    /\ ~(held < escrow[b].remaining)

\* What the property lets an expired bounty come to
Over(b) ==
    \/ escrow[b].status \in Settled
    \/ ~Undisputed(b)
    \/ Paused("refund") \/ ~govOk
    \/ held < escrow[b].remaining

\* The ledger's time does not go back.
LEMMA TimeAdvances ==
    ASSUME TypeOK, [Next]_vars
    PROVE  now <= now'
<1>1. now \in Int
    BY BoundsAssumption DEF TypeOK
<1>2. ASSUME NEW b \in Bounties,
             \/ LockFunds(b) \/ ReleaseFunds(b) \/ PartialRelease(b) \/ AuthorizeClaim(b)
             \/ ClaimFunds(b) \/ CancelPendingClaim(b) \/ ApproveRefund(b) \/ Refund(b)
             \/ \E s \in Signers : ApproveLargeRelease(b, s)
      PROVE  now' = now
    BY <1>2 DEF LockFunds, Lock, ReleaseFunds, PartialRelease, AuthorizeClaim, ClaimFunds,
                CancelPendingClaim, ApproveRefund, Refund, ApproveLargeRelease
<1>3. ASSUME NEW S \in SUBSET Bounties,
             BatchLockFunds(S) \/ BatchReleaseFunds(S) \/ SweepExpiredRefunds(S)
      PROVE  now' = now
    BY <1>3 DEF BatchLockFunds, Lock, BatchReleaseFunds, SweepExpiredRefunds
<1>4. Configure \/ Gift \/ UNCHANGED vars => now' = now
    BY DEF Configure, UpdateMultisigConfig, SetAmountPolicy, SetClaimWindow, SetPaused,
           SetEmergencyPause, GovernanceChange, Gift, vars
<1>5. Tick => now' = now + 1
    BY DEF Tick
<1>6. now' = now \/ now' = now + 1
    BY <1>2, <1>3, <1>4, <1>5 DEF Next
<1> QED BY <1>1, <1>6

\* Whatever is called on an expired bounty, it stays expired or it is over.
LEMMA ExpiredStays ==
    ASSUME TypeOK, ClaimsAreBacked, NEW b \in Bounties, Due(b), [Next]_vars
    PROVE  Due(b)' \/ Over(b)'
<1>1. /\ escrow[b] \in Escrow /\ now \in Int
      /\ now <= now'
    BY TimeAdvances, BoundsAssumption DEF TypeOK
<1>2. now' \in Int
    BY NextTyped, BoundsAssumption DEF TypeOK
<1>3. escrow[b].status \in Active /\ escrow[b].remaining > 0 /\ now >= escrow[b].deadline
    BY DEF Due, Expired
<1>4. SUFFICES ASSUME ~Over(b)' PROVE Expired(b)'
    BY DEF Due, Over
<1>5. Effect(b)
    BY EveryStepHasAnEffect
<1>6. escrow'[b].status \notin Settled
    BY <1>4 DEF Over
<1>7. /\ escrow'[b].status \in Active /\ escrow'[b].remaining > 0
      /\ escrow'[b].deadline = escrow[b].deadline
  <2>1. CASE Kept(b) \/ ClaimSet(b) \/ ClaimDropped(b)
      BY <1>3, <2>1 DEF Kept, ClaimSet, ClaimDropped
  <2>2. CASE Opened(b)
      BY <1>3, <2>2 DEF Opened, Active
  <2>3. CASE ReleasedInFull(b) \/ ClaimPaid(b)
      BY <1>1, <1>6, <2>3 DEF ReleasedInFull, ClaimPaid, Settled, Escrow
  <2>4. CASE ReleasedInPart(b)
    <3>1. PICK payout \in 1 .. escrow[b].remaining :
              escrow'[b] = [escrow[b] EXCEPT
                             !.remaining = escrow[b].remaining - payout,
                             !.status = IF escrow[b].remaining - payout = 0
                                        THEN "Released" ELSE escrow[b].status]
        BY <2>4 DEF ReleasedInPart
    <3> QED BY <1>1, <1>3, <1>6, <3>1 DEF Settled, Escrow
  <2>5. CASE RefundedInPart(b)
    <3>1. PICK x \in 1 .. escrow[b].remaining, status \in {"PartiallyRefunded", "Refunded"} :
              /\ status = "PartiallyRefunded" => x < escrow[b].remaining
              /\ escrow'[b] = [escrow[b] EXCEPT !.remaining = escrow[b].remaining - x,
                                                !.refunded = escrow[b].refunded + x,
                                                !.status = status]
        BY <2>5 DEF RefundedInPart
    <3> QED BY <1>1, <1>3, <1>6, <3>1 DEF Settled, Active, Escrow
  <2> QED BY <1>5, <2>1, <2>2, <2>3, <2>4, <2>5 DEF Effect
<1> QED BY <1>1, <1>2, <1>3, <1>7 DEF Expired, Escrow

\* A sweep of a bounty settles it.
LEMMA SweepSettles ==
    ASSUME NEW b \in Bounties, TypeOK, SweepExpiredRefunds({b})
    PROVE  Over(b)'
<1>1. escrow'[b].status = "Refunded"
    BY Zenon DEF SweepExpiredRefunds, TypeOK, Escrow
<1> QED BY <1>1 DEF Over, Settled

\* Under the keeper's fairness every expired bounty that owes something is
\* settled in the end, or a claim, a pause, the governance version or the balance
\* stands against it.  That the guards of the sweep are enough for it to succeed
\* is the hypothesis: the part of RefundIsAsAnnounced about ENABLED.
THEOREM ExpiredAlwaysSettled == FairSpec /\ []RefundIsAsAnnounced => ExpiredIsSettled
<1>1. SUFFICES ASSUME NEW b \in Bounties
               PROVE  FairSpec /\ []RefundIsAsAnnounced => (Expired(b) ~> Over(b))
    BY <1>1 DEF ExpiredIsSettled, Over
<1>2. FairSpec => Spec /\ KeeperSweeps
    BY PTL DEF FairSpec, KeeperSweeps, Swept
<1>3. KeeperSweeps => Swept(b)
    BY DEF KeeperSweeps
<1>4. Expired(b) => Due(b) \/ Over(b)
    BY DEF Due, Over
<1>5. RefundIsAsAnnounced => (SweepSucceeds(b) => ENABLED <<SweepExpiredRefunds({b})>>_vars)
    BY DEF RefundIsAsAnnounced
<1>6. TypeOK /\ BalanceIsTracked /\ Due(b) => SweepSucceeds(b)
  <2> SUFFICES ASSUME TypeOK, BalanceIsTracked, Due(b) PROVE SweepSucceeds(b)
      OBVIOUS
  <2>1. held \in Int /\ escrow[b].remaining \in Int
      BY DEF BalanceIsTracked, TypeOK, Escrow
  <2> QED BY <2>1 DEF Due, Expired, SweepSucceeds, Sweepable, Refundable
<1>7. TypeOK /\ ClaimsAreBacked /\ Due(b) /\ [Next]_vars => Due(b)' \/ Over(b)'
    BY ExpiredStays
<1>8. TypeOK /\ Due(b) /\ <<SweepExpiredRefunds({b})>>_vars => Over(b)'
    BY SweepSettles
<1> QED BY <1>2, <1>3, <1>4, <1>5, <1>6, <1>7, <1>8,
           TypesAreKept, ClaimsAreAlwaysBacked, BalanceIsAlwaysTracked, PTL DEF Spec, Swept
=============================================================================
