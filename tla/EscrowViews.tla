----------------------------- MODULE EscrowViews -----------------------------
(***************************************************************************)
(* The views of the bounty escrow that recompute from the escrows what the *)
(* contract keeps in counters, and the one that tells whether a refund is  *)
(* possible (bounty_escrow/contracts/escrow/src/lib.rs).  Views write      *)
(* nothing: this module adds no action, and its properties relate what a   *)
(* view answers to the counters and to the calls that follow.  EscrowIndex *)
(* lists the bounties that were locked; the others have nothing to add.    *)
(***************************************************************************)
EXTENDS BountyEscrow

Of(states) == {b \in Bounties : escrow[b].status \in states}

\* Mutant: a refund that is not the last is left out of the scan
ScannedRefundOnce(b) == IF escrow[b].status = "Refunded" THEN escrow[b].refunded ELSE 0

ScannedRefund(b) == escrow[b].refunded

\* get_aggregate_stats_full_scan: what was released is inferred
FullScan ==
    [locked |-> Sum([b \in Bounties |-> escrow[b].remaining], Of(Active)),
     released |-> Sum([b \in Bounties |->
                         escrow[b].amount - escrow[b].remaining - ScannedRefund(b)], Bounties),
     refunded |-> Sum([b \in Bounties |-> ScannedRefund(b)], Bounties)]

\* count_by_status_full_scan, and count_bounties_by_status for the counters
CountScan(status) == Cardinality(Of({status}))

CountOf(status) ==
    CASE status = "Locked" -> count.locked
      [] status = "Released" -> count.released
      [] status = "Refunded" -> count.refunded
      [] status = "PartiallyRefunded" -> CountScan("PartiallyRefunded")

\* volume_by_status_full_scan, and get_volume_by_status for the counters
VolumeScan(status) ==
    Sum([b \in Bounties |-> IF status \in Active THEN escrow[b].remaining ELSE escrow[b].amount],
        Of({status}))

VolumeOf(status) ==
    CASE status = "Locked" -> total.locked
      [] status = "Released" -> total.released
      [] status = "Refunded" -> total.refunded
      [] status = "PartiallyRefunded" -> VolumeScan("PartiallyRefunded")

\* get_contract_analytics
AverageBounty ==
    LET bounties == count.locked + count.released + count.refunded
    IN  IF bounties = 0 THEN 0
        ELSE (total.locked + total.released + total.refunded) \div bounties

\* Mutant: a partly refunded bounty is not looked at
CanRefundFirst(b) ==
    /\ escrow[b].status = "Locked"
    /\ now >= escrow[b].deadline \/ refundApproval[b].mode # "None"

\* can_refund of get_refund_eligibility
CanRefund(b) ==
    /\ escrow[b].status \in Active
    /\ now >= escrow[b].deadline \/ refundApproval[b].mode # "None"

-----------------------------------------------------------------------------
(* Properties *)

\* The counters and the full scan that is meant to verify them tell the same,
\* through batches, claims, sweeps and parts, but for the two known departures:
\* a released bounty that was paid more than its amount, and a refunded one
\* with a rest.  Refunds agree in any case, the counts do but for counting the
\* partly refunded twice over.  The volume of the released is what bounties that
\* are released were locked with, and parts of others.  The average is over
\* everything ever locked.  get_balance is at least the running total of the
\* locked, more only by what was sent straight to the contract, and the analytics
\* and claim records explain where the rest of what was locked went.
ScanReconciles ==
    /\ BalanceIsTracked /\ LockedIsExplained
    /\ total.refunded = FullScan.refunded
    /\ (\A b \in Of(Settled) : escrow[b].remaining = 0 /\ PaidOut(b) = escrow[b].amount)
           => total = FullScan
    /\ \A s \in Settled : CountOf(s) = CountScan(s)
    /\ CountOf("Locked") - CountOf("PartiallyRefunded") = CountScan("Locked")
    /\ VolumeScan("Locked") + VolumeOf("PartiallyRefunded") = FullScan.locked
    /\ VolumeOf("Released") >= VolumeScan("Released")
    /\ AverageBounty * Cardinality(Of(Active \cup Settled))
           <= Sum([b \in Bounties |-> escrow[b].amount], Bounties)

\* The guards of refund, those of a sweep of one bounty, each with the token's
RefundSucceeds(b) == RefundAllowed(b) /\ RefundAmount(b) <= held

SweepSucceeds(b) ==
    govOk /\ Sweepable(b) /\ ~Paused("refund") /\ escrow[b].remaining <= held

RefundPossible(b) == RefundSucceeds(b) \/ SweepSucceeds(b)

\* Nothing is refundable that get_refund_eligibility calls not refundable.
\* What it calls refundable can be refunded, or swept where an approval outlived
\* the amount it was given for, unless a claim, a pause, the governance version
\* or the balance stand against it, which it does not look at, or nothing is
\* left to refund.
RefundAnnounced(b) ==
    /\ RefundPossible(b) => CanRefund(b)
    /\ CanRefund(b) =>
          \/ RefundPossible(b)
          \/ ~Undisputed(b) \/ Paused("refund") \/ ~govOk
          \/ escrow[b].remaining = 0
          \/ held < escrow[b].remaining
          \/ now < escrow[b].deadline /\ refundApproval[b].amount > escrow[b].remaining

\* What get_refund_eligibility announces is what a caller of refund or of
\* sweep_expired_refunds finds, and a keeper's sweep of one bounty has an effect.
RefundIsAsAnnounced ==
    \A b \in Bounties :
        /\ RefundSucceeds(b) <=> ENABLED Refund(b)
        /\ SweepSucceeds(b) <=> ENABLED <<SweepExpiredRefunds({b})>>_vars
        /\ RefundAnnounced(b)
=============================================================================
