--------------------------- MODULE ProgramEscrowDocs ---------------------------
(***************************************************************************)
(* What a test of the program escrow says of its circuit breaker and the   *)
(* code does not do.  This module adds the calls that panic after they     *)
(* called record_failure: as in every call that panics, all that they      *)
(* wrote is rolled back.                                                   *)
(***************************************************************************)
EXTENDS ProgramEscrow

CONSTANT FailureThreshold  \* failure_threshold, 3 by default

VARIABLE failed  \* history: payouts in a row that the balance did not cover

DocsInit == Init /\ failed = 0

\* single_payout, or batch_payout of one, beyond the remaining balance
RejectedPayout(r, amount) ==
    /\ PayoutsOpen
    /\ Undisputed({r}) /\ Payable(r)
    /\ amount > remaining
    /\ failed < FailureThreshold
    /\ failed' = failed + 1
    /\ UNCHANGED vars

\* trigger_program_releases that comes to a schedule beyond the balance
RejectedTrigger ==
    /\ CheckAndAllow /\ ~globalDispute
    /\ ~Covered
    /\ failed < FailureThreshold
    /\ failed' = failed + 1
    /\ UNCHANGED vars

\* Any payment starts the count anew; the breaker's admin does not interfere
DocsNext ==
    \/ \E r \in Recipients, amount \in Amounts : RejectedPayout(r, amount)
    \/ RejectedTrigger
    \/ /\ Next /\ UNCHANGED circuitVars
       /\ failed' = IF received' = received THEN failed ELSE 0

DocsSpec == DocsInit /\ [][DocsNext]_<<vars, failed>>

\* test_circuit_breaker_integration.rs:12-13: "Insufficient-balance failures
\* call `record_failure` and auto-open the circuit once `failure_threshold` is
\* reached".  The panic after record_failure takes the failure back, so no
\* number of failures opens the circuit.
FailuresOpenCircuit == failed >= FailureThreshold => circuit = "Open"
=============================================================================
