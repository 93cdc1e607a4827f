---------------------------- MODULE CircuitBreaker ----------------------------
(***************************************************************************)
(* The circuit breaker of the program escrow                               *)
(* (program-escrow/src/error_recovery.rs): payouts ask it first and report *)
(* their success to it, its admin opens and resets it.  ProgramEscrow      *)
(* extends this module and calls its operators.                            *)
(*                                                                         *)
(* The failure count is left out: every record_failure of the program      *)
(* escrow is followed by a panic, which rolls it back, so the count stays  *)
(* 0 and no failure opens the circuit.                                     *)
(***************************************************************************)
EXTENDS Integers

CONSTANT SuccessThresholds  \* values configure_circuit_breaker is given
ASSUME SuccessThresholdsAssumption == SuccessThresholds \subseteq Nat

VARIABLES
    circuit,           \* CircuitBreakerKey::State
    successes,         \* CircuitBreakerKey::SuccessCount
    successThreshold   \* success_threshold of CircuitBreakerKey::Config

circuitVars == <<circuit, successes, successThreshold>>

CircuitState == {"Closed", "Open", "HalfOpen"}

\* The default configuration closes after one success
CircuitInit ==
    /\ circuit = "Closed"
    /\ successes = 0
    /\ successThreshold = 1

CircuitTypeOK ==
    /\ circuit \in CircuitState
    /\ successes \in Nat
    /\ successThreshold \in SuccessThresholds \cup {1}

CheckAndAllow == circuit # "Open"

MoveTo(target) ==
    /\ circuit' = target
    /\ successes' = 0
    /\ UNCHANGED successThreshold

RecordSuccess ==
    \/ /\ circuit = "Closed"
       /\ MoveTo("Closed")
    \/ /\ circuit = "HalfOpen"
       /\ successes + 1 >= successThreshold
       /\ MoveTo("Closed")
    \/ /\ circuit = "HalfOpen"
       /\ successes + 1 < successThreshold
       /\ successes' = successes + 1
       /\ UNCHANGED <<circuit, successThreshold>>
    \/ /\ circuit = "Open"
       /\ UNCHANGED circuitVars

\* An open circuit is reset in two steps, or by a reset and a success
ResetCircuit == MoveTo(IF circuit = "Open" THEN "HalfOpen" ELSE "Closed")

EmergencyOpen == MoveTo("Open")

\* Does not look at the successes already counted
ConfigureCircuit(threshold) ==
    /\ successThreshold' = threshold
    /\ UNCHANGED <<circuit, successes>>

CircuitNext ==
    \/ RecordSuccess
    \/ ResetCircuit
    \/ EmergencyOpen
    \/ \E threshold \in SuccessThresholds : ConfigureCircuit(threshold)

\* The breaker by itself, whoever its callers are
CircuitSpec == CircuitInit /\ [][CircuitNext]_circuitVars
=============================================================================
