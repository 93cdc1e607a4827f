---------------------------- MODULE ErrorRecovery ----------------------------
(***************************************************************************)
(* The circuit breaker and the bounded retry of the bounty escrow          *)
(* (bounty_escrow/contracts/escrow/src/error_recovery.rs) with the entry   *)
(* points that administer it.  Unlike CircuitBreaker, which it implements, *)
(* it counts and logs failures and opens itself.                           *)
(*                                                                         *)
(* The entry points of the bounty escrow ask check_and_allow and report no *)
(* outcome, so there the circuit stays closed: what is modelled is the     *)
(* library, under any caller that reports outcomes as its documentation    *)
(* asks for, and execute_with_retry, which does.                           *)
(*                                                                         *)
(* execute_with_retry runs in one transaction, so nothing but the          *)
(* operation it retries runs between its attempts.  The operation fails,   *)
(* succeeds, or runs other protected operations whose failures count too;  *)
(* outside of a retry the primitives are called one by one.  Timestamps    *)
(* are only reported and are left out, and so is what the log says of an   *)
(* operation.                                                              *)
(***************************************************************************)
EXTENDS Integers, Sequences

CONSTANTS
    Admins,             \* addresses that may be circuit breaker admin
    FailureThresholds,  \* failure thresholds the contract admin sets
    SuccessThresholds,  \* success thresholds
    LogSizes,           \* sizes of the error log
    DefaultLog,         \* max_error_log of the default configuration
    Budgets,            \* values of RetryConfig::max_attempts
    MaxFailures         \* bound on the number of failures in a row

Nobody == "nobody"

ASSUME BreakerAssumption ==
    /\ FailureThresholds \subseteq Nat \ {0}  \* 0 is an invalid configuration
    /\ SuccessThresholds \subseteq Nat /\ LogSizes \subseteq Nat /\ Budgets \subseteq Nat
    /\ DefaultLog \in Nat /\ MaxFailures \in Nat /\ Nobody \notin Admins

VARIABLES
    circuit,    \* CircuitBreakerKey::State
    failures,   \* CircuitBreakerKey::FailureCount
    successes,  \* CircuitBreakerKey::SuccessCount
    config,     \* CircuitBreakerKey::Config
    log,        \* failure_count_at_time of the entries in CircuitBreakerKey::ErrorLog
    admin,      \* CircuitBreakerKey::Admin
    retry       \* the locals of execute_with_retry

breakerVars == <<circuit, failures, successes, log>>
vars == <<breakerVars, config, admin, retry>>

Config == [failure : Nat \ {0}, success : Nat, log : Nat]
Default == [failure |-> 3, success |-> 1, log |-> DefaultLog]

\* Where execute_with_retry is, and what it returned last
Retry == [at : {"returned", "loop", "op"}, attempts : Nat, budget : Nat,
          result : {"none", "succeeded", "circuit open", "retries exhausted"}]
NoRetry == [at |-> "returned", attempts |-> 0, budget |-> 0, result |-> "none"]

Init ==
    /\ circuit = "Closed" /\ failures = 0 /\ successes = 0
    /\ config = Default
    /\ log = <<>>
    /\ admin = Nobody
    /\ retry = NoRetry

-----------------------------------------------------------------------------
(* The primitives *)

CheckAndAllow == circuit # "Open"

\* Mutant: a reset leaves the failures of the last streak counted
CloseKeeping == circuit' = "Closed" /\ successes' = 0 /\ UNCHANGED failures

Close == circuit' = "Closed" /\ successes' = 0 /\ failures' = 0

\* Mutant: a success while the circuit is open closes it
RecordSuccessOpen ==
    /\ UNCHANGED log
    /\ IF circuit = "HalfOpen" /\ successes + 1 < config.success
       THEN successes' = successes + 1 /\ UNCHANGED <<circuit, failures>>
       ELSE Close

\* In the closed state only the counters are reset
RecordSuccess ==
    /\ UNCHANGED log
    /\ \/ circuit = "Closed" /\ Close
       \/ circuit = "HalfOpen" /\ successes + 1 >= config.success /\ Close
       \/ /\ circuit = "HalfOpen" /\ successes + 1 < config.success
          /\ successes' = successes + 1
          /\ UNCHANGED <<circuit, failures>>
       \/ circuit = "Open" /\ UNCHANGED <<circuit, failures, successes>>

\* Mutant: the log is trimmed before the failure is appended, at the wrong end
LoggedFirst(n) == IF Len(log) < config.log THEN Append(log, n) ELSE log

\* The oldest entries go
Logged(n) ==
    LET longer == Append(log, n)
    IN  IF Len(longer) <= config.log THEN longer
        ELSE SubSeq(longer, Len(longer) - config.log + 1, Len(longer))

\* In any state of the circuit: a failure while it is open trips it again
Trips(n) == n >= config.failure

RecordFailure ==
    /\ failures < MaxFailures
    /\ failures' = failures + 1
    /\ log' = Logged(failures + 1)
    /\ IF Trips(failures + 1) THEN circuit' = "Open" /\ successes' = 0
       ELSE UNCHANGED <<circuit, successes>>

-----------------------------------------------------------------------------
(* Administration *)

Idle == retry.at = "returned"

HalfOpened == circuit' = "HalfOpen" /\ successes' = 0 /\ UNCHANGED failures

\* reset_circuit, by the registered circuit breaker admin
Reset ==
    /\ Idle /\ admin # Nobody
    /\ IF circuit = "Open" THEN HalfOpened ELSE Close
    /\ UNCHANGED <<log, config, admin, retry>>

\* set_circuit_breaker_config, by the contract admin; counts and log stay
SetConfig(failure, success, size) ==
    /\ Idle
    /\ config' = [failure |-> failure, success |-> success, log |-> size]
    /\ UNCHANGED <<breakerVars, admin, retry>>

\* set_circuit_breaker_admin hands the role over in the current admin's name,
\* who has to sign as well once there is one
SetAdmin(new) ==
    /\ Idle
    /\ admin' = new
    /\ UNCHANGED <<breakerVars, config, retry>>

\* A protected operation outside of a retry, that reports its outcome
Operate ==
    /\ Idle /\ CheckAndAllow
    /\ RecordSuccess \/ RecordFailure
    /\ UNCHANGED <<config, admin, retry>>

-----------------------------------------------------------------------------
(* execute_with_retry *)

Call(budget) ==
    /\ Idle
    /\ retry' = [at |-> "loop", attempts |-> 0, budget |-> budget, result |-> "none"]
    /\ UNCHANGED <<breakerVars, config, admin>>

Return(result) == retry' = [retry EXCEPT !.at = "returned", !.result = result]

\* Mutant: the circuit is asked once, before the first attempt
AllowedFirst == CheckAndAllow \/ retry.attempts > 0

Allowed == CheckAndAllow

\* The head of the loop
Attempt ==
    /\ retry.at = "loop"
    /\ \/ /\ retry.attempts = retry.budget
          /\ Return("retries exhausted")
       \/ /\ retry.attempts < retry.budget /\ ~Allowed
          /\ Return("circuit open")
       \/ /\ retry.attempts < retry.budget /\ Allowed
          /\ retry' = [retry EXCEPT !.at = "op", !.attempts = @ + 1]
    /\ UNCHANGED <<breakerVars, config, admin>>

\* Operations that the operation runs, and that fail
FailWithin ==
    /\ retry.at = "op"
    /\ RecordFailure
    /\ UNCHANGED <<config, admin, retry>>

Succeed ==
    /\ retry.at = "op"
    /\ RecordSuccess
    /\ Return("succeeded")
    /\ UNCHANGED <<config, admin>>

Fail ==
    /\ retry.at = "op"
    /\ RecordFailure
    /\ retry' = [retry EXCEPT !.at = "loop"]
    /\ UNCHANGED <<config, admin>>

Next ==
    \/ Operate
    \/ Reset
    \/ \E failure \in FailureThresholds, success \in SuccessThresholds, size \in LogSizes :
          SetConfig(failure, success, size)
    \/ \E new \in Admins : SetAdmin(new)
    \/ \E budget \in Budgets : Call(budget)
    \/ Attempt \/ FailWithin \/ Succeed \/ Fail

Spec == Init /\ [][Next]_vars

-----------------------------------------------------------------------------
(* Properties *)

\* Every variable has its type.
TypeOK ==
    /\ circuit \in {"Closed", "Open", "HalfOpen"}
    /\ failures \in Nat /\ successes \in Nat
    /\ config \in Config
    /\ log \in Seq(Nat)
    /\ admin \in Admins \cup {Nobody}
    /\ retry \in Retry

\* What the rest of the contract sees of the breaker is the circuit breaker of
\* the program escrow with a default configuration: failures may open it at any
\* time, and nothing but a reset and successes closes it.
Breaker == INSTANCE CircuitBreaker WITH successThreshold <- config.success

IsCircuitBreaker == Breaker!CircuitSpec

\* The log ends with the streak of failures that is being counted, from the
\* newest back to the oldest it has room for, whatever was reset and however
\* the size was changed.
LogEndsWithStreak ==
    \A i \in 1 .. Len(log) :
        Len(log) - i < failures => log[i] = failures - (Len(log) - i)

\* Nothing but a new configuration leaves the circuit closed with as many
\* failures as its threshold: not a reset, a retry, or a success half open.
Guarded == circuit = "Closed" => failures < config.failure

ThresholdHolds == [][Guarded => Guarded' \/ config' # config]_vars

\* execute_with_retry never runs the operation while the circuit is open and
\* never beyond its budget, also when the operation itself opens the circuit;
\* it gives up for the reason that applies, and no failed attempt goes by
\* without being counted and tripping the circuit if it is one too many.
RetriesRespectCircuit ==
    [][/\ retry'.attempts > retry.attempts => circuit # "Open" /\ retry.attempts < retry.budget
       /\ retry.at = "loop" /\ Idle' =>
             \/ retry'.result = "circuit open" /\ circuit = "Open"
             \/ retry'.result = "retries exhausted" /\ retry.attempts = retry.budget
       /\ retry.at = "op" /\ retry'.at = "loop" =>
             failures' > failures /\ (failures' >= config.failure => circuit' = "Open")]_vars
=============================================================================
