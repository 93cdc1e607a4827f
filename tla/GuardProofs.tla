----------------------------- MODULE GuardProofs -----------------------------
(***************************************************************************)
(* The circuit breaker with its retry, for any thresholds, log sizes and   *)
(* budgets, and the rate limiter, for any callers, configurations and last *)
(* timestamp.                                                              *)
(***************************************************************************)
EXTENDS ErrorRecovery, RateLimit, DataProofs

-----------------------------------------------------------------------------
(* The circuit breaker *)

\* What the calls do to the breaker: a success or failure is recorded, the
\* circuit is reset, or the counters and the log are left alone.
LEMMA StepsOnBreaker ==
    ASSUME [Next]_vars
    PROVE  \/ RecordSuccess /\ UNCHANGED config
           \/ RecordFailure /\ UNCHANGED config
           \/ Reset
           \/ UNCHANGED breakerVars
BY DEF Next, vars, Operate, Reset, SetConfig, SetAdmin, Call, Attempt, FailWithin, Succeed, Fail

\* The bounded error log stays a sequence of numbers.
LEMMA LogIsTyped ==
    ASSUME TypeOK, NEW n \in Nat
    PROVE  Logged(n) \in Seq(Nat)
<1> DEFINE longer == Append(log, n)
<1>1. longer \in Seq(Nat) /\ Len(longer) \in Nat /\ config.log \in Nat
    BY DEF TypeOK, Config
<1>2. CASE Len(longer) <= config.log
    BY <1>1, <1>2 DEF Logged
<1>3. CASE Len(longer) > config.log
  <2> HIDE DEF longer
  <2>1. \A i \in Len(longer) - config.log + 1 .. Len(longer) : longer[i] \in Nat
      BY <1>1, <1>3
  <2>2. SubSeq(longer, Len(longer) - config.log + 1, Len(longer)) \in Seq(Nat)
      BY <2>1, <1>1, SubSeqProperties
  <2> QED BY <1>1, <1>3, <2>2 DEF Logged, longer
<1> QED BY <1>1, <1>2, <1>3

\* Every call, answer and reset of the breaker keeps the types.
LEMMA BreakerTypesStep == TypeOK /\ [Next]_vars => TypeOK'
<1> SUFFICES ASSUME TypeOK, [Next]_vars PROVE TypeOK'
    OBVIOUS
<1> USE BreakerAssumption
<1>1. /\ circuit' \in {"Closed", "Open", "HalfOpen"}
      /\ failures' \in Nat /\ successes' \in Nat
    BY StepsOnBreaker DEF TypeOK, RecordSuccess, RecordFailure, Reset, Close, HalfOpened,
                          breakerVars
<1>2. log' \in Seq(Nat)
  <2>1. CASE RecordFailure
    <3>1. failures + 1 \in Nat /\ log' = Logged(failures + 1)
        BY <2>1 DEF TypeOK, RecordFailure
    <3> QED BY <3>1, LogIsTyped
  <2>2. CASE RecordSuccess \/ Reset \/ UNCHANGED breakerVars
      BY <2>2 DEF TypeOK, RecordSuccess, Reset, breakerVars
  <2> QED BY <2>1, <2>2, StepsOnBreaker
<1>3. config' \in Config /\ admin' \in Admins \cup {Nobody}
  <2>1. CASE UNCHANGED <<config, admin>>
      BY <2>1 DEF TypeOK
  <2>2. ASSUME NEW failure \in FailureThresholds, NEW success \in SuccessThresholds,
               NEW size \in LogSizes, SetConfig(failure, success, size)
        PROVE  config' \in Config /\ admin' = admin
    <3>1. failure \in Nat \ {0} /\ success \in Nat /\ size \in Nat
        OBVIOUS
    <3> QED BY <2>2, <3>1 DEF SetConfig, Config
  <2>3. ASSUME NEW new \in Admins, SetAdmin(new) PROVE admin' \in Admins /\ config' = config
      BY <2>3 DEF SetAdmin, breakerVars
  <2>4. \/ UNCHANGED <<config, admin>>
        \/ \E failure \in FailureThresholds, success \in SuccessThresholds, size \in LogSizes :
              SetConfig(failure, success, size)
        \/ \E new \in Admins : SetAdmin(new)
      BY DEF Next, vars, Operate, Reset, Call, Attempt, FailWithin, Succeed, Fail
  <2> QED BY <2>1, <2>2, <2>3, <2>4 DEF TypeOK
<1>4. retry' \in Retry
  <2>1. CASE UNCHANGED retry
      BY <2>1 DEF TypeOK
  <2>2. ASSUME NEW budget \in Budgets, Call(budget) PROVE retry' \in Retry
      BY <2>2 DEF Call, Retry
  <2>3. CASE Attempt \/ Succeed \/ Fail
    <3>1. retry \in Retry /\ retry.attempts \in Nat
        BY DEF TypeOK, Retry
    <3> DEFINE n == retry.attempts + 1
    <3>3. CASE \E result \in {"succeeded", "circuit open", "retries exhausted"} : Return(result)
        BY <3>1, <3>3 DEF Return, Retry
    <3>4. CASE retry' = [retry EXCEPT !.at = "op", !.attempts = n]
      <4>1. n \in Nat
          BY <3>1
      <4> HIDE DEF n
      <4> QED BY <3>1, <3>4, <4>1 DEF Retry
    <3>5. CASE retry' = [retry EXCEPT !.at = "loop"]
        BY <3>1, <3>5 DEF Retry
    <3> QED BY <2>3, <3>3, <3>4, <3>5 DEF Attempt, Succeed, Fail
  <2> QED BY <2>1, <2>2, <2>3 DEF Next, vars, Operate, Reset, SetConfig, SetAdmin, FailWithin
<1> QED BY <1>1, <1>2, <1>3, <1>4 DEF TypeOK

\* Every variable of the breaker has its type.
THEOREM BreakerTypes == Spec => []TypeOK
<1>1. Init => TypeOK
    BY BreakerAssumption DEF Init, TypeOK, Default, Config, NoRetry, Retry
<1> QED BY <1>1, BreakerTypesStep, PTL DEF Spec

\* A closed circuit has fewer failures than its threshold, until that changes:
\* a failure that reaches it trips, and what closes the circuit starts again.
THEOREM ThresholdAlwaysHolds == Spec => ThresholdHolds
<1>1. TypeOK /\ [Next]_vars => (Guarded => Guarded' \/ config' # config)
  <2> SUFFICES ASSUME TypeOK, [Next]_vars, Guarded PROVE Guarded' \/ config' # config
      OBVIOUS
  <2>1. config.failure \in Nat /\ config.failure > 0 /\ failures \in Nat
      BY DEF TypeOK, Config
  <2>2. CASE RecordFailure /\ UNCHANGED config
      BY <2>1, <2>2 DEF RecordFailure, Trips, Guarded
  <2>3. CASE RecordSuccess \/ Reset
      BY <2>1, <2>3 DEF RecordSuccess, Reset, Close, HalfOpened, Guarded
  <2>4. CASE UNCHANGED breakerVars
      BY <2>4 DEF breakerVars, Guarded
  <2> QED BY <2>2, <2>3, <2>4, StepsOnBreaker
<1> QED BY <1>1, BreakerTypes, PTL DEF Spec, ThresholdHolds

-----------------------------------------------------------------------------
(* The retry *)

\* What a call does to the retry: nothing, it starts one, gives it up for the
\* reason that applies, attempts, or ends an attempt well or in a failure.
LEMMA StepsOnRetry ==
    ASSUME TypeOK, [Next]_vars
    PROVE  \/ retry'.at = retry.at /\ retry'.attempts = retry.attempts
           \/ retry.at = "returned" /\ retry'.at = "loop" /\ retry'.attempts = 0
           \/ /\ retry.at = "loop" /\ retry'.at = "returned" /\ retry'.attempts = retry.attempts
              /\ \/ retry'.result = "circuit open" /\ circuit = "Open"
                 \/ retry'.result = "retries exhausted" /\ retry.attempts = retry.budget
           \/ /\ retry.at = "loop" /\ retry'.at = "op"
              /\ retry.attempts < retry.budget /\ circuit # "Open"
           \/ retry.at = "op" /\ retry'.at = "returned" /\ retry'.attempts = retry.attempts
           \/ /\ retry.at = "op" /\ retry'.at = "loop" /\ retry'.attempts = retry.attempts
              /\ failures' > failures /\ (failures' >= config.failure => circuit' = "Open")
<1>1. /\ retry \in Retry /\ retry.attempts \in Nat
      /\ failures \in Nat /\ config.failure \in Nat
    BY DEF TypeOK, Retry, Config
<1>2. ASSUME NEW result \in {"succeeded", "circuit open", "retries exhausted"}, Return(result)
      PROVE  /\ retry'.at = "returned" /\ retry'.attempts = retry.attempts
             /\ retry'.result = result
    BY <1>1, <1>2 DEF Return, Retry
<1>3. CASE UNCHANGED retry
    BY <1>3
<1>4. ASSUME NEW budget \in Budgets, Call(budget)
      PROVE  retry.at = "returned" /\ retry'.at = "loop" /\ retry'.attempts = 0
    BY <1>4 DEF Call, Idle
<1>5. CASE Attempt
  <2>1. retry.at = "loop"
      BY <1>5 DEF Attempt
  <2>2. CASE Return("retries exhausted") /\ retry.attempts = retry.budget
      BY <1>2, <2>1, <2>2
  <2>3. CASE Return("circuit open") /\ circuit = "Open"
      BY <1>2, <2>1, <2>3
  <2>4. CASE /\ retry' = [retry EXCEPT !.at = "op", !.attempts = @ + 1]
             /\ retry.attempts < retry.budget /\ circuit # "Open"
    <3>1. retry'.at = "op"
        BY <1>1, <2>4 DEF Retry
    <3> QED BY <2>1, <2>4, <3>1
  <2> QED BY <1>5, <2>2, <2>3, <2>4 DEF Attempt, Allowed, CheckAndAllow
<1>6. CASE Succeed
    BY <1>2, <1>6 DEF Succeed
<1>7. CASE Fail
  <2>1. retry.at = "op" /\ retry'.at = "loop" /\ retry'.attempts = retry.attempts
      BY <1>1, <1>7 DEF Fail, Retry
  <2>2. failures' > failures /\ (failures' >= config.failure => circuit' = "Open")
      BY <1>1, <1>7 DEF Fail, RecordFailure, Trips
  <2> QED BY <2>1, <2>2
<1> QED BY <1>3, <1>4, <1>5, <1>6, <1>7
        DEF Next, vars, Operate, Reset, SetConfig, SetAdmin, FailWithin

\* The operation runs while the circuit admits it and the budget lasts, the
\* retry gives up for the reason that applies, and no failure goes uncounted.
THEOREM RetriesAlwaysRespectCircuit == Spec => RetriesRespectCircuit
<1>1. TypeOK => retry.attempts \in Nat
    BY DEF TypeOK, Retry
<1>2. TypeOK /\ [Next]_vars =>
          (retry'.attempts > retry.attempts => circuit # "Open" /\ retry.attempts < retry.budget)
  <2> SUFFICES ASSUME TypeOK, [Next]_vars, retry'.attempts > retry.attempts
               PROVE  circuit # "Open" /\ retry.attempts < retry.budget
      OBVIOUS
  <2>1. retry'.attempts # retry.attempts /\ retry'.attempts # 0
      BY <1>1
  <2> QED BY <2>1, StepsOnRetry
<1>3. TypeOK /\ [Next]_vars =>
          (retry.at = "loop" /\ Idle' =>
              \/ retry'.result = "circuit open" /\ circuit = "Open"
              \/ retry'.result = "retries exhausted" /\ retry.attempts = retry.budget)
    BY StepsOnRetry DEF Idle
<1>4. TypeOK /\ [Next]_vars =>
          (retry.at = "op" /\ retry'.at = "loop" =>
              failures' > failures /\ (failures' >= config.failure => circuit' = "Open"))
    BY StepsOnRetry
<1> QED BY <1>2, <1>3, <1>4, BreakerTypes, PTL DEF Spec, RetriesRespectCircuit

-----------------------------------------------------------------------------
(* The error log *)

\* Whatever size the log is trimmed to, what is left ends with the newest
\* failures.
LEMMA TrimmedLog ==
    ASSUME TypeOK, NEW n \in Nat
    PROVE  /\ Len(Logged(n)) \in 0 .. Len(Append(log, n))
           /\ \A i \in 1 .. Len(Logged(n)) :
                  Logged(n)[i] = Append(log, n)[i + Len(Append(log, n)) - Len(Logged(n))]
<1> DEFINE longer == Append(log, n)
           first == Len(longer) - config.log + 1
<1>1. longer \in Seq(Nat) /\ Len(longer) \in Nat /\ config.log \in Nat
    BY DEF TypeOK, Config
<1>2. Logged(n) = IF Len(longer) <= config.log THEN longer ELSE SubSeq(longer, first, Len(longer))
    BY DEF Logged
<1> HIDE DEF longer
<1>3. CASE Len(longer) <= config.log
  <2>1. Logged(n) = longer
      BY <1>2, <1>3
  <2>2. \A i \in 1 .. Len(longer) : longer[i] = longer[i + Len(longer) - Len(longer)]
      BY <1>1
  <2>3. Len(longer) \in 0 .. Len(longer)
      BY <1>1
  <2> QED BY <2>1, <2>2, <2>3 DEF longer
<1>4. CASE Len(longer) > config.log
  <2> DEFINE rest == SubSeq(longer, first, Len(longer))
  <2>1. first \in Int /\ \A i \in first .. Len(longer) : longer[i] \in Nat
      BY <1>1, <1>4
  <2> HIDE DEF first
  <2>2. Logged(n) = rest
    <3>1. ~(Len(longer) <= config.log)
        BY <1>1, <1>4
    <3> QED BY <1>2, <3>1
  <2>3. /\ Len(rest) = IF first <= Len(longer) THEN Len(longer) - first + 1 ELSE 0
        /\ \A i \in 1 .. Len(longer) - first + 1 : rest[i] = longer[first + i - 1]
      BY <2>1, <1>1, SubSeqProperties
  <2> HIDE DEF rest
  <2>4. Len(rest) = config.log
      BY <2>3, <1>1, <1>4 DEF first
  <2>5. \A i \in 1 .. config.log : rest[i] = longer[i + Len(longer) - config.log]
    <3> SUFFICES ASSUME NEW i \in 1 .. config.log
                 PROVE  rest[i] = longer[i + Len(longer) - config.log]
        OBVIOUS
    <3>1. first + i - 1 = i + Len(longer) - config.log /\ i \in 1 .. Len(longer) - first + 1
        BY <1>1 DEF first
    <3> QED BY <2>3, <3>1
  <2>6. /\ Len(rest) \in 0 .. Len(longer)
        /\ \A i \in 1 .. Len(rest) : rest[i] = longer[i + Len(longer) - Len(rest)]
      BY <2>4, <2>5, <1>1, <1>4
  <2> QED BY <2>2, <2>6 DEF longer
<1>5. Len(longer) <= config.log \/ Len(longer) > config.log
    BY <1>1
<1> QED BY <1>3, <1>4, <1>5

\* The log always ends with the streak of failures that is counted.
THEOREM LogAlwaysEndsWithStreak == Spec => []LogEndsWithStreak
<1>1. Init => LogEndsWithStreak
    BY DEF Init, LogEndsWithStreak
<1>2. TypeOK /\ LogEndsWithStreak /\ [Next]_vars => LogEndsWithStreak'
  <2> SUFFICES ASSUME TypeOK, LogEndsWithStreak, [Next]_vars PROVE LogEndsWithStreak'
      OBVIOUS
  <2>1. log \in Seq(Nat) /\ Len(log) \in Nat /\ failures \in Nat
      BY DEF TypeOK
  <2>2. CASE RecordFailure
    <3> DEFINE longer == Append(log, failures + 1)
               cut == Len(longer) - Len(log')
    <3>1. /\ Len(longer) = Len(log) + 1 /\ longer[Len(log) + 1] = failures + 1
          /\ \A i \in 1 .. Len(log) : longer[i] = log[i]
        BY <2>1
    <3>2. log' = Logged(failures + 1) /\ failures' = failures + 1 /\ failures + 1 \in Nat
        BY <2>1, <2>2 DEF RecordFailure
    <3>3. /\ Len(log') \in 0 .. Len(longer)
          /\ \A i \in 1 .. Len(log') : log'[i] = longer[i + cut]
        BY <3>2, TrimmedLog
    <3> HIDE DEF longer
    <3> SUFFICES ASSUME NEW i \in 1 .. Len(log'), Len(log') - i < failures'
                 PROVE  log'[i] = failures' - (Len(log') - i)
        BY DEF LogEndsWithStreak
    <3>4. i + cut \in 1 .. Len(log) + 1 /\ Len(longer) - (i + cut) = Len(log') - i
        BY <3>1, <3>3, <2>1
    <3>5. CASE i + cut = Len(log) + 1
        BY <3>1, <3>2, <3>3, <3>4, <3>5, <2>1
    <3>6. CASE i + cut \in 1 .. Len(log)
      <4>1. Len(log) - (i + cut) < failures
          BY <3>1, <3>2, <3>3, <3>4, <3>6, <2>1
      <4>2. log[i + cut] = failures - (Len(log) - (i + cut))
          BY <4>1, <3>6 DEF LogEndsWithStreak
      <4>3. log'[i] = log[i + cut]
          BY <3>1, <3>3, <3>6
      <4>4. cut \in Int /\ Len(log) + 1 - (i + cut) = Len(log') - i /\ Len(log') \in Int
          BY <3>1, <3>3, <3>4, <2>1
      <4>5. failures - (Len(log) - (i + cut)) = (failures + 1) - (Len(log') - i)
          BY <4>4, <2>1
      <4>6. log'[i] = (failures + 1) - (Len(log') - i)
          BY <4>2, <4>3, <4>5
      <4>7. failures' = failures + 1
          BY <3>2
      <4> QED BY <4>6, <4>7
    <3> QED BY <3>4, <3>5, <3>6, <2>1
  <2>3. CASE UNCHANGED log /\ failures' \in {0, failures}
      BY <2>1, <2>3 DEF LogEndsWithStreak
  <2>4. RecordSuccess \/ Reset \/ UNCHANGED breakerVars => UNCHANGED log /\ failures' \in {0, failures}
      BY DEF RecordSuccess, Reset, Close, HalfOpened, breakerVars
  <2> QED BY <2>2, <2>3, <2>4, StepsOnBreaker
<1> QED BY <1>1, <1>2, BreakerTypes, PTL DEF Spec

-----------------------------------------------------------------------------
(* It implements the circuit breaker of the program escrow *)

\* Every call is one of that breaker's, or leaves it alone: a failure that
\* trips is an opening, one that does not is nothing.
THEOREM IsAlwaysCircuitBreaker == Spec => IsCircuitBreaker
<1>1. Init => Breaker!CircuitInit
    BY DEF Init, Breaker!CircuitInit, Default
<1>2. [Next]_vars => [Breaker!CircuitNext]_Breaker!circuitVars
  <2> SUFFICES ASSUME [Next]_vars PROVE Breaker!CircuitNext \/ UNCHANGED Breaker!circuitVars
      OBVIOUS
  <2> USE DEF Breaker!circuitVars, Breaker!MoveTo
  <2>1. CASE RecordSuccess /\ UNCHANGED config
    <3>1. Breaker!RecordSuccess
        BY <2>1 DEF RecordSuccess, Close, Breaker!RecordSuccess
    <3> QED BY <3>1 DEF Breaker!CircuitNext
  <2>2. CASE RecordFailure /\ UNCHANGED config
    <3>1. Breaker!EmergencyOpen \/ UNCHANGED Breaker!circuitVars
        BY <2>2 DEF RecordFailure, Breaker!EmergencyOpen
    <3> QED BY <3>1 DEF Breaker!CircuitNext
  <2>3. CASE Reset
    <3>1. Breaker!ResetCircuit
        BY <2>3 DEF Reset, Close, HalfOpened, Breaker!ResetCircuit
    <3> QED BY <3>1 DEF Breaker!CircuitNext
  <2>4. ASSUME NEW failure \in FailureThresholds, NEW success \in SuccessThresholds,
               NEW size \in LogSizes, SetConfig(failure, success, size)
        PROVE  Breaker!CircuitNext
    <3>1. Breaker!ConfigureCircuit(success)
        BY <2>4 DEF SetConfig, breakerVars, Breaker!ConfigureCircuit
    <3> QED BY <3>1 DEF Breaker!CircuitNext
  <2>5. CASE UNCHANGED breakerVars /\ UNCHANGED config
      BY <2>5 DEF breakerVars
  <2>6. \/ RecordSuccess /\ UNCHANGED config
        \/ RecordFailure /\ UNCHANGED config
        \/ Reset
        \/ \E failure \in FailureThresholds, success \in SuccessThresholds, size \in LogSizes :
              SetConfig(failure, success, size)
        \/ UNCHANGED breakerVars /\ UNCHANGED config
      BY DEF Next, vars, Operate, Reset, SetAdmin, Call, Attempt, FailWithin, Succeed, Fail
  <2> QED BY <2>1, <2>2, <2>3, <2>4, <2>5, <2>6
<1> QED BY <1>1, <1>2, PTL DEF Spec, IsCircuitBreaker, Breaker!CircuitSpec

-----------------------------------------------------------------------------
(* The rate limiter *)

RateTyped ==
    /\ now \in Times
    /\ rate \in [Callers -> [last : Times, start : Times, count : Nat, stored : BOOLEAN]]
    /\ limits \in LimitConfig
    /\ stamps \in [Callers -> [Times -> Nat]]

\* What is stored of a caller is of the past, its window began before its last
\* lock, and no lock is later than that.
RateInv ==
    /\ RateTyped
    /\ \A c \in Callers :
          /\ rate[c].stored => rate[c].start <= rate[c].last /\ rate[c].last <= now
          /\ \A t \in Times : stamps[c][t] > 0 => rate[c].stored /\ t <= rate[c].last

\* The end of a period, cut off at the clock's bound, is not before its start.
LEMMA AfterIsLater ==
    ASSUME NEW t \in Times, NEW period \in Nat
    PROVE  After(t, period) \in Times /\ t <= After(t, period)
BY LimiterAssumption DEF After, Times

\* What a call does to one caller: it lets the caller lock, it leaves the caller
\* alone while time may pass, or it tells the limiter to treat the caller
\* otherwise, which starts the history again.
LetsLock(c) ==
    /\ Admitted(c)
    /\ rate'[c] = Counted(c)
    /\ stamps'[c] = [stamps[c] EXCEPT ![now] = @ + 1]
    /\ UNCHANGED <<now, limits>>

LeavesAlone(c) ==
    /\ rate'[c] = rate[c] /\ stamps'[c] = stamps[c]
    /\ now <= now'
    /\ limits' = limits

StartsAgain(c) ==
    /\ rate'[c] = rate[c] /\ stamps'[c] = NoStamps
    /\ now' = now

\* A step lets a caller lock, leaves that caller alone, or starts its history again.
LEMMA StepsOnCaller ==
    ASSUME RateTyped, [RateNext]_rateVars, NEW c \in Callers
    PROVE  LetsLock(c) \/ LeavesAlone(c) \/ StartsAgain(c)
<1>1. now \in Nat
    BY LimiterAssumption DEF RateTyped, Times
<1>2. ASSUME NEW d \in Callers, NEW amount \in LockAmounts, LockProgramFunds(d, amount)
      PROVE  LetsLock(c) \/ LeavesAlone(c)
  <2>1. CASE UNCHANGED <<rate, stamps>>
      BY <1>1, <1>2, <2>1 DEF LockProgramFunds, LeavesAlone
  <2>2. CASE /\ Admitted(d)
             /\ rate' = [rate EXCEPT ![d] = Counted(d)]
             /\ stamps' = [stamps EXCEPT ![d][now] = @ + 1]
    <3>1. UNCHANGED <<now, limits>>
        BY <1>2 DEF LockProgramFunds
    <3>2. CASE c = d
        BY <2>2, <3>1, <3>2 DEF LetsLock, RateTyped
    <3>3. CASE c # d
        BY <1>1, <2>2, <3>1, <3>3 DEF LeavesAlone, RateTyped
    <3> QED BY <3>2, <3>3
  <2> QED BY <1>2, <2>1, <2>2 DEF LockProgramFunds, CheckRateLimit
<1>3. ASSUME NEW new \in LimitConfigs, UpdateRateLimitConfig(new)
      PROVE  StartsAgain(c)
    BY <1>3 DEF UpdateRateLimitConfig, StartsAgain
<1>4. ASSUME NEW d \in Callers, NEW whitelisted \in BOOLEAN, SetExempt(d, whitelisted)
      PROVE  StartsAgain(c) \/ LeavesAlone(c)
    BY <1>1, <1>4 DEF SetExempt, StartsAgain, LeavesAlone, RateTyped
<1>5. ASSUME NEW new \in CapConfigs, SetFundCapConfig(new)
      PROVE  LeavesAlone(c)
    BY <1>1, <1>5 DEF SetFundCapConfig, LeavesAlone
<1>6. CASE LedgerCloses
    BY <1>1, <1>6 DEF LedgerCloses, LeavesAlone
<1>7. CASE UNCHANGED rateVars
    BY <1>1, <1>7 DEF rateVars, LeavesAlone
<1> QED BY <1>2, <1>3, <1>4, <1>5, <1>6, <1>7 DEF RateNext

\* The record a call would store for a caller is well typed.
LEMMA CountedIsTyped ==
    ASSUME RateTyped, NEW c \in Callers
    PROVE  Counted(c) \in [last : Times, start : Times, count : Nat, stored : BOOLEAN]
<1>1. /\ rate[c].start \in Times /\ rate[c].count \in Nat /\ now \in Times
    BY DEF RateTyped
<1>2. rate[c].count + 1 \in Nat /\ 1 \in Nat
    BY <1>1
<1> QED BY <1>1, <1>2 DEF Counted

\* Every call and every change of the configuration keeps the types.
LEMMA RateTypesStep == RateTyped /\ [RateNext]_rateVars => RateTyped'
<1> SUFFICES ASSUME RateTyped, [RateNext]_rateVars PROVE RateTyped'
    OBVIOUS
<1>1. now' \in Times
    BY LimiterAssumption DEF RateTyped, Times, RateNext, rateVars, LockProgramFunds,
       UpdateRateLimitConfig, SetExempt, SetFundCapConfig, LedgerCloses
<1>2. limits' \in LimitConfig
    BY LimiterAssumption DEF RateTyped, RateNext, rateVars, LockProgramFunds,
       UpdateRateLimitConfig, SetExempt, SetFundCapConfig, LedgerCloses
<1>3. rate' \in [Callers -> [last : Times, start : Times, count : Nat, stored : BOOLEAN]]
  <2>1. UNCHANGED rate \/ \E c \in Callers : rate' = [rate EXCEPT ![c] = Counted(c)]
      BY DEF RateNext, rateVars, LockProgramFunds, CheckRateLimit,
             UpdateRateLimitConfig, SetExempt, SetFundCapConfig, LedgerCloses
  <2> QED BY <2>1, CountedIsTyped DEF RateTyped
<1>4. stamps' \in [Callers -> [Times -> Nat]]
  <2>1. NoStamps \in [Times -> Nat]
      BY DEF NoStamps
  <2>2. \/ UNCHANGED stamps
        \/ \E c \in Callers : stamps' = [stamps EXCEPT ![c][now] = @ + 1]
        \/ stamps' = [c \in Callers |-> NoStamps]
        \/ \E c \in Callers : stamps' = [stamps EXCEPT ![c] = NoStamps]
      BY DEF RateNext, rateVars, LockProgramFunds, CheckRateLimit,
             UpdateRateLimitConfig, SetExempt, SetFundCapConfig, LedgerCloses
  <2>3. ASSUME NEW c \in Callers PROVE [stamps EXCEPT ![c][now] = @ + 1] \in [Callers -> [Times -> Nat]]
    <3>1. stamps[c] \in [Times -> Nat] /\ stamps[c][now] + 1 \in Nat
        BY DEF RateTyped
    <3> QED BY <3>1 DEF RateTyped
  <2> QED BY <2>1, <2>2, <2>3 DEF RateTyped
<1> QED BY <1>1, <1>2, <1>3, <1>4 DEF RateTyped

\* Nothing is recorded of any caller in the initial state.
LEMMA RateInvInit == RateInit => RateInv
BY LimiterAssumption DEF RateInit, RateInv, RateTyped, Times, NoRate, NoStamps, LimitConfig

\* Every step keeps the stored record in line with the calls let through.
LEMMA RateInvStep == RateInv /\ [RateNext]_rateVars => RateInv'
<1> SUFFICES ASSUME RateInv, [RateNext]_rateVars PROVE RateInv'
    OBVIOUS
<1>1. RateTyped'
    BY RateTypesStep DEF RateInv
<1>2. ASSUME NEW c \in Callers
      PROVE  /\ rate'[c].stored => rate'[c].start <= rate'[c].last /\ rate'[c].last <= now'
             /\ \A t \in Times : stamps'[c][t] > 0 => rate'[c].stored /\ t <= rate'[c].last
  <2>1. /\ now \in Nat /\ now \in Times /\ rate[c].start \in Nat /\ rate[c].last \in Nat
        /\ stamps[c] \in [Times -> Nat]
      BY LimiterAssumption DEF RateInv, RateTyped, Times
  <2>2. /\ rate[c].stored => rate[c].start <= rate[c].last /\ rate[c].last <= now
        /\ \A t \in Times : stamps[c][t] > 0 => rate[c].stored /\ t <= rate[c].last
      BY DEF RateInv
  <2>3. CASE LetsLock(c)
    <3>1. /\ rate'[c].last = now /\ rate'[c].stored /\ now' = now
          /\ rate'[c].start \in {now, rate[c].start}
          /\ rate'[c].start = now \/ rate[c].stored
        BY <2>3 DEF LetsLock, Counted
    <3>2. \A t \in Times : stamps'[c][t] > 0 => t <= now
      <4> SUFFICES ASSUME NEW t \in Times, stamps'[c][t] > 0, t # now PROVE t <= now
          BY <2>1
      <4>1. stamps'[c][t] = stamps[c][t]
          BY <2>1, <2>3 DEF LetsLock
      <4>2. t <= rate[c].last /\ rate[c].last <= now /\ t \in Nat
          BY <2>2, <4>1 DEF Times
      <4> QED BY <2>1, <4>2
    <3> QED BY <2>1, <2>2, <3>1, <3>2
  <2>4. CASE LeavesAlone(c)
    <3>1. now' \in Nat /\ now <= now'
        BY <1>1, <2>4, LimiterAssumption DEF LeavesAlone, RateTyped, Times
    <3> QED BY <2>1, <2>2, <2>4, <3>1 DEF LeavesAlone
  <2>5. CASE StartsAgain(c)
      BY <2>1, <2>2, <2>5 DEF StartsAgain, NoStamps
  <2> QED BY <2>3, <2>4, <2>5, StepsOnCaller DEF RateInv
<1> QED BY <1>1, <1>2 DEF RateInv

\* So the stored records count the calls let through, in every reachable state.
LEMMA RateInvHolds == RateSpec => []RateInv
BY RateInvInit, RateInvStep, PTL DEF RateSpec

\* The limiter locks nobody out: the window of the last lock is over a window
\* after it, as it began before it.
THEOREM LimiterAlwaysRecovers == RateSpec => []LimiterRecovers
<1>1. RateInv => LimiterRecovers
  <2> SUFFICES ASSUME RateInv, NEW c \in Callers, rate[c].stored,
                      now >= After(rate[c].last, limits.window),
                      now >= After(rate[c].last, limits.cooldown)
               PROVE  Admitted(c)
      BY DEF LimiterRecovers
  <2>1. /\ now \in Nat /\ rate[c].start \in Nat /\ rate[c].last \in Nat /\ LastTime \in Nat
        /\ limits.window \in Nat /\ rate[c].start <= rate[c].last
      BY LimiterAssumption DEF RateInv, RateTyped, Times, LimitConfig
  <2>2. now >= After(rate[c].start, limits.window)
      BY <2>1 DEF After
  <2> QED BY <2>2 DEF Admitted, Cooled, WindowOver
<1> QED BY <1>1, RateInvHolds, PTL

\* Locks of a caller are a cooldown apart, but at time 0 and the last one.
THEOREM CooldownAlwaysHolds == RateSpec => []CooldownHolds
<1>1. RateInit => CooldownHolds
    BY LimiterAssumption DEF RateInit, CooldownHolds, NoStamps
<1>2. RateInv /\ CooldownHolds /\ [RateNext]_rateVars => CooldownHolds'
  <2> SUFFICES ASSUME RateInv, CooldownHolds, [RateNext]_rateVars,
                      NEW c \in Callers, NEW s \in Times, NEW t \in Times
               PROVE  /\ stamps'[c][s] > 0 /\ stamps'[c][t] > 0 /\ 0 < s /\ s < t =>
                            t - s >= limits'.cooldown \/ t = LastTime
                      /\ stamps'[c][s] > 1 /\ 0 < s => limits'.cooldown = 0 \/ s = LastTime
      BY DEF CooldownHolds
  <2>1. /\ now \in Nat /\ now \in Times /\ now <= LastTime /\ rate[c].last \in Nat
        /\ stamps[c] \in [Times -> Nat] /\ stamps[c][s] \in Nat /\ stamps[c][t] \in Nat
        /\ limits.cooldown \in Nat /\ LastTime \in Nat /\ s \in Nat /\ t \in Nat
        /\ s <= LastTime /\ t <= LastTime
    <3>1. /\ now \in Times /\ rate[c].last \in Times /\ stamps[c] \in [Times -> Nat]
          /\ limits.cooldown \in Nat
        BY DEF RateInv, RateTyped, LimitConfig
    <3>2. \A u \in Times : u \in Nat /\ u <= LastTime
        BY LimiterAssumption DEF Times
    <3> QED BY <3>1, <3>2, LimiterAssumption
  <2>2. /\ rate[c].stored => rate[c].last <= now
        /\ \A u \in {s, t} : stamps[c][u] > 0 => rate[c].stored /\ u <= rate[c].last
      BY DEF RateInv
  <2>3. /\ stamps[c][s] > 0 /\ stamps[c][t] > 0 /\ 0 < s /\ s < t =>
              t - s >= limits.cooldown \/ t = LastTime
        /\ stamps[c][s] > 1 /\ 0 < s => limits.cooldown = 0 \/ s = LastTime
      BY DEF CooldownHolds
  <2>4. CASE LetsLock(c)
    <3>1. /\ limits' = limits
          /\ \A u \in {s, t} : stamps'[c][u] = IF u = now THEN stamps[c][u] + 1 ELSE stamps[c][u]
        BY <2>1, <2>4 DEF LetsLock
    <3>2. rate[c].last > 0 => now >= rate[c].last + limits.cooldown \/ now = LastTime
        BY <2>1, <2>4 DEF LetsLock, Admitted, Cooled, After
    <3>3. ASSUME stamps'[c][s] > 0, stamps'[c][t] > 0, 0 < s, s < t
          PROVE  t - s >= limits.cooldown \/ t = LastTime
      <4>1. s # now
        <5> SUFFICES ASSUME s = now PROVE FALSE
            OBVIOUS
        <5>1. stamps[c][t] > 0
            BY <3>1, <3>3, <2>1
        <5> QED BY <5>1, <2>1, <2>2, <3>3
      <4>2. stamps[c][s] > 0 /\ s <= rate[c].last
          BY <4>1, <3>1, <3>3, <2>1, <2>2
      <4>3. CASE t = now
          BY <4>2, <4>3, <3>2, <3>3, <2>1
      <4>4. CASE t # now
          BY <4>2, <4>4, <3>1, <3>3, <2>1, <2>3
      <4> QED BY <4>3, <4>4
    <3>4. ASSUME stamps'[c][s] > 1, 0 < s
          PROVE  limits.cooldown = 0 \/ s = LastTime
      <4>1. CASE s = now
        <5>1. stamps[c][s] > 0
            BY <4>1, <3>1, <3>4, <2>1
        <5>2. rate[c].last = now
            BY <5>1, <4>1, <2>1, <2>2
        <5> QED BY <5>2, <4>1, <3>2, <3>4, <2>1
      <4>2. CASE s # now
          BY <4>2, <3>1, <3>4, <2>1, <2>3
      <4> QED BY <4>1, <4>2
    <3> QED BY <3>1, <3>3, <3>4
  <2>5. CASE LeavesAlone(c)
      BY <2>3, <2>5 DEF LeavesAlone
  <2>6. CASE StartsAgain(c)
      BY <2>6 DEF StartsAgain, NoStamps
  <2> QED BY <2>4, <2>5, <2>6, StepsOnCaller DEF RateInv
<1> QED BY <1>1, <1>2, RateInvHolds, PTL DEF RateSpec

-----------------------------------------------------------------------------
(* Bursts *)

\* That a period as long as the window has fewer locks than twice the maximum
\* is not inductive: it takes what the window under way and the end of the one
\* before it may hold.  f is the history of a caller, w and m are the window
\* and the maximum.

Span(a, b) == {s \in Times : a <= s /\ s < b /\ s < LastTime}

Most(m) == IF m = 0 THEN 1 ELSE m

\* The locks since the window started are at most those it counts, one of which
\* opened it; the end of the window before holds no opening lock, if it is shorter
\* than a window; and no lock is later than the window.
WindowInv(f, start, count, w, m) ==
    /\ Sum(f, Span(start, LastTime)) <= count
    /\ Sum(f, Span(start, LastTime)) <= Most(m)
    /\ Sum(f, Span(start + 1, LastTime)) <= count - 1
    /\ Sum(f, Span(start + 1, LastTime)) <= Most(m) - 1
    /\ \A t \in Times : t + w > start => Sum(f, Span(t, start)) <= Most(m) - 1
    /\ \A s \in Times : s >= start + w /\ s < LastTime => f[s] = 0

Bounded(f, w, m) ==
    \A t \in Times : Sum(f, Span(t, t + w)) <= 2 * Most(m) - 1

BurstInv ==
    /\ RateInv
    /\ \A c \in Callers :
          /\ rate[c].stored => rate[c].count >= 1
          /\ ~rate[c].stored => rate[c].count = 0
          /\ rate[c].stored /\ limits.window > 0 /\ rate[c].start < LastTime =>
                WindowInv(stamps[c], rate[c].start, rate[c].count, limits.window, limits.max)
          /\ Bounded(stamps[c], limits.window, limits.max)

\* Sums of numbers of locks over any times.
LEMMA LockSums ==
    ASSUME NEW f \in [Times -> Nat], NEW T \in SUBSET Times
    PROVE  /\ IsFiniteSet(T)
           /\ Sum(f, T) \in Nat
           /\ \A S \in SUBSET T : Sum(f, S) <= Sum(f, T)
<1>1. IsFiniteSet(Times)
    BY FS_Interval, LimiterAssumption DEF Times
<1>2. IsFiniteSet(T)
    BY <1>1, FS_Subset
<1>3. \A x \in T : f[x] \in Nat
    OBVIOUS
<1> QED BY <1>2, <1>3, SumNat, SumBounds

\* Times without a lock.
LEMMA NoLocks ==
    ASSUME NEW f \in [Times -> Nat], NEW T \in SUBSET Times, \A s \in T : f[s] = 0
    PROVE  Sum(f, T) = 0
<1>1. IsFiniteSet(T)
    BY LockSums
<1> QED BY <1>1, SumZero

\* Calls within two spans of time are no more than the calls in one and those in the other.
LEMMA TwoSpans ==
    ASSUME NEW f \in [Times -> Nat], NEW R \in SUBSET Times, NEW S \in SUBSET Times,
           NEW T \in SUBSET R \cup S
    PROVE  Sum(f, T) <= Sum(f, R) + Sum(f, S)
<1> DEFINE Q == T \cap R
<1>1. T \in SUBSET Times /\ Q \in SUBSET T /\ Q \in SUBSET R /\ T \ Q \in SUBSET S
    OBVIOUS
<1>2. IsFiniteSet(T) /\ \A x \in T : f[x] \in Int
    BY <1>1, LockSums
<1> HIDE DEF Q
<1>3. Sum(f, T) = Sum(f, Q) + Sum(f, T \ Q)
    BY <1>1, <1>2, SumSplit
<1>4. Sum(f, Q) <= Sum(f, R)
    BY <1>1, LockSums
<1>5. Sum(f, T \ Q) <= Sum(f, S)
    BY <1>1, LockSums
<1>6. Q \in SUBSET Times /\ T \ Q \in SUBSET Times
    BY <1>1
<1>7. Sum(f, Q) \in Nat /\ Sum(f, T \ Q) \in Nat /\ Sum(f, R) \in Nat /\ Sum(f, S) \in Nat
    BY <1>6, LockSums
<1> QED BY <1>3, <1>4, <1>5, <1>7

\* One more lock at time t.
LEMMA OneMore ==
    ASSUME NEW f \in [Times -> Nat], NEW t \in Times, NEW T \in SUBSET Times
    PROVE  Sum([f EXCEPT ![t] = @ + 1], T) = Sum(f, T) + (IF t \in T THEN 1 ELSE 0)
<1> DEFINE g == [f EXCEPT ![t] = @ + 1]
<1>1. IsFiniteSet(T) /\ \A x \in T : f[x] \in Int /\ g[x] \in Int
    BY LockSums
<1>2. Sum(f, T) \in Nat
    BY LockSums
<1>3. CASE t \in T
  <2>1. (\A x \in T \ {t} : g[x] = f[x]) /\ g[t] - f[t] = 1
      OBVIOUS
  <2> HIDE DEF g
  <2>2. Sum(g, T) = Sum(f, T) + (g[t] - f[t])
      BY <1>1, <1>3, <2>1, SumChange
  <2> QED BY <1>3, <2>1, <2>2 DEF g
<1>4. CASE t \notin T
  <2>1. \A x \in T : g[x] = f[x]
      BY <1>4
  <2> HIDE DEF g
  <2>2. Sum(g, T) = Sum(f, T)
      BY <1>1, <2>1, SumEqual
  <2> QED BY <1>2, <1>4, <2>2 DEF g
<1> QED BY <1>3, <1>4

\* A lock that opens a window, when those before it end in time.
LEMMA FreshWindow ==
    ASSUME NEW f \in [Times -> Nat], NEW t \in Times, t < LastTime,
           NEW w \in Nat, w > 0, NEW m \in Nat,
           \A s \in Times : s >= t => f[s] = 0,
           \A s \in Times : s + w > t => Sum(f, Span(s, t)) <= Most(m) - 1
    PROVE  WindowInv([f EXCEPT ![t] = @ + 1], t, 1, w, m)
<1> DEFINE g == [f EXCEPT ![t] = @ + 1]
<1>0. t \in Nat /\ Most(m) \in Nat /\ Most(m) >= 1
    BY DEF Times, Most
<1>1. /\ \A a, b : Span(a, b) \in SUBSET Times
      /\ t \in Span(t, LastTime)
      /\ t \notin Span(t + 1, LastTime)
      /\ \A a : t \notin Span(a, t)
    BY <1>0 DEF Span
<1>2. Sum(f, Span(t, LastTime)) = 0 /\ Sum(f, Span(t + 1, LastTime)) = 0
  <2>1. \A s \in Span(t, LastTime) : f[s] = 0
      BY DEF Span
  <2>2. \A s \in Span(t + 1, LastTime) : f[s] = 0
      BY <1>0 DEF Span, Times
  <2> QED BY <1>1, <2>1, <2>2, NoLocks
<1>3. \A T \in SUBSET Times : Sum(g, T) = Sum(f, T) + (IF t \in T THEN 1 ELSE 0)
    BY OneMore
<1>4. \A T \in SUBSET Times : Sum(f, T) \in Nat
    BY LockSums
<1>5. \A s \in Times : s >= t + w /\ s < LastTime => g[s] = 0
    BY <1>0 DEF Times
<1> HIDE DEF g
<1>6. Sum(g, Span(t, LastTime)) = 1 /\ Sum(g, Span(t + 1, LastTime)) = 0
    BY <1>1, <1>2, <1>3
<1>7. \A s \in Times : Sum(g, Span(s, t)) = Sum(f, Span(s, t))
    BY <1>1, <1>3, <1>4
<1>8. WindowInv(g, t, 1, w, m)
    BY <1>0, <1>5, <1>6, <1>7 DEF WindowInv
<1> QED BY <1>8 DEF g

\* A lock that fits into the window under way.
LEMMA SameWindow ==
    ASSUME NEW f \in [Times -> Nat], NEW t \in Times, t < LastTime,
           NEW w \in Nat, NEW m \in Nat, NEW start \in Times, NEW count \in Nat,
           count >= 1, count < m, start <= t, t < start + w,
           WindowInv(f, start, count, w, m)
    PROVE  WindowInv([f EXCEPT ![t] = @ + 1], start, count + 1, w, m)
<1> DEFINE g == [f EXCEPT ![t] = @ + 1]
<1>0. t \in Nat /\ start \in Nat /\ Most(m) = m
    BY DEF Times, Most
<1>1. /\ \A a, b : Span(a, b) \in SUBSET Times
      /\ \A a : t \notin Span(a, start)
    BY <1>0 DEF Span
<1>2. \A T \in SUBSET Times : Sum(g, T) = Sum(f, T) + (IF t \in T THEN 1 ELSE 0)
    BY OneMore
<1>3. \A T \in SUBSET Times : Sum(f, T) \in Nat
    BY LockSums
<1>4. \A s \in Times : s >= start + w /\ s < LastTime => g[s] = 0
  <2> SUFFICES ASSUME NEW s \in Times, s >= start + w, s < LastTime PROVE g[s] = 0
      OBVIOUS
  <2>1. s # t
      BY <1>0 DEF Times
  <2> QED BY <2>1 DEF WindowInv
<1> HIDE DEF g
<1>5. /\ Sum(f, Span(start, LastTime)) <= count
      /\ Sum(f, Span(start + 1, LastTime)) <= count - 1
      /\ \A s \in Times : s + w > start => Sum(f, Span(s, start)) <= Most(m) - 1
    BY DEF WindowInv
<1>6. \A T \in SUBSET Times : Sum(g, T) \in Nat /\ Sum(g, T) <= Sum(f, T) + 1
    BY <1>2, <1>3
<1>7. /\ Sum(g, Span(start, LastTime)) <= count + 1
      /\ Sum(g, Span(start + 1, LastTime)) <= count
  <2>1. /\ Sum(g, Span(start, LastTime)) \in Nat /\ Sum(f, Span(start, LastTime)) \in Nat
        /\ Sum(g, Span(start, LastTime)) <= Sum(f, Span(start, LastTime)) + 1
      BY <1>1, <1>3, <1>6
  <2>2. /\ Sum(g, Span(start + 1, LastTime)) \in Nat /\ Sum(f, Span(start + 1, LastTime)) \in Nat
        /\ Sum(g, Span(start + 1, LastTime)) <= Sum(f, Span(start + 1, LastTime)) + 1
      BY <1>1, <1>3, <1>6
  <2> QED BY <1>5, <2>1, <2>2
<1>8. \A s \in Times : Sum(g, Span(s, start)) = Sum(f, Span(s, start))
    BY <1>1, <1>2, <1>3
<1>9. Sum(g, Span(start, LastTime)) \in Nat /\ Sum(g, Span(start + 1, LastTime)) \in Nat
    BY <1>1, <1>6
<1>10. count + 1 <= m /\ count + 1 - 1 = count /\ count <= m - 1
    OBVIOUS
<1>11. /\ Sum(g, Span(start, LastTime)) <= Most(m)
       /\ Sum(g, Span(start + 1, LastTime)) <= count + 1 - 1
       /\ Sum(g, Span(start + 1, LastTime)) <= Most(m) - 1
    BY <1>0, <1>7, <1>9, <1>10
<1>12. WindowInv(g, start, count + 1, w, m)
    BY <1>4, <1>5, <1>7, <1>8, <1>11 DEF WindowInv
<1> QED BY <1>12 DEF g

\* The window under way and the end of the one before it bound every period
\* that the newest lock, at t, is in.
LEMMA WindowsBound ==
    ASSUME NEW f \in [Times -> Nat], NEW t \in Times, t < LastTime,
           NEW w \in Nat, NEW m \in Nat, NEW start \in Times, start <= t, NEW count,
           WindowInv([f EXCEPT ![t] = @ + 1], start, count, w, m),
           Bounded(f, w, m)
    PROVE  Bounded([f EXCEPT ![t] = @ + 1], w, m)
<1> DEFINE g == [f EXCEPT ![t] = @ + 1]
<1>0. t \in Nat /\ start \in Nat /\ Most(m) \in Nat /\ Most(m) >= 1
      /\ \A s \in Times : s \in Nat
      /\ LastTime \in Nat
    BY LimiterAssumption DEF Times, Most
<1>1. \A T \in SUBSET Times : Sum(g, T) = Sum(f, T) + (IF t \in T THEN 1 ELSE 0)
    BY OneMore
<1>2. g \in [Times -> Nat]
    OBVIOUS
<1> HIDE DEF g
<1>3. \A a, b : Span(a, b) \in SUBSET Times
    BY DEF Span
<1>4. \A T \in SUBSET Times : Sum(g, T) \in Nat /\ Sum(f, T) \in Nat
    BY <1>2, LockSums
<1>5. ASSUME NEW s \in Times PROVE Sum(g, Span(s, s + w)) <= 2 * Most(m) - 1
  <2>1. CASE t \notin Span(s, s + w)
    <3>1. Sum(g, Span(s, s + w)) = Sum(f, Span(s, s + w))
        BY <1>1, <1>3, <1>4, <2>1
    <3> QED BY <3>1 DEF Bounded
  <2>2. CASE t \in Span(s, s + w)
    <3>1. s <= t /\ t < s + w
        BY <2>2 DEF Span
    <3>2. Sum(g, Span(start, LastTime)) <= Most(m)
        BY DEF WindowInv, g
    <3>3. CASE s >= start
      <4>1. Span(s, s + w) \in SUBSET Span(start, LastTime)
        <5> SUFFICES ASSUME NEW x \in Span(s, s + w) PROVE x \in Span(start, LastTime)
            OBVIOUS
        <5>1. x \in Times /\ x \in Nat /\ s \in Nat /\ s <= x /\ x < LastTime
            BY <1>0 DEF Span
        <5> QED BY <5>1, <1>0, <3>3 DEF Span
      <4>2. Sum(g, Span(s, s + w)) <= Sum(g, Span(start, LastTime))
          BY <1>2, <1>3, <4>1, LockSums
      <4>3. Sum(g, Span(s, s + w)) \in Nat /\ Sum(g, Span(start, LastTime)) \in Nat
          BY <1>3, <1>4
      <4> QED BY <1>0, <3>2, <4>2, <4>3
    <3>4. CASE s < start
      <4>1. Span(s, s + w) \in SUBSET (Span(s, start) \cup Span(start, LastTime))
        <5> SUFFICES ASSUME NEW x \in Span(s, s + w), x \notin Span(s, start)
                     PROVE  x \in Span(start, LastTime)
            OBVIOUS
        <5>1. x \in Times /\ x \in Nat /\ s \in Nat /\ s <= x /\ x < LastTime
            BY <1>0 DEF Span
        <5> QED BY <5>1, <1>0 DEF Span
      <4>2. Sum(g, Span(s, s + w)) <= Sum(g, Span(s, start)) + Sum(g, Span(start, LastTime))
          BY <1>2, <1>3, <4>1, TwoSpans
      <4>3. s + w > start
          BY <1>0, <3>1
      <4>4. Sum(g, Span(s, start)) <= Most(m) - 1
          BY <4>3 DEF WindowInv, g
      <4>5. /\ Sum(g, Span(s, s + w)) \in Nat /\ Sum(g, Span(start, LastTime)) \in Nat
            /\ Sum(g, Span(s, start)) \in Nat
          BY <1>3, <1>4
      <4> QED BY <1>0, <3>2, <4>2, <4>4, <4>5
    <3> QED BY <1>0, <3>3, <3>4
  <2> QED BY <2>1, <2>2
<1>6. Bounded(g, w, m)
    BY <1>5 DEF Bounded
<1> QED BY <1>6 DEF g

\* A caller with no locks on record bursts nothing.
LEMMA NoBursts ==
    ASSUME NEW f \in [Times -> Nat], \A s \in Times : f[s] = 0, NEW w \in Nat, NEW m \in Nat
    PROVE  /\ Bounded(f, w, m)
           /\ \A start \in Times, count \in Nat \ {0} : WindowInv(f, start, count, w, m)
<1>1. \A a, b : Sum(f, Span(a, b)) = 0
  <2> SUFFICES ASSUME NEW a, NEW b PROVE Sum(f, Span(a, b)) = 0
      OBVIOUS
  <2>1. Span(a, b) \in SUBSET Times
      BY DEF Span
  <2> QED BY <2>1, NoLocks
<1>2. Most(m) \in Nat /\ Most(m) >= 1
    BY DEF Most
<1>3. Bounded(f, w, m)
    BY <1>1, <1>2 DEF Bounded
<1>4. \A start \in Times, count \in Nat \ {0} : WindowInv(f, start, count, w, m)
    BY <1>1, <1>2 DEF WindowInv
<1> QED BY <1>3, <1>4

\* Whether the window of a caller is over, before the timestamps end.
LEMMA WhenWindowIsOver ==
    ASSUME RateTyped, NEW c \in Callers, now < LastTime, limits.window > 0
    PROVE  WindowOver(c) <=> rate[c].stored /\ now >= rate[c].start + limits.window
<1>1. /\ now \in Nat /\ rate[c].start \in Nat /\ LastTime \in Nat /\ limits.window \in Nat
    BY LimiterAssumption DEF RateTyped, Times, LimitConfig
<1> QED BY <1>1 DEF WindowOver, After

\* A lock keeps the bound of its caller.
LEMMA LockIsBounded ==
    ASSUME BurstInv, NEW c \in Callers, LetsLock(c), now < LastTime, limits.window > 0
    PROVE  /\ rate'[c].count >= 1
           /\ WindowInv(stamps'[c], rate'[c].start, rate'[c].count, limits.window, limits.max)
           /\ Bounded(stamps'[c], limits.window, limits.max)
<1>1. PICK f : f = stamps[c]
    OBVIOUS
<1>2. PICK w, m, t : w = limits.window /\ m = limits.max /\ t = now
    OBVIOUS
<1>3. PICK start, count : start = rate[c].start /\ count = rate[c].count
    OBVIOUS
<1>4. /\ f \in [Times -> Nat] /\ w \in Nat /\ w > 0 /\ m \in Nat /\ t \in Times /\ t \in Nat
      /\ start \in Times /\ start \in Nat /\ count \in Nat /\ t < LastTime /\ LastTime \in Nat
    BY <1>1, <1>2, <1>3, LimiterAssumption DEF BurstInv, RateInv, RateTyped, Times, LimitConfig
<1>5. /\ Bounded(f, w, m)
      /\ rate[c].stored /\ start < LastTime => WindowInv(f, start, count, w, m)
      /\ rate[c].stored => count >= 1 /\ start <= t
      /\ ~rate[c].stored => count = 0
    <2>1. rate[c].stored => rate[c].start <= rate[c].last /\ rate[c].last <= now /\ rate[c].last \in Nat
        BY LimiterAssumption DEF BurstInv, RateInv, RateTyped, Times
    <2> QED BY <1>1, <1>2, <1>3, <1>4, <2>1 DEF BurstInv
<1>6. stamps'[c] = [f EXCEPT ![t] = @ + 1]
    BY <1>1, <1>2 DEF LetsLock
<1>7. WindowOver(c) <=> rate[c].stored /\ t >= start + w
    BY <1>2, <1>3, <1>4, WhenWindowIsOver DEF BurstInv, RateInv
<1>8. rate'[c].start = (IF WindowOver(c) \/ ~rate[c].stored THEN t ELSE start)
      /\ rate'[c].count = (IF WindowOver(c) THEN 1 ELSE count + 1)
    BY <1>2, <1>3 DEF LetsLock, Counted
<1>9. CASE WindowOver(c) \/ ~rate[c].stored
  <2>1. rate'[c].start = t /\ rate'[c].count = 1
      BY <1>4, <1>5, <1>7, <1>8, <1>9
  <2>2. \A s \in Times : f[s] > 0 => rate[c].stored /\ s <= t
    <3> SUFFICES ASSUME NEW s \in Times, f[s] > 0 PROVE rate[c].stored /\ s <= t
        OBVIOUS
    <3>1. rate[c].stored /\ s <= rate[c].last /\ rate[c].last <= now
        BY <1>1 DEF BurstInv, RateInv
    <3>2. s \in Nat /\ rate[c].last \in Nat
        BY LimiterAssumption DEF BurstInv, RateInv, RateTyped, Times
    <3> QED BY <3>1, <3>2, <1>2, <1>4
  <2>3. \A s \in Times : f[s] \in Nat /\ s \in Nat
      BY <1>4, LimiterAssumption DEF Times
  <2>4. \A s \in Times : s >= t => f[s] = 0
    <3> SUFFICES ASSUME NEW s \in Times, s >= t PROVE f[s] = 0
        OBVIOUS
    <3>1. CASE ~rate[c].stored
        BY <3>1, <2>2, <2>3
    <3>2. CASE rate[c].stored
      <4>1. WindowInv(f, start, count, w, m) /\ t >= start + w
          BY <3>2, <1>4, <1>5, <1>7, <1>9
      <4>2. s < LastTime \/ f[s] = 0
          BY <2>2, <2>3, <1>4
      <4>3. s >= start + w
          BY <4>1, <2>3, <1>4
      <4> QED BY <4>1, <4>2, <4>3 DEF WindowInv
    <3> QED BY <3>1, <3>2
  <2>5. Most(m) \in Nat /\ Most(m) >= 1
      BY <1>4 DEF Most
  <2>6. ASSUME NEW s \in Times, s + w > t PROVE Sum(f, Span(s, t)) <= Most(m) - 1
    <3>1. Span(s, t) \in SUBSET Times
        BY DEF Span
    <3>2. CASE ~rate[c].stored
      <4>1. \A x \in Span(s, t) : f[x] = 0
          BY <3>1, <3>2, <2>2, <2>3
      <4> QED BY <4>1, <3>1, <1>4, <2>5, NoLocks
    <3>3. CASE rate[c].stored
      <4>1. WindowInv(f, start, count, w, m) /\ t >= start + w
          BY <3>3, <1>4, <1>5, <1>7, <1>9
      <4>2. s >= start + 1
          BY <4>1, <2>6, <1>4, <2>3
      <4>3. Span(s, t) \in SUBSET Span(start + 1, LastTime) /\ Span(start + 1, LastTime) \in SUBSET Times
        <5>1. Span(start + 1, LastTime) \in SUBSET Times
            BY DEF Span
        <5> SUFFICES ASSUME NEW x \in Span(s, t) PROVE x \in Span(start + 1, LastTime)
            BY <5>1
        <5>2. x \in Times /\ x \in Nat /\ s \in Nat /\ s <= x /\ x < LastTime
            BY <2>3 DEF Span
        <5> QED BY <5>2, <4>2, <1>4 DEF Span
      <4>4. /\ Sum(f, Span(s, t)) <= Sum(f, Span(start + 1, LastTime))
            /\ Sum(f, Span(s, t)) \in Nat /\ Sum(f, Span(start + 1, LastTime)) \in Nat
          BY <4>3, <3>1, <1>4, LockSums
      <4>5. Sum(f, Span(start + 1, LastTime)) <= Most(m) - 1
          BY <4>1 DEF WindowInv
      <4> QED BY <4>4, <4>5, <2>5
    <3> QED BY <3>2, <3>3
  <2>7. WindowInv([f EXCEPT ![t] = @ + 1], t, 1, w, m)
      BY <1>4, <2>4, <2>6, FreshWindow
  <2>8. Bounded([f EXCEPT ![t] = @ + 1], w, m)
    <3>1. t <= t
        BY <1>4
    <3> QED BY <1>4, <1>5, <2>7, <3>1, WindowsBound
  <2> QED BY <1>2, <1>6, <2>1, <2>7, <2>8
<1>10. CASE ~WindowOver(c) /\ rate[c].stored
  <2>1. rate'[c].start = start /\ rate'[c].count = count + 1
      BY <1>8, <1>10
  <2>2. count >= 1 /\ count < m /\ start <= t /\ t < start + w /\ start < LastTime
      BY <1>2, <1>3, <1>4, <1>5, <1>7, <1>10 DEF LetsLock, Admitted, Fits
  <2>3. WindowInv(f, start, count, w, m)
      BY <1>5, <1>10, <2>2
  <2>4. WindowInv([f EXCEPT ![t] = @ + 1], start, count + 1, w, m)
      BY <1>4, <2>2, <2>3, SameWindow
  <2>5. Bounded([f EXCEPT ![t] = @ + 1], w, m)
      BY <1>4, <1>5, <2>2, <2>4, WindowsBound
  <2>6. count + 1 >= 1
      BY <1>4
  <2> QED BY <1>2, <1>6, <2>1, <2>4, <2>5, <2>6
<1> QED BY <1>9, <1>10

\* No call has been let through in the initial state.
LEMMA BurstInvInit == RateInit => BurstInv
<1> SUFFICES ASSUME RateInit, NEW c \in Callers
             PROVE  /\ ~rate[c].stored /\ rate[c].count = 0
                    /\ Bounded(stamps[c], limits.window, limits.max)
    BY RateInvInit DEF BurstInv
<1>1. ~rate[c].stored /\ rate[c].count = 0
    BY DEF RateInit, NoRate
<1>2. stamps[c] \in [Times -> Nat] /\ \A s \in Times : stamps[c][s] = 0
    BY DEF RateInit, NoStamps
<1>3. limits.window \in Nat /\ limits.max \in Nat
    BY LimiterAssumption DEF RateInit, LimitConfig
<1> QED BY <1>1, <1>2, <1>3, NoBursts

\* Every step keeps the calls of each span bounded by what its window allowed.
LEMMA BurstInvStep == BurstInv /\ [RateNext]_rateVars => BurstInv'
<1> SUFFICES ASSUME BurstInv, [RateNext]_rateVars PROVE BurstInv'
    OBVIOUS
<1>1. RateInv /\ RateInv'
    BY RateInvStep DEF BurstInv
<1>2. ASSUME NEW c \in Callers
      PROVE  /\ rate'[c].stored => rate'[c].count >= 1
             /\ ~rate'[c].stored => rate'[c].count = 0
             /\ rate'[c].stored /\ limits'.window > 0 /\ rate'[c].start < LastTime =>
                   WindowInv(stamps'[c], rate'[c].start, rate'[c].count, limits'.window, limits'.max)
             /\ Bounded(stamps'[c], limits'.window, limits'.max)
  <2>1. /\ rate[c].stored => rate[c].count >= 1
        /\ ~rate[c].stored => rate[c].count = 0
        /\ rate[c].stored /\ limits.window > 0 /\ rate[c].start < LastTime =>
              WindowInv(stamps[c], rate[c].start, rate[c].count, limits.window, limits.max)
        /\ Bounded(stamps[c], limits.window, limits.max)
      BY DEF BurstInv
  <2>2. /\ now \in Times /\ now \in Nat /\ now <= LastTime /\ LastTime \in Nat
        /\ rate[c].count \in Nat /\ rate[c].start \in Nat /\ stamps[c] \in [Times -> Nat]
        /\ limits.window \in Nat /\ limits.max \in Nat
    <3>1. /\ now \in Times /\ rate[c].start \in Times /\ rate[c].count \in Nat
          /\ stamps[c] \in [Times -> Nat] /\ limits \in LimitConfig
        BY <1>1 DEF RateInv, RateTyped
    <3>2. LastTime \in Nat /\ \A t \in Times : t \in Nat /\ t <= LastTime
        BY LimiterAssumption DEF Times
    <3> QED BY <3>1, <3>2 DEF LimitConfig
  <2>3. /\ stamps'[c] \in [Times -> Nat] /\ limits'.window \in Nat /\ limits'.max \in Nat
        /\ rate'[c].start \in Times /\ rate'[c].count \in Nat
      BY <1>1 DEF RateInv, RateTyped, LimitConfig
  <2>4. CASE LetsLock(c)
    <3>1. rate'[c].stored /\ limits' = limits
        BY <2>4 DEF LetsLock, Counted
    <3>2. CASE now < LastTime /\ limits.window > 0
        BY <2>4, <3>1, <3>2, LockIsBounded
    <3>3. CASE now = LastTime \/ limits.window = 0
      <4>1. /\ rate'[c].count >= 1
            /\ rate'[c].start < LastTime => limits.window = 0
        <5>1. now = LastTime => WindowOver(c)
            BY <2>2 DEF WindowOver, After
        <5> QED BY <2>2, <2>4, <3>3, <5>1 DEF LetsLock, Counted
      <4>2. Bounded(stamps'[c], limits.window, limits.max)
        <5> SUFFICES ASSUME NEW s \in Times
                     PROVE  Sum(stamps'[c], Span(s, s + limits.window)) <= 2 * Most(limits.max) - 1
            BY DEF Bounded
        <5>1. PICK T : T = Span(s, s + limits.window)
            OBVIOUS
        <5>2. T \in SUBSET Times /\ s \in Nat
            BY <5>1, LimiterAssumption DEF Span, Times
        <5>3. CASE limits.window = 0
          <6>1. T = {}
              BY <5>1, <5>2, <5>3, LimiterAssumption DEF Span, Times
          <6>2. Sum(stamps'[c], T) = 0
              BY <2>3, <5>2, <6>1, NoLocks
          <6> QED BY <2>2, <5>1, <6>2 DEF Most
        <5>4. CASE now = LastTime
          <6>1. now \notin T
              BY <5>1, <5>4, <2>2 DEF Span
          <6>2. PICK f, t : f = stamps[c] /\ t = now
              OBVIOUS
          <6>3. stamps'[c] = [f EXCEPT ![t] = @ + 1]
              BY <2>4, <6>2 DEF LetsLock
          <6>4. Sum([f EXCEPT ![t] = @ + 1], T) = Sum(f, T) + (IF t \in T THEN 1 ELSE 0)
              BY <2>2, <5>2, <6>2, OneMore
          <6>5. Sum(f, T) \in Nat
              BY <2>2, <5>2, <6>2, LockSums
          <6>6. Sum(stamps'[c], T) = Sum(stamps[c], T)
              BY <6>1, <6>2, <6>3, <6>4, <6>5
          <6> QED BY <2>1, <5>1, <6>6 DEF Bounded
        <5> QED BY <3>3, <5>3, <5>4
      <4> QED BY <2>2, <3>1, <4>1, <4>2
    <3> QED BY <2>2, <3>2, <3>3
  <2>5. CASE LeavesAlone(c)
      BY <2>1, <2>5 DEF LeavesAlone
  <2>6. CASE StartsAgain(c)
    <3>1. rate'[c] = rate[c] /\ \A s \in Times : stamps'[c][s] = 0
        BY <2>6 DEF StartsAgain, NoStamps
    <3>2. PICK f, w, m : f = stamps'[c] /\ w = limits'.window /\ m = limits'.max
        OBVIOUS
    <3>3. /\ Bounded(f, w, m)
          /\ \A start \in Times, count \in Nat \ {0} : WindowInv(f, start, count, w, m)
        BY <2>3, <3>1, <3>2, NoBursts
    <3>4. rate'[c].stored => rate'[c].count >= 1 /\ rate'[c].count \in Nat \ {0}
        BY <2>1, <2>2, <3>1
    <3> QED BY <2>1, <2>3, <3>1, <3>2, <3>3, <3>4
  <2> QED BY <2>4, <2>5, <2>6, <1>1, StepsOnCaller DEF RateInv
<1> QED BY <1>1, <1>2 DEF BurstInv

\* In a period as long as the window a caller locks fewer times than twice the
\* maximum: the rest of one window and the beginning of the next.
THEOREM BurstsAreAlwaysBounded == RateSpec => []BurstsAreBounded
<1>1. BurstInv => BurstsAreBounded
  <2> SUFFICES ASSUME BurstInv, NEW c \in Callers, NEW t \in Times
               PROVE  Sum(stamps[c], {s \in t .. t + limits.window - 1 : s < LastTime})
                         <= IF limits.max = 0 THEN 1 ELSE 2 * limits.max - 1
      BY DEF BurstsAreBounded
  <2>1. /\ Sum(stamps[c], Span(t, t + limits.window)) <= 2 * Most(limits.max) - 1
        /\ limits.window \in Nat /\ limits.max \in Nat /\ t \in Nat /\ LastTime \in Nat
      BY LimiterAssumption DEF BurstInv, Bounded, RateInv, RateTyped, LimitConfig, Times
  <2>2. {s \in t .. t + limits.window - 1 : s < LastTime} = Span(t, t + limits.window)
      BY <2>1 DEF Span, Times
  <2>3. 2 * Most(limits.max) - 1 = IF limits.max = 0 THEN 1 ELSE 2 * limits.max - 1
      BY <2>1 DEF Most
  <2> QED BY <2>1, <2>2, <2>3
<1> QED BY <1>1, BurstInvInit, BurstInvStep, PTL DEF RateSpec

=============================================================================
