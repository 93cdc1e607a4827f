------------------------------ MODULE RateLimit ------------------------------
(***************************************************************************)
(* The rate limiter in front of the locks of both escrows (anti_abuse in   *)
(* bounty_escrow/contracts/escrow/src/lib.rs and program-escrow/src/lib.rs *)
(* run the same check), with the fund caps and the administration of the   *)
(* program escrow; the bounty escrow's configuration never changes.        *)
(*                                                                         *)
(* A lock that is refused panics, so it leaves the caller's state as it    *)
(* was.  lock_program_funds is here only for its limits, ProgramEscrow     *)
(* models what it moves.                                                   *)
(***************************************************************************)
EXTENDS Sums

CONSTANTS
    Callers,      \* addresses that lock funds
    LimitConfigs, \* configurations of the rate limiter
    CapConfigs,   \* configurations of the fund caps, an unset cap being {}
    LockAmounts,  \* amounts that are locked
    MaxFunds,     \* bound on the funds locked in all
    LastTime      \* u64::MAX, and the last timestamp

LimitConfig == [window : Nat, max : Nat, cooldown : Nat]
CapConfig == [total : SUBSET Nat, single : SUBSET Nat]

ASSUME LimiterAssumption ==
    /\ LimitConfigs \subseteq LimitConfig /\ LimitConfigs # {}
    /\ CapConfigs \subseteq CapConfig
    /\ LockAmounts \subseteq Nat \ {0}
    /\ MaxFunds \in Nat /\ LastTime \in Nat

Times == 0 .. LastTime

VARIABLES
    now,      \* env.ledger().timestamp()
    rate,     \* RateLimitKey::State of each caller
    exempt,   \* callers with RateLimitKey::Whitelist
    limits,   \* DataKey::RateLimitConfig
    caps,     \* FUND_CAP_CONFIG
    funds,    \* ProgramData.total_funds
    stamps    \* history: the locks the limiter let each caller make at each time,
              \* since it was last told to treat the caller otherwise

rateVars == <<now, rate, exempt, limits, caps, funds, stamps>>

\* No state is stored yet; the default that stands for it starts its window at
\* the time it is read
NoRate == [last |-> 0, start |-> 0, count |-> 0, stored |-> FALSE]

NoStamps == [t \in Times |-> 0]

RateInit ==
    /\ now = 0
    /\ rate = [c \in Callers |-> NoRate]
    /\ exempt = {}
    /\ limits \in LimitConfigs
    /\ caps = [total |-> {}, single |-> {}]
    /\ funds = 0
    /\ stamps = [c \in Callers |-> NoStamps]

-----------------------------------------------------------------------------
(* check_rate_limit *)

\* saturating_add
After(t, period) == IF t + period <= LastTime THEN t + period ELSE LastTime

\* A last operation at time 0 is taken for none
Cooled(c) == rate[c].last > 0 => now >= After(rate[c].last, limits.cooldown)

\* Mutant: the moment the window ends still belongs to it
WindowLasts(c) == rate[c].stored /\ now > After(rate[c].start, limits.window)

WindowOver(c) == now >= After(IF rate[c].stored THEN rate[c].start ELSE now, limits.window)

\* Mutant: one operation too many fits into a window
FitsOneMore(c) == rate[c].count <= limits.max

Fits(c) == rate[c].count < limits.max

\* A new window is opened without a look at the maximum
Admitted(c) == Cooled(c) /\ (WindowOver(c) \/ Fits(c))

Counted(c) ==
    [last |-> now, stored |-> TRUE,
     start |-> IF WindowOver(c) \/ ~rate[c].stored THEN now ELSE rate[c].start,
     count |-> IF WindowOver(c) THEN 1 ELSE rate[c].count + 1]

CheckRateLimit(c) ==
    \/ c \in exempt /\ UNCHANGED <<rate, stamps>>
    \/ /\ c \notin exempt
       /\ Admitted(c)
       /\ rate' = [rate EXCEPT ![c] = Counted(c)]
       /\ stamps' = [stamps EXCEPT ![c][now] = @ + 1]

\* lock_program_funds, what it limits; a cap that is not set admits anything
LockProgramFunds(c, amount) ==
    /\ funds + amount <= MaxFunds
    /\ CheckRateLimit(c)
    /\ \A max \in caps.single : amount <= max
    /\ \A max \in caps.total : funds + amount <= max
    /\ funds' = funds + amount
    /\ UNCHANGED <<now, exempt, limits, caps>>

-----------------------------------------------------------------------------
(* Administration and time *)

\* update_rate_limit_config; windows and counts under way stay as they are.  When the
\* call is admitted (governance, positive values) is left out: more happens here.
UpdateRateLimitConfig(new) ==
    /\ limits' = new
    /\ stamps' = [c \in Callers |-> NoStamps]
    /\ UNCHANGED <<now, rate, exempt, caps, funds>>

\* set_rate_limit_whitelist
SetExempt(c, whitelisted) ==
    /\ exempt' = IF whitelisted THEN exempt \cup {c} ELSE exempt \ {c}
    /\ stamps' = [stamps EXCEPT ![c] = NoStamps]
    /\ UNCHANGED <<now, rate, limits, caps, funds>>

\* set_fund_cap_config
SetFundCapConfig(new) ==
    /\ caps' = new
    /\ UNCHANGED <<now, rate, exempt, limits, funds, stamps>>

LedgerCloses ==
    /\ now < LastTime
    /\ now' = now + 1
    /\ UNCHANGED <<rate, exempt, limits, caps, funds, stamps>>

RateNext ==
    \/ \E c \in Callers, amount \in LockAmounts : LockProgramFunds(c, amount)
    \/ \E new \in LimitConfigs : UpdateRateLimitConfig(new)
    \/ \E c \in Callers, whitelisted \in BOOLEAN : SetExempt(c, whitelisted)
    \/ \E new \in CapConfigs : SetFundCapConfig(new)
    \/ LedgerCloses

RateSpec == RateInit /\ [][RateNext]_rateVars

-----------------------------------------------------------------------------
(* Properties *)

\* Whatever moment one starts to look, a caller makes fewer locks than twice the
\* maximum in a period as long as the window: all that fits at the beginning of
\* one window, and at the end of the window before all but the lock that opened
\* it.  A maximum of 0 still lets one lock open each window.  At the last
\* timestamp every window is over.
BurstsAreBounded ==
    \A c \in Callers, t \in Times :
        Sum(stamps[c], {s \in t .. t + limits.window - 1 : s < LastTime})
            <= IF limits.max = 0 THEN 1 ELSE 2 * limits.max - 1

\* Two locks of a caller are a cooldown apart, but for those at time 0 and
\* where the timestamps end.
CooldownHolds ==
    \A c \in Callers : \A s, t \in Times :
        /\ stamps[c][s] > 0 /\ stamps[c][t] > 0 /\ 0 < s /\ s < t =>
              t - s >= limits.cooldown \/ t = LastTime
        /\ stamps[c][s] > 1 /\ 0 < s => limits.cooldown = 0 \/ s = LastTime

\* The limiter locks nobody out: a cooldown and a window after the last lock
\* the caller is let in again, whatever happened to the configuration, and an
\* exemption that was taken back, in the meantime.
LimiterRecovers ==
    \A c \in Callers :
        /\ rate[c].stored
        /\ now >= After(rate[c].last, limits.window)
        /\ now >= After(rate[c].last, limits.cooldown)
        => Admitted(c)
=============================================================================
