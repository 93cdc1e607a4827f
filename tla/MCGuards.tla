------------------------------- MODULE MCGuards -------------------------------
(***************************************************************************)
(* An instance of ErrorRecovery and RateLimit for TLC.  The two guards     *)
(* share no state, so a behaviour of either, with the other still in its   *)
(* initial state, is all there is to check.                                *)
(***************************************************************************)
EXTENDS ErrorRecovery, RateLimit

CONSTANTS a1, c1

\* Several operations per window, spaced ones, and none at all with a cooldown
\* that outlasts the timestamps
Usual == [window |-> 2, max |-> 2, cooldown |-> 0]
SomeLimits == {Usual,
               [window |-> 4, max |-> 2, cooldown |-> 2],
               [window |-> 3, max |-> 0, cooldown |-> 9]}

SomeCaps == {[total |-> {3}, single |-> {1}]}

GuardsInit == Init /\ RateInit

GuardsNext ==
    \/ RateNext /\ UNCHANGED vars /\ Init
    \/ Next /\ UNCHANGED rateVars /\ RateInit /\ limits = Usual

GuardsSpec == GuardsInit /\ [][GuardsNext]_<<vars, rateVars>>
=============================================================================
