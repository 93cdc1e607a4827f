------------------------------ MODULE PrizePool ------------------------------
(***************************************************************************)
(* What a program promises the sponsor of a prize pool and those who are   *)
(* to be paid out of it: the abstract specification ProgramEscrow          *)
(* implements.  Money enters the pool by the sponsor's deposits and leaves *)
(* it as an award, out of what the books say is left, or to keep promises, *)
(* each once and on the terms it was made.  Nothing else moves it.         *)
(***************************************************************************)
EXTENDS Sums

CONSTANTS Recipients, Promises

VARIABLES
    fund,      \* what the sponsor deposited
    left,      \* what the books say is left of it
    held,      \* the tokens there are
    received,  \* what each recipient got
    promises   \* payments promised to somebody

vars == <<fund, left, held, received, promises>>

Promise == [stage : {"None", "Open", "Kept"}, to : Recipients \cup {"nobody"}, amount : Nat]

NoPromise == [stage |-> "None", to |-> "nobody", amount |-> 0]

Open == {i \in Promises : promises[i].stage = "Open"}

Promised(I) == Sum([i \in Promises |-> promises[i].amount], I)

Init ==
    /\ fund = 0 /\ left = 0 /\ held = 0
    /\ received = [r \in Recipients |-> 0]
    /\ promises = [i \in Promises |-> NoPromise]

Deposit ==
    /\ fund' > fund
    /\ left' = left + (fund' - fund)
    /\ held' = held + (fund' - fund)
    /\ UNCHANGED <<received, promises>>

\* Tokens that no book knows of
Gift ==
    /\ held' > held
    /\ UNCHANGED <<fund, left, received, promises>>

Award ==
    LET total == Sum(received', Recipients) - Sum(received, Recipients)
    IN  /\ received' \in [Recipients -> Nat]
        /\ \A r \in Recipients : received'[r] >= received[r]
        /\ total <= left
        /\ left' = left - total
        /\ held' = held - total
        /\ UNCHANGED <<fund, promises>>

\* Nothing is set aside for it
MakePromise(i) ==
    /\ promises[i] = NoPromise
    /\ promises'[i].amount \in Nat \ {0}
    /\ \E r \in Recipients :
         promises' = [promises EXCEPT ![i] = [stage |-> "Open", to |-> r,
                                              amount |-> promises'[i].amount]]
    /\ UNCHANGED <<fund, left, held, received>>

\* Promises are kept as long as there are tokens, also past what the books say
KeepPromises(I) ==
    /\ Promised(I) <= held
    /\ left' = left - Promised(I)
    /\ held' = held - Promised(I)
    /\ received' = [r \in Recipients |-> received[r] + Promised({i \in I : promises[i].to = r})]
    /\ promises' = [i \in Promises |-> IF i \in I THEN [promises[i] EXCEPT !.stage = "Kept"]
                                       ELSE promises[i]]
    /\ UNCHANGED fund

Next ==
    \/ Deposit
    \/ Gift
    \/ Award
    \/ \E i \in Promises : MakePromise(i)
    \/ \E I \in SUBSET Open : KeepPromises(I)

Spec == Init /\ [][Next]_vars
=============================================================================
