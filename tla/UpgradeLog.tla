------------------------------ MODULE UpgradeLog ------------------------------
(***************************************************************************)
(* What a multisig promises to those who trust it, whoever its signers are *)
(* at the moment: the abstract specification MultiSig implements.  Some    *)
(* people are asked to agree to a request, on terms that never change      *)
(* again.  Requests enough of them agreed to are carried out, each once,   *)
(* one after the other, and the last of them says what code runs.          *)
(***************************************************************************)
EXTENDS Integers, Sequences, FiniteSets

CONSTANTS Requests, People, Hashes, InitialCode

VARIABLES
    requests,  \* what is asked of whom, and who agreed
    log,       \* the requests that were carried out, in their order
    code       \* what runs

vars == <<requests, log, code>>

Request == [hash : Hashes \cup {InitialCode}, asked : SUBSET People, needed : Nat,
            agreed : SUBSET People]

\* Nobody was asked yet
NoRequest == [hash |-> InitialCode, asked |-> {}, needed |-> 1, agreed |-> {}]

CarriedOut == {log[n] : n \in DOMAIN log}

Init ==
    /\ requests = [p \in Requests |-> NoRequest]
    /\ log = << >>
    /\ code = InitialCode

\* The terms can be met: no more are needed than are asked
Ask(p) ==
    /\ requests[p] = NoRequest
    /\ \E hash \in Hashes, asked \in SUBSET People :
         \E needed \in 1 .. Cardinality(asked) :
             requests' = [requests EXCEPT ![p] = [hash |-> hash, asked |-> asked,
                                                  needed |-> needed, agreed |-> {}]]
    /\ UNCHANGED <<log, code>>

Agree(p, s) ==
    /\ p \notin CarriedOut
    /\ s \in requests[p].asked \ requests[p].agreed
    /\ requests' = [requests EXCEPT ![p].agreed = @ \cup {s}]
    /\ UNCHANGED <<log, code>>

CarryOut(p) ==
    /\ p \notin CarriedOut
    /\ Cardinality(requests[p].agreed) >= requests[p].needed
    /\ log' = Append(log, p)
    /\ code' = requests[p].hash
    /\ UNCHANGED requests

Next ==
    \E p \in Requests : \/ Ask(p)
                        \/ \E s \in People : Agree(p, s)
                        \/ CarryOut(p)

Spec == Init /\ [][Next]_vars
=============================================================================
