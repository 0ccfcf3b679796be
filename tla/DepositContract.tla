--------------------------- MODULE DepositContract ---------------------------
(***************************************************************************)
(* What the decisions about a manual deposit promise, with no requests     *)
(* that read first and write later: a decision takes effect at once, an    *)
(* approval credits the wallet and marks the payment in the same step, and *)
(* a payment that is marked is not credited again until it was refused.    *)
(* When two decisions about a deposit overlap it is contested, and only    *)
(* this is left: no payment is marked approved that was never credited.    *)
(* Deposits.tla implements this specification.                             *)
(***************************************************************************)
EXTENDS Integers

CONSTANTS Deposits

VARIABLES
    payment,    \* payment[d]: state of the deposit's payment, "NONE" without one
    credits,    \* credits[d]: how often it was credited
    contested   \* the deposits about which two decisions overlapped

vars == <<payment, credits, contested>>

Init ==
    /\ payment = [d \in Deposits |-> "NONE"]
    /\ credits = [d \in Deposits |-> 0]
    /\ contested = {}

Submit(d) ==
    /\ payment[d] = "NONE"
    /\ payment' = [payment EXCEPT ![d] = "PENDING"]
    /\ UNCHANGED <<credits, contested>>

Approve(d) ==
    /\ payment[d] \in {"PENDING", "REJECTED"}
    /\ payment' = [payment EXCEPT ![d] = "APPROVED"]
    /\ credits' = [credits EXCEPT ![d] = @ + 1]
    /\ UNCHANGED contested

Refuse(d) ==
    /\ payment[d] # "NONE"
    /\ payment' = [payment EXCEPT ![d] = "REJECTED"]
    /\ UNCHANGED <<credits, contested>>

Contest(d) ==
    /\ contested' = contested \cup {d}
    /\ UNCHANGED <<payment, credits>>

\* A decision about a contested deposit, taken on what was read before the other one.
Clash(d) ==
    /\ d \in contested /\ payment[d] # "NONE"
    /\ \E state \in {"PENDING", "APPROVED", "REJECTED"} :
          payment' = [payment EXCEPT ![d] = state]
    /\ credits' \in {credits, [credits EXCEPT ![d] = @ + 1]}
    /\ payment'[d] = "APPROVED" => credits'[d] >= 1
    /\ UNCHANGED contested

Next ==
    \E d \in Deposits :
        Submit(d) \/ Approve(d) \/ Refuse(d) \/ Contest(d) \/ Clash(d)

Spec == Init /\ [][Next]_vars
=============================================================================
