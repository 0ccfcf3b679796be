--------------------------- MODULE PayoutContract ---------------------------
(***************************************************************************)
(* What a partner payout promises, with no invoices, reversals, snapshots  *)
(* or admin sessions: a commission is in at most one payout at a time, a   *)
(* payout is paid or refused once, paying it pays each of its commissions, *)
(* and a commission that has been paid is never paid again.                *)
(* CommissionLedger.tla implements this specification.                     *)
(***************************************************************************)
CONSTANTS
    Accruals,   \* commissions that may ever be earned
    Payouts,    \* identities of payout requests
    NoPayout    \* a commission that is in no payout

VARIABLES
    member,     \* member[a]: the payout commission a is in, or NoPayout
    state       \* state[q]: NONE, PENDING, APPROVED, COMPLETED or REJECTED

vars == <<member, state>>

In(q) == { a \in Accruals : member[a] = q }

Init ==
    /\ member = [a \in Accruals |-> NoPayout]
    /\ state = [q \in Payouts |-> "NONE"]

Request(q) ==
    \E S \in SUBSET { a \in Accruals : member[a] = NoPayout } :
        /\ state[q] = "NONE"
        /\ S # {}
        /\ member' = [a \in Accruals |-> IF a \in S THEN q ELSE member[a]]
        /\ state' = [state EXCEPT ![q] = "PENDING"]

Approve(q) ==
    /\ state[q] = "PENDING"
    /\ state' = [state EXCEPT ![q] = "APPROVED"]
    /\ UNCHANGED member

Complete(q) ==
    /\ state[q] = "APPROVED"
    /\ In(q) # {}
    /\ state' = [state EXCEPT ![q] = "COMPLETED"]
    /\ UNCHANGED member

\* A refusal gives back some of the commissions: those that still may be claimed.
Refuse(q) ==
    \E S \in SUBSET In(q) :
        /\ state[q] \in {"PENDING", "APPROVED"}
        /\ member' = [a \in Accruals |-> IF a \in S THEN NoPayout ELSE member[a]]
        /\ state' = [state EXCEPT ![q] = "REJECTED"]

Next == \E q \in Payouts : Request(q) \/ Approve(q) \/ Complete(q) \/ Refuse(q)

Spec == Init /\ [][Next]_vars
=============================================================================
