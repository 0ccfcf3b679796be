----------------------------- MODULE FeeContract -----------------------------
(***************************************************************************)
(* What the billing of a pay-later subscription promises, with no requests *)
(* and no daily jobs that read first and write later: the fee is taken     *)
(* once and then settled, a settled fee stays settled, and a subscription  *)
(* is held for funds only while its fee is due and its 30 days are over.   *)
(* Payments that overlap one another, a daily job or a restart are         *)
(* crossed; then only this is left: a fee that was never offered is        *)
(* neither taken nor settled, and no one is held before the 30 days end.   *)
(* SubscriptionBilling.tla implements this specification.                  *)
(***************************************************************************)
EXTENDS Integers

CONSTANTS Subs

VARIABLES
    status,   \* status[s]: of the subscription, "NONE" before there is one
    fee,      \* fee[s]: "NONE" with nothing to pay later, "DUE" or "PAID"
    taken,    \* taken[s]: how often the fee was taken from the user
    over,     \* the subscriptions whose 30 days are over
    crossed   \* the subscriptions whose payments crossed

vars == <<status, fee, taken, over, crossed>>

Init ==
    /\ status = [s \in Subs |-> "NONE"]
    /\ fee = [s \in Subs |-> "NONE"]
    /\ taken = [s \in Subs |-> 0]
    /\ over = {}
    /\ crossed = {}

Offer(s) ==
    /\ status[s] = "NONE"
    /\ \E new \in {"ACTIVE", "PAUSED_DUE_TO_FUNDS"} : status' = [status EXCEPT ![s] = new]
    /\ fee' \in {fee, [fee EXCEPT ![s] = "DUE"]}
    /\ UNCHANGED <<taken, over, crossed>>

DaysEnd(s) ==
    /\ fee[s] # "NONE"
    /\ over' = over \cup {s}
    /\ UNCHANGED <<status, fee, taken, crossed>>

\* By the user or an admin; neither holds a subscription for funds.
Change(s) ==
    /\ status[s] # "NONE"
    /\ \E new \in {"ACTIVE", "PAUSED_BY_USER", "CANCELLED"} :
          status' = [status EXCEPT ![s] = new]
    /\ UNCHANGED <<fee, taken, over, crossed>>

Untaken(s) == fee[s] = "DUE" /\ taken[s] = 0
TakenAndDue(s) == fee[s] = "DUE" /\ taken[s] = 1

\* Through the gateway: it is settled later.
Take(s) ==
    /\ fee[s] # "NONE"
    /\ Untaken(s) \/ s \in crossed
    /\ taken' = [taken EXCEPT ![s] = @ + 1]
    /\ UNCHANGED <<status, fee, over, crossed>>

\* Settled after the gateway took it, or taken from the wallet and settled at once.
Settle(s) ==
    /\ fee[s] # "NONE"
    /\ \/ (TakenAndDue(s) \/ s \in crossed) /\ UNCHANGED taken
       \/ (Untaken(s) \/ s \in crossed) /\ taken' = [taken EXCEPT ![s] = @ + 1]
    /\ fee' = [fee EXCEPT ![s] = "PAID"]
    /\ status' = [status EXCEPT ![s] = "ACTIVE"]
    /\ crossed' \in {crossed, crossed \cup {s}}
    /\ UNCHANGED over

Hold(s) ==
    /\ s \in over /\ status[s] = "ACTIVE"
    /\ fee[s] = "DUE" \/ s \in crossed
    /\ status' = [status EXCEPT ![s] = "PAUSED_DUE_TO_FUNDS"]
    /\ UNCHANGED <<fee, taken, over, crossed>>

Cross(subs) ==
    /\ crossed' = crossed \cup subs
    /\ UNCHANGED <<status, fee, taken, over>>

\* A settled fee is marked unpaid by a job that had read it before.
Reopen(subs) ==
    /\ subs \subseteq crossed
    /\ fee' = [s \in Subs |-> IF s \in subs THEN "DUE" ELSE fee[s]]
    /\ \A s \in subs : fee[s] = "PAID"
    /\ UNCHANGED <<status, taken, over, crossed>>

Next ==
    \/ \E s \in Subs :
          Offer(s) \/ DaysEnd(s) \/ Change(s) \/ Take(s) \/ Settle(s) \/ Hold(s)
    \/ \E subs \in SUBSET Subs : Cross(subs) \/ Reopen(subs)

Spec == Init /\ [][Next]_vars
=============================================================================
