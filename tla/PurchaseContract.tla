--------------------------- MODULE PurchaseContract ---------------------------
(***************************************************************************)
(* What a payment through the gateway promises, with no requests and no    *)
(* coupons: only what was paid for is delivered, a top-up once, and a      *)
(* payment is done with only when its user has what it paid for.  A        *)
(* payment that was verified twice at once, or again after a crash, is     *)
(* disturbed: its top-up may be credited again, and nothing else changes.  *)
(* GatewayPayments.tla implements this specification.                      *)
(***************************************************************************)
EXTENDS Integers

CONSTANTS
    Orders, Users,
    Specs,     \* what can be ordered: a purpose, and the user of a subscription
    NoOrder

VARIABLES
    order,         \* order[o]: what was ordered, or NoOrder
    captured,      \* the orders that were paid
    credits,       \* credits[o]: how often o was credited to the wallet
    recorded,      \* the payments that are done with
    subscription,  \* subscription[u]: status of u's row, "NONE" before it exists
    disturbed      \* the orders verified twice at once, or again after a crash

vars == <<order, captured, credits, recorded, subscription, disturbed>>

Init ==
    /\ order = [o \in Orders |-> NoOrder]
    /\ captured = {}
    /\ credits = [o \in Orders |-> 0]
    /\ recorded = {}
    /\ subscription = [u \in Users |-> "NONE"]
    /\ disturbed = {}

Place(o, spec) ==
    /\ order[o] = NoOrder
    /\ order' = [order EXCEPT ![o] = spec]
    /\ UNCHANGED <<captured, credits, recorded, subscription, disturbed>>

Pay(o) ==
    /\ order[o] # NoOrder
    /\ captured' = captured \cup {o}
    /\ UNCHANGED <<order, credits, recorded, subscription, disturbed>>

Credit(o) ==
    /\ o \in captured /\ order[o].purpose = "wallet"
    /\ credits[o] = 0 \/ o \in disturbed
    /\ credits' = [credits EXCEPT ![o] = @ + 1]
    /\ UNCHANGED <<order, captured, recorded, subscription, disturbed>>

\* The row of an order that was paid; it waits for its deployment.
Grant(o) ==
    /\ o \in captured /\ order[o].purpose # "wallet"
    /\ subscription[order[o].user] = "NONE"
    /\ subscription' = [subscription EXCEPT ![order[o].user] = "PAUSED_DUE_TO_FUNDS"]
    /\ UNCHANGED <<order, captured, credits, recorded, disturbed>>

\* A row for which nothing has to be paid now.
GrantFree(u) ==
    /\ subscription[u] = "NONE"
    /\ subscription' = [subscription EXCEPT ![u] = "ACTIVE"]
    /\ UNCHANGED <<order, captured, credits, recorded, disturbed>>

ChangeStatus(u) ==
    /\ subscription[u] # "NONE"
    /\ \E new \in {"ACTIVE", "PAUSED_BY_USER", "PAUSED_DUE_TO_FUNDS", "CANCELLED"} :
          subscription' = [subscription EXCEPT ![u] = new]
    /\ UNCHANGED <<order, captured, credits, recorded, disturbed>>

Delivered(o) ==
    IF order[o].purpose = "wallet" THEN credits[o] >= 1
    ELSE subscription[order[o].user] # "NONE"

Record(o) ==
    /\ o \in captured
    /\ Delivered(o)
    /\ recorded' = recorded \cup {o}
    /\ UNCHANGED <<order, captured, credits, subscription, disturbed>>

Disturb(o) ==
    /\ o \in captured
    /\ disturbed' = disturbed \cup {o}
    /\ UNCHANGED <<order, captured, credits, recorded, subscription>>

Next ==
    \/ \E o \in Orders, spec \in Specs : Place(o, spec)
    \/ \E o \in Orders : Pay(o) \/ Credit(o) \/ Grant(o) \/ Record(o) \/ Disturb(o)
    \/ \E u \in Users : GrantFree(u) \/ ChangeStatus(u)

Spec == Init /\ [][Next]_vars
=============================================================================
