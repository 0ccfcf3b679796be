--------------------------- MODULE InvoiceContract ---------------------------
(***************************************************************************)
(* What the monthly invoices of a customer promise, with no ledger and no  *)
(* jobs: a month is computed as often as it takes while its invoice is not *)
(* issued and never after that, no loss is billed, what was issued or void *)
(* is not opened again, and the month after one that is final starts no    *)
(* lower than the mark that one left.  A month made final under a job that *)
(* holds it open is crossed and may be computed again; and a month a job   *)
(* has read before it was issued, to write a later one, is relied on and   *)
(* does not bind that write.                                               *)
(* RevenueInvoices.tla implements this specification.                      *)
(***************************************************************************)
EXTENDS Integers

CONSTANTS Months   \* their number

VARIABLES
    state,          \* state[p]: of the invoice of month p, "NONE" before there is one
    before, after,  \* the marks; what is billed is after - before
    crossed,        \* the months made final under a job
    relied          \* the months read as open by a job that is to write a later one

vars == <<state, before, after, crossed, relied>>

Init ==
    /\ state = [p \in 1..Months |-> "NONE"]
    /\ before = [p \in 1..Months |-> 0]
    /\ after = [p \in 1..Months |-> 0]
    /\ crossed = {}
    /\ relied = {}

Issued(p) == state[p] \in {"INVOICED", "PAID", "VOID"}
Binding(p) == Issued(p) /\ p \notin crossed \cup relied

\* Jobs read, write or end.  No job comes to rely on a month that is issued already.
Reads == relied' \subseteq relied \cup {p \in 1..Months : ~Issued(p)}

Compute(p) ==
    /\ Issued(p) => p \in crossed
    /\ state' = [state EXCEPT ![p] = "ACCRUED"]
    /\ {before', after'} \subseteq [1..Months -> Int]
    /\ \A q \in (1..Months) \ {p} : before'[q] = before[q] /\ after'[q] = after[q]
    /\ before'[p] <= after'[p]
    /\ p > 1 /\ Binding(p - 1) => after[p - 1] <= before'[p]
    /\ Reads
    /\ UNCHANGED crossed

Issue(p) ==
    /\ state[p] = "ACCRUED"
    /\ \E new \in {"INVOICED", "VOID"} : state' = [state EXCEPT ![p] = new]
    /\ crossed' \in {crossed, crossed \cup {p}}
    /\ UNCHANGED <<before, after, relied>>

Settle(p) ==
    /\ state[p] = "INVOICED"
    /\ \E new \in {"PAID", "VOID"} : state' = [state EXCEPT ![p] = new]
    /\ UNCHANGED <<before, after, crossed, relied>>

Next ==
    \/ \E p \in 1..Months : Compute(p) \/ Issue(p) \/ Settle(p)
    \/ Reads /\ UNCHANGED <<state, before, after, crossed>>

Spec == Init /\ [][Next]_vars
=============================================================================
