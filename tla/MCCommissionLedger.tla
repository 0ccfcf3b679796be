------------------------- MODULE MCCommissionLedger -------------------------
(***************************************************************************)
(* CommissionLedger on a small instance: two invoices of members acquired  *)
(* by one partner, two requests served at a time, two payout requests.     *)
(* What is bounded: the payout requests that may ever be created.          *)
(***************************************************************************)
EXTENDS CommissionLedger, TLC

CONSTANTS i1, i2, p1, q1, q2, w1, w2

MCInvoices == {i1, i2}
MCPartners == {p1}
MCPayouts == {q1, q2}
MCWorkers == {w1, w2}
MCChain == [i \in MCInvoices |-> MCPartners]
MCCommission == 2
MCCreditAmounts == {1, 2}
MCOneCreditNote == {1}
MCSymmetry ==
    Permutations(MCInvoices) \cup Permutations(MCPayouts) \cup Permutations(MCWorkers)
=============================================================================
