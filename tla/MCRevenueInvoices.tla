------------------------- MODULE MCRevenueInvoices -------------------------
(***************************************************************************)
(* RevenueInvoices over two months: two ledger rows of the first month     *)
(* that arrive at any time, with two jobs at a time (MCRevenueInvoices);   *)
(* no rows and the final-invoice job beside one other (MCFinalInvoice);    *)
(* one row in each month and one job at a time (MCNeverPaysTwice).         *)
(***************************************************************************)
EXTENDS RevenueInvoices, TLC

CONSTANTS w1, w2

MCOneWorker == {w1}
MCTwoWorkers == {w1, w2}
MCMonthOf == <<1, 1>>
MCAmountOf == <<-1, 2>>
MCNoRows == <<>>
MCMonthOfBoth == <<1, 2>>
MCGains == <<2, 1>>
MCSymmetry == Permutations(MCTwoWorkers)
=============================================================================
