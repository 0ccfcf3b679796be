------------------------ MODULE MCRevenuePayments ------------------------
(***************************************************************************)
(* RevenuePayments with three requests at a time, two orders and funds for *)
(* two payments (MCRevenuePayments), and with two wallet requests only     *)
(* (MCNeverChargedAgain).                                                  *)
(***************************************************************************)
EXTENDS RevenuePayments, TLC

CONSTANTS h1, h2, h3, o1, o2

MCHandlers == {h1, h2, h3}
MCTwoHandlers == {h1, h2}
MCOrders == {o1, o2}
MCNoOrders == {}
MCSymmetry == Permutations(MCHandlers) \cup Permutations(MCOrders)
=============================================================================
