------------------------------ MODULE MCWallet ------------------------------
(***************************************************************************)
(* Wallet on a small instance.  What is bounded: the Transaction rows that *)
(* may ever be created (TxnIds).  Rows are interchangeable until used, so  *)
(* their keys and the handlers' names are symmetric.                       *)
(***************************************************************************)
EXTENDS Wallet, TLC

CONSTANTS u1, t1, t2, t3, h1, h2

MCUsers == {u1}
MCTxnIds == {t1, t2, t3}
MCHandlers == {h1, h2}
MCAmounts == {1, 2}
MCFeeHolds == {0, 1}
MCSymmetry == Permutations(MCTxnIds) \cup Permutations(MCHandlers)
=============================================================================
