----------------------------- MODULE MCDeposits -----------------------------
(***************************************************************************)
(* Deposits on a small instance; the number of refusals is bounded.        *)
(***************************************************************************)
EXTENDS Deposits, TLC

CONSTANTS d1, d2, w1, w2

MCDepositSet == {d1, d2}
MCWorkers == {w1, w2}
MCSymmetry == Permutations(Deposits) \cup Permutations(Workers)
=============================================================================
