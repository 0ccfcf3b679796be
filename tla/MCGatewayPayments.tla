------------------------- MODULE MCGatewayPayments -------------------------
(***************************************************************************)
(* GatewayPayments on small instances: three users race for a coupon with  *)
(* one use, one order of any purpose, two requests at a time.  What is     *)
(* bounded: the users, the order, and how often one payment is credited.   *)
(* Coupons of a full discount are left to the proofs.                      *)
(***************************************************************************)
EXTENDS GatewayPayments, TLC

CONSTANTS u1, u2, u3, o1, c1, w1, w2

MCOneUser == {u1}
MCThreeUsers == {u1, u2, u3}
MCOrders == {o1}
MCCoupons == {c1}
MCNoFullDiscount == {}
MCWorkers == {w1, w2}
MCSymmetry == Permutations(Users) \cup Permutations(Workers)
=============================================================================
