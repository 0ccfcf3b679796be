----------------------- MODULE MCSubscriptionBilling -----------------------
(***************************************************************************)
(* SubscriptionBilling on a small instance: one user, one or two           *)
(* subscriptions, two requests at a time, both daily jobs and a restart.   *)
(***************************************************************************)
EXTENDS SubscriptionBilling

CONSTANTS s1, s2, u1, w1, w2

MCOneSub == {s1}
MCSubs == {s1, s2}
MCUsers == {u1}
MCOwner == [s \in Subs |-> u1]
MCOneWorker == {w1}
MCWorkers == {w1, w2}
=============================================================================
