-------------------------- MODULE GatewayPayments --------------------------
(***************************************************************************)
(* What a Razorpay payment buys, and the coupons that discount it:         *)
(* createOrder and verifyPayment of paymentController.ts for top-ups and   *)
(* strategy subscriptions, creditWalletAfterGateway, couponService.ts, and *)
(* the subscriptions that need no gateway (subscribeUserToStrategy).       *)
(* Invoices paid through the gateway belong to SubscriptionBilling.        *)
(*                                                                         *)
(* One strategy with a positive fee stands for all: a subscription row is  *)
(* unique per user and strategy, and only coupons are shared between rows. *)
(* An order stands for its one captured payment.                           *)
(*                                                                         *)
(* Atomicity.  verifyPayment runs as separate commits: look the payment    *)
(* up, deliver what was bought, record the payment.  Inside the creating   *)
(* transaction the coupon is read by a plain SELECT and updated later; the *)
(* inserted row is held (RowHeld) until the transaction ends.              *)
(***************************************************************************)
EXTENDS Integers, FiniteSets

CONSTANTS
    Users, Orders, Coupons,
    FullDiscount,  \* the coupons that leave nothing to pay
    MaxUses,       \* maxUses of every coupon
    Workers,       \* requests served at the same time
    MayCrash,      \* whether a request can die between two commits
    MaxCredits,    \* bound: a payment credited so often is not verified again
    None           \* no coupon, no order, no job

ASSUME CouponAssumption == FullDiscount \subseteq Coupons /\ MaxUses \in Nat \ {0}
ASSUME FiniteAssumption == IsFiniteSet(Users) /\ IsFiniteSet(Workers)
ASSUME CrashAssumption == MayCrash \in BOOLEAN /\ MaxCredits \in Nat
ASSUME NoneAssumption == None \notin Coupons \cup Orders

VARIABLES
    order,         \* order[o]: the Razorpay order and its notes, or None
    captured,      \* the orders the customer has paid
    credits,       \* credits[o]: top-ups posted to the wallet for o
    recorded,      \* the orders with an APPROVED PaymentTransaction
    subscription,  \* subscription[u]: status of u's row, "NONE" before it exists
    discount,      \* history: discount[u], the coupon u's row was created with
    coupon,        \* coupon[c]: usedCount and isActive
    job,           \* job[w]: what worker w has read and not yet acted on
    retried        \* history: orders verified twice at once, or again after a crash

vars == <<order, captured, credits, recorded, subscription, discount, coupon, job, retried>>

Managed == {"ACTIVE", "PAUSED_BY_USER", "PAUSED_DUE_TO_FUNDS"}
Status == Managed \cup {"NONE", "CANCELLED"}
TopUp == [purpose : {"wallet"}]
Purchase == [purpose : {"strategy_subscription"}, user : Users,
             coupon : (Coupons \ FullDiscount) \cup {None}]

\* order = None: the row needs no gateway.
Creation == [kind : {"create", "consume"}, user : Users, coupon : Coupons \cup {None},
             order : Orders \cup {None}]
Delivery == [kind : {"credit", "record"}, order : Orders]

ASSUME JobAssumption == None \notin TopUp \cup Purchase \cup Creation \cup Delivery

TypeOK ==
    /\ order \in [Orders -> TopUp \cup Purchase \cup {None}]
    /\ captured \subseteq Orders
    /\ credits \in [Orders -> Nat]
    /\ recorded \subseteq Orders
    /\ subscription \in [Users -> Status]
    /\ discount \in [Users -> Coupons \cup {None}]
    /\ coupon \in [Coupons -> [used : Nat, active : BOOLEAN]]
    /\ job \in [Workers -> Creation \cup Delivery \cup {None}]
    /\ retried \subseteq Orders

Init ==
    /\ order = [o \in Orders |-> None]
    /\ captured = {}
    /\ credits = [o \in Orders |-> 0]
    /\ recorded = {}
    /\ subscription = [u \in Users |-> "NONE"]
    /\ discount = [u \in Users |-> None]
    /\ coupon = [c \in Coupons |-> [used |-> 0, active |-> TRUE]]
    /\ job = [w \in Workers |-> None]
    /\ retried = {}

-----------------------------------------------------------------------------
(* Helpers *)

Is(w, kind) == job[w] # None /\ job[w].kind = kind
Begin(w, j) == job[w] = None /\ job' = [job EXCEPT ![w] = j]
Continue(w, j) == job' = [job EXCEPT ![w] = j]
End(w) == Continue(w, None)

\* What verifyPayment does once the row is created; nothing follows it without an order.
AfterCreation(j) ==
    IF j.order = None THEN None ELSE [kind |-> "record", order |-> j.order]

\* An uncommitted INSERT of u's row: another one waits for it.
RowHeld(u) == \E w \in Workers : Is(w, "consume") /\ job[w].user = u

\* Deviation, for the mutation of Usable: the limit was tested when the order was made.
UsableWhileActive(c) == c \in Coupons => coupon[c].active

\* validateCouponForFee and the tests of consumeCouponUse.
Usable(c) == c \in Coupons => coupon[c].active /\ coupon[c].used < MaxUses

\* Status of a new row: the gateway's waits for its deployment, the others are ACTIVE.
NewStatus(j) == IF j.order = None THEN "ACTIVE" ELSE "PAUSED_DUE_TO_FUNDS"

-----------------------------------------------------------------------------
(* Orders *)

\* createOrder: a top-up, or the fee of a strategy the user does not hold yet.  A
\* subscription the user paused does not count here.
CreateOrder(o, spec) ==
    /\ order[o] = None
    /\ spec.purpose = "strategy_subscription" =>
           /\ subscription[spec.user] \notin {"ACTIVE", "PAUSED_DUE_TO_FUNDS"}
           /\ Usable(spec.coupon)
    /\ order' = [order EXCEPT ![o] = spec]
    /\ UNCHANGED <<captured, credits, recorded, subscription, discount, coupon, job, retried>>

\* The customer pays in the Razorpay window.
Capture(o) ==
    /\ order[o] # None /\ o \notin captured
    /\ captured' = captured \cup {o}
    /\ UNCHANGED <<order, credits, recorded, subscription, discount, coupon, job, retried>>

\* verifyPayment after its look-ups: what must be delivered before the payment is
\* recorded.  A subscription that is already managed needs nothing.
FirstStep(o) ==
    IF order[o].purpose = "wallet"
    THEN [kind |-> "credit", order |-> o]
    ELSE IF subscription[order[o].user] \in Managed
    THEN [kind |-> "record", order |-> o]
    ELSE [kind |-> "create", user |-> order[o].user, coupon |-> order[o].coupon, order |-> o]

\* Deviation, for the mutation of NotProcessed: the payment is never looked up.
NotLookedUp(o) == o \in captured

\* A payment that is recorded is answered alreadyProcessed.
NotProcessed(o) == o \notin recorded

Serves(w, o) == job[w] # None /\ job[w].order = o

\* Deviation, for the mutation of Verify: the signature of the payment is not checked.
VerifyUnpaid(w, o) ==
    /\ order[o] # None
    /\ NotProcessed(o)
    /\ credits[o] < MaxCredits
    /\ Begin(w, FirstStep(o))
    /\ retried' = IF \E v \in Workers : Serves(v, o) THEN retried \cup {o} ELSE retried
    /\ UNCHANGED <<order, captured, credits, recorded, subscription, discount, coupon>>

\* verifyPayment, up to its first write.
Verify(w, o) ==
    /\ o \in captured
    /\ NotProcessed(o)
    /\ credits[o] < MaxCredits
    /\ Begin(w, FirstStep(o))
    /\ retried' = IF \E v \in Workers : Serves(v, o) THEN retried \cup {o} ELSE retried
    /\ UNCHANGED <<order, captured, credits, recorded, subscription, discount, coupon>>

\* creditWalletAfterGateway commits on its own.
CreditWallet(w) ==
    /\ Is(w, "credit")
    /\ credits' = [credits EXCEPT ![job[w].order] = @ + 1]
    /\ Continue(w, [kind |-> "record", order |-> job[w].order])
    /\ UNCHANGED <<order, captured, recorded, subscription, discount, coupon, retried>>

\* paymentTransaction.create; razorpayPaymentId is unique, a second row is an error.
Record(w) ==
    /\ Is(w, "record")
    /\ recorded' = recorded \cup {job[w].order}
    /\ End(w)
    /\ UNCHANGED <<order, captured, credits, subscription, discount, coupon, retried>>

-----------------------------------------------------------------------------
(* Subscription rows *)

\* subscribeUserToStrategy with nothing to pay now: pay later, or a full discount.
\* The coupon is validated and the row looked for before anything is written.
Subscribe(w, u, c) ==
    /\ Usable(c)
    /\ subscription[u] \notin Managed
    /\ Begin(w, [kind |-> "create", user |-> u, coupon |-> c, order |-> None])
    /\ UNCHANGED <<order, captured, credits, recorded, subscription, discount, coupon, retried>>

AddRow(j) ==
    /\ subscription' = [subscription EXCEPT ![j.user] = NewStatus(j)]
    /\ discount' = [discount EXCEPT ![j.user] = j.coupon]

\* A coupon is consumed with the row when the row has a price.
Consumes(j) == j.coupon \notin FullDiscount \cup {None}

Refused(j) ==
    \/ subscription[j.user] # "NONE"
    \/ Consumes(j) /\ ~Usable(j.coupon)

\* Deviation, for the mutation of CreateFails: the failure is swallowed and the payment
\* recorded.
CreateFailsSilently(w) ==
    /\ Is(w, "create")
    /\ ~RowHeld(job[w].user)
    /\ Refused(job[w])
    /\ Continue(w, AfterCreation(job[w]))
    /\ UNCHANGED <<order, captured, credits, recorded, subscription, discount, coupon, retried>>

\* The INSERT meets the row of an earlier subscription, cancelled ones included, or
\* the coupon is refused: the request fails and nothing is kept.
CreateFails(w) ==
    /\ Is(w, "create")
    /\ ~RowHeld(job[w].user)
    /\ Refused(job[w])
    /\ End(w)
    /\ UNCHANGED <<order, captured, credits, recorded, subscription, discount, coupon, retried>>

\* A row without a coupon to consume.
CreateRow(w) ==
    /\ Is(w, "create")
    /\ ~RowHeld(job[w].user)
    /\ ~Consumes(job[w]) /\ ~Refused(job[w])
    /\ AddRow(job[w])
    /\ Continue(w, AfterCreation(job[w]))
    /\ UNCHANGED <<order, captured, credits, recorded, coupon, retried>>

\* The row is inserted and consumeCouponUse has read the coupon.
CreateWithCoupon(w) ==
    /\ Is(w, "create")
    /\ ~RowHeld(job[w].user)
    /\ Consumes(job[w]) /\ ~Refused(job[w])
    /\ Continue(w, [job[w] EXCEPT !.kind = "consume"])
    /\ UNCHANGED <<order, captured, credits, recorded, subscription, discount, coupon, retried>>

\* Deviation, for the mutation of UseCoupon: the use is only counted for a row that
\* was paid through the gateway.
UseCouponIfPaid(j) ==
    coupon' = [coupon EXCEPT ![j.coupon].used = IF j.order = None THEN @ ELSE @ + 1]

UseCoupon(j) == coupon' = [coupon EXCEPT ![j.coupon].used = @ + 1]

\* The increment, and the commit of row and coupon together.
ConsumeCoupon(w) ==
    /\ Is(w, "consume")
    /\ UseCoupon(job[w])
    /\ AddRow(job[w])
    /\ Continue(w, AfterCreation(job[w]))
    /\ UNCHANGED <<order, captured, credits, recorded, retried>>

\* toggleActive of couponController.ts.
ToggleActive(c) ==
    /\ coupon' = [coupon EXCEPT ![c].active = ~@]
    /\ UNCHANGED <<order, captured, credits, recorded, subscription, discount, job, retried>>

\* The life of the row after its creation (SubscriptionBilling): pauses, deployments,
\* cancellation, reactivation; a row is never deleted.
ChangeStatus(u, status) ==
    /\ subscription[u] \notin {"NONE", status}
    /\ subscription' = [subscription EXCEPT ![u] = status]
    /\ UNCHANGED <<order, captured, credits, recorded, discount, coupon, job, retried>>

\* A request dies between two commits; an open transaction leaves nothing.
Crash(w) ==
    /\ MayCrash
    /\ job[w] # None
    /\ End(w)
    /\ retried' = retried \cup ({job[w].order} \cap Orders)
    /\ UNCHANGED <<order, captured, credits, recorded, subscription, discount, coupon>>

-----------------------------------------------------------------------------

Serve(w) ==
    \/ CreditWallet(w) \/ Record(w)
    \/ CreateFails(w) \/ CreateRow(w) \/ CreateWithCoupon(w) \/ ConsumeCoupon(w)

Arrive(w) ==
    \/ \E o \in Orders : Verify(w, o)
    \/ \E u \in Users, c \in Coupons \cup {None} : Subscribe(w, u, c)

Next ==
    \/ \E o \in Orders, spec \in TopUp \cup Purchase : CreateOrder(o, spec)
    \/ \E o \in Orders : Capture(o)
    \/ \E w \in Workers : Arrive(w) \/ Serve(w) \/ Crash(w)
    \/ \E c \in Coupons : ToggleActive(c)
    \/ \E u \in Users, status \in Managed \cup {"CANCELLED"} : ChangeStatus(u, status)

Spec == Init /\ [][Next]_vars

-----------------------------------------------------------------------------
(* Properties *)

\* A payment that is recorded, and so never looked at again, has delivered: its
\* top-up is in the wallet, or its user holds a row for the strategy.  No crash,
\* refusal or concurrent verification records a payment that bought nothing.
RecordedMeansDelivered ==
    \A o \in recorded :
        IF order[o].purpose = "wallet"
        THEN credits[o] >= 1
        ELSE subscription[order[o].user] # "NONE"

Holders(c) == { u \in Users : discount[u] = c }

\* usedCount counts exactly the rows that were created with the coupon: a refused,
\* duplicate or crashed creation does not use it up.
UsesMatchRows ==
    \A c \in Coupons \ FullDiscount : coupon[c].used = Cardinality(Holders(c))

\* consumeCouponUse tests the limit before it increments, so concurrent requests may
\* pass it, but only as many as are served at once.
OvershootIsBounded ==
    \A c \in Coupons : coupon[c].used < MaxUses + Cardinality(Workers)

\* A payment is credited twice only if two verifications of it overlapped or a crash
\* came between its two commits: repeating a verification that has ended is harmless.
CreditedTwiceOnlyIfRetried == \A o \in Orders \ retried : credits[o] <= 1

-----------------------------------------------------------------------------
(* Refinement *)

Contract == INSTANCE PurchaseContract WITH
    Specs <- TopUp \cup Purchase,
    NoOrder <- None,
    disturbed <- retried

\* However verifications, refusals and crashes interleave: only what was paid for is
\* delivered, and a payment is done with after its delivery.
ImplementsContract == Contract!Spec
=============================================================================
