--------------------------- MODULE GatewayProofs ---------------------------
(***************************************************************************)
(* Theorems about GatewayPayments for every set of users, orders, coupons  *)
(* and workers, with crashes or without: its rows keep their types, a      *)
(* recorded payment has delivered, a coupon's count is the number of its   *)
(* rows, concurrent requests pass its limit only by their number, a        *)
(* payment is credited twice only if it was verified again too early, and  *)
(* the payments implement PurchaseContract.                                *)
(***************************************************************************)
EXTENDS GatewayPayments, FiniteSetTheorems, TLAPS

USE CouponAssumption, NoneAssumption, JobAssumption

-----------------------------------------------------------------------------
(* Types *)

\* The kind of a job says which record it is.
LEMMA JobTypes ==
    ASSUME TypeOK, NEW w \in Workers
    PROVE  /\ Is(w, "create") \/ Is(w, "consume") => job[w] \in Creation
           /\ Is(w, "credit") \/ Is(w, "record") => job[w] \in Delivery
BY DEF TypeOK, Is, Creation, Delivery

\* An order is a top-up or a purchase.
LEMMA OrderTypes ==
    ASSUME TypeOK, NEW o \in Orders, order[o] # None
    PROVE  /\ order[o].purpose = "wallet" => order[o] \in TopUp
           /\ order[o].purpose # "wallet" => order[o] \in Purchase
BY DEF TypeOK, TopUp, Purchase

\* What follows the creation of a row is nothing, or the record of its payment.
LEMMA AfterCreationType ==
    ASSUME NEW j \in Creation PROVE AfterCreation(j) \in Delivery \cup {None}
BY DEF Creation, Delivery, AfterCreation

\* A row that is created has its types.
LEMMA AddRowType ==
    ASSUME TypeOK, NEW j \in Creation, AddRow(j)
    PROVE  /\ subscription' \in [Users -> Status]
           /\ discount' \in [Users -> Coupons \cup {None}]
BY DEF TypeOK, AddRow, Creation, NewStatus, Status, Managed

\* A captured payment starts with a credit, a record or a creation.
LEMMA FirstStepType ==
    ASSUME TypeOK, NEW o \in Orders, order[o] # None
    PROVE  FirstStep(o) \in Creation \cup Delivery
<1>1. CASE order[o].purpose = "wallet"
  BY <1>1 DEF FirstStep, Delivery
<1>2. CASE order[o].purpose # "wallet"
  <2>1. order[o].user \in Users /\ order[o].coupon \in Coupons \cup {None}
    BY <1>2, OrderTypes DEF Purchase
  <2> QED
    BY <1>2, <2>1 DEF FirstStep, Delivery, Creation
<1> QED
  BY <1>1, <1>2

\* Only an order that exists is captured.
CapturedAreOrders == \A o \in captured : order[o] # None

\* Every step keeps the types.
LEMMA TypeStep ==
    ASSUME TypeOK, CapturedAreOrders, [Next]_vars PROVE TypeOK'
<1>1. CASE UNCHANGED vars
  BY <1>1 DEF vars, TypeOK
<1>2. ASSUME NEW o \in Orders, NEW spec \in TopUp \cup Purchase, CreateOrder(o, spec)
      PROVE  TypeOK'
  BY <1>2 DEF CreateOrder, TypeOK
<1>3. ASSUME NEW o \in Orders, Capture(o) PROVE TypeOK'
  BY <1>3 DEF Capture, TypeOK
<1>4. ASSUME NEW w \in Workers, NEW o \in Orders, Verify(w, o) PROVE TypeOK'
  <2>1. FirstStep(o) \in Creation \cup Delivery
    BY <1>4, FirstStepType DEF Verify, CapturedAreOrders
  <2> QED
    BY <1>4, <2>1 DEF Verify, Begin, TypeOK
<1>5. ASSUME NEW w \in Workers, NEW u \in Users, NEW c \in Coupons \cup {None},
             Subscribe(w, u, c)
      PROVE  TypeOK'
  BY <1>5 DEF Subscribe, Begin, TypeOK, Creation
<1>6. ASSUME NEW w \in Workers, CreditWallet(w) PROVE TypeOK'
  <2>1. job[w] \in Delivery
    BY <1>6, JobTypes DEF CreditWallet
  <2> QED
    BY <1>6, <2>1 DEF CreditWallet, Continue, TypeOK, Delivery
<1>7. ASSUME NEW w \in Workers, Record(w) PROVE TypeOK'
  <2>1. job[w] \in Delivery
    BY <1>7, JobTypes DEF Record
  <2> QED
    BY <1>7, <2>1 DEF Record, End, Continue, TypeOK, Delivery
<1>8. ASSUME NEW w \in Workers, CreateFails(w) PROVE TypeOK'
  BY <1>8 DEF CreateFails, End, Continue, TypeOK
<1>9. ASSUME NEW w \in Workers, CreateRow(w) PROVE TypeOK'
  <2>1. job[w] \in Creation
    BY <1>9, JobTypes DEF CreateRow
  <2>2. AfterCreation(job[w]) \in Delivery \cup {None}
    BY <2>1, AfterCreationType
  <2>3. subscription' \in [Users -> Status] /\ discount' \in [Users -> Coupons \cup {None}]
    BY <1>9, <2>1, AddRowType DEF CreateRow
  <2> QED
    BY <1>9, <2>2, <2>3 DEF CreateRow, Continue, TypeOK
<1>10. ASSUME NEW w \in Workers, CreateWithCoupon(w) PROVE TypeOK'
  <2>1. job[w] \in Creation
    BY <1>10, JobTypes DEF CreateWithCoupon
  <2>2. [job[w] EXCEPT !.kind = "consume"] \in Creation
    BY <2>1 DEF Creation
  <2> QED
    BY <1>10, <2>2 DEF CreateWithCoupon, Continue, TypeOK
<1>11. ASSUME NEW w \in Workers, ConsumeCoupon(w) PROVE TypeOK'
  <2>1. job[w] \in Creation
    BY <1>11, JobTypes DEF ConsumeCoupon
  <2>2. AfterCreation(job[w]) \in Delivery \cup {None}
    BY <2>1, AfterCreationType
  <2>3. subscription' \in [Users -> Status] /\ discount' \in [Users -> Coupons \cup {None}]
    BY <1>11, <2>1, AddRowType DEF ConsumeCoupon
  <2>4. coupon' \in [Coupons -> [used : Nat, active : BOOLEAN]]
    <3>1. coupon' = [coupon EXCEPT ![job[w].coupon].used = @ + 1]
      BY <1>11 DEF ConsumeCoupon, UseCoupon
    <3>2. \A c \in Coupons : /\ coupon[c] \in [used : Nat, active : BOOLEAN]
                            /\ coupon[c].used + 1 \in Nat
      BY DEF TypeOK
    <3> QED
      BY <3>1, <3>2 DEF TypeOK
  <2> QED
    BY <1>11, <2>2, <2>3, <2>4 DEF ConsumeCoupon, Continue, TypeOK
<1>12. ASSUME NEW w \in Workers, Crash(w) PROVE TypeOK'
  BY <1>12 DEF Crash, End, Continue, TypeOK
<1>13. ASSUME NEW c \in Coupons, ToggleActive(c) PROVE TypeOK'
  BY <1>13 DEF ToggleActive, TypeOK
<1>14. ASSUME NEW u \in Users, NEW status \in Managed \cup {"CANCELLED"},
              ChangeStatus(u, status)
       PROVE  TypeOK'
  BY <1>14 DEF ChangeStatus, TypeOK, Status
<1> QED
  BY <1>1, <1>2, <1>3, <1>4, <1>5, <1>6, <1>7, <1>8, <1>9, <1>10, <1>11, <1>12,
     <1>13, <1>14 DEF Next, Arrive, Serve


-----------------------------------------------------------------------------
(* What a payment bought *)

Delivered(o) ==
    /\ order[o] # None
    /\ IF order[o].purpose = "wallet"
       THEN credits[o] >= 1
       ELSE subscription[order[o].user] # "NONE"

\* What a request holds agrees with the order it serves, and a payment is about to be
\* recorded only when it has delivered.
ServesItsOrder(w) ==
    /\ Is(w, "credit") => order[job[w].order] # None /\ order[job[w].order].purpose = "wallet"
    /\ Is(w, "record") => Delivered(job[w].order)
    /\ (Is(w, "create") \/ Is(w, "consume")) /\ job[w].order # None =>
           /\ order[job[w].order] # None
           /\ order[job[w].order].purpose # "wallet"
           /\ order[job[w].order].user = job[w].user

RequestsServeTheirOrder == \A w \in Workers : ServesItsOrder(w)

RecordedAreDelivered == \A o \in recorded : Delivered(o)

DeliveryInv ==
    CapturedAreOrders /\ RequestsServeTheirOrder /\ RecordedAreDelivered

\* An order keeps its notes, a credit is never taken back and a row never deleted.
NothingUndone ==
    /\ \A o \in Orders : order[o] # None => order'[o] = order[o]
    /\ \A o \in Orders : credits'[o] >= credits[o]
    /\ \A u \in Users : subscription[u] # "NONE" => subscription'[u] # "NONE"

\* What was delivered stays delivered.
LEMMA DeliveredStays ==
    ASSUME TypeOK, TypeOK', NothingUndone, NEW o \in Orders, Delivered(o)
    PROVE  Delivered(o)'
<1>1. CASE order[o].purpose = "wallet"
  BY <1>1 DEF Delivered, NothingUndone, TypeOK
<1>2. CASE order[o].purpose # "wallet"
  <2>1. order[o].user \in Users
    BY <1>2, OrderTypes DEF Delivered, Purchase
  <2> QED
    BY <1>2, <2>1 DEF Delivered, NothingUndone
<1> QED
  BY <1>1, <1>2

\* A request that a step leaves alone still serves its order.
LEMMA OthersStillServe ==
    ASSUME TypeOK, TypeOK', NothingUndone, NEW w \in Workers, ServesItsOrder(w),
           job'[w] = job[w]
    PROVE  ServesItsOrder(w)'
<1>1. job[w] # None => job[w].order \in Orders \cup {None}
  BY DEF TypeOK, Creation, Delivery
<1>2. Is(w, "credit") \/ Is(w, "record") => job[w].order \in Orders
  BY JobTypes DEF Delivery
<1>3. Is(w, "credit")' => order'[job'[w].order] # None /\ order'[job'[w].order].purpose = "wallet"
  BY <1>2 DEF ServesItsOrder, Is, NothingUndone
<1>4. Is(w, "record")' => Delivered(job[w].order)'
  BY <1>2, DeliveredStays DEF ServesItsOrder, Is
<1>5. (Is(w, "create") \/ Is(w, "consume"))' /\ job'[w].order # None =>
          /\ order'[job'[w].order] # None
          /\ order'[job'[w].order].purpose # "wallet"
          /\ order'[job'[w].order].user = job'[w].user
  BY <1>1 DEF ServesItsOrder, Is, NothingUndone
<1> QED
  BY <1>3, <1>4, <1>5 DEF ServesItsOrder

\* A step that undoes nothing preserves the invariant, if the requests it moves serve
\* their order and what it captures or records may be.
LEMMA DeliveryStep ==
    ASSUME TypeOK, TypeOK', DeliveryInv, NothingUndone,
           \A w \in Workers : job'[w] = job[w] \/ ServesItsOrder(w)',
           \A o \in captured' \ captured : order[o] # None,
           \A o \in recorded' \ recorded : Delivered(o)
    PROVE  DeliveryInv'
<1>1. CapturedAreOrders'
  BY DEF DeliveryInv, CapturedAreOrders, NothingUndone, TypeOK
<1>2. RecordedAreDelivered'
  <2>1. \A o \in recorded' : o \in Orders /\ Delivered(o)
    BY DEF DeliveryInv, RecordedAreDelivered, TypeOK
  <2> QED
    BY <2>1, DeliveredStays DEF RecordedAreDelivered
<1>3. ASSUME NEW w \in Workers PROVE ServesItsOrder(w)'
  <2>1. ServesItsOrder(w)
    BY DEF DeliveryInv, RequestsServeTheirOrder
  <2> QED
    BY <2>1, OthersStillServe
<1>4. RequestsServeTheirOrder'
  BY <1>3 DEF RequestsServeTheirOrder
<1> QED
  BY <1>1, <1>2, <1>4 DEF DeliveryInv


\* A request that has ended serves nothing.
LEMMA EndedServes ==
    ASSUME TypeOK, NEW w \in Workers, End(w) PROVE ServesItsOrder(w)'
BY DEF TypeOK, End, Continue, ServesItsOrder, Is

\* A creation that has just committed its row may have its payment recorded.
LEMMA CreatedServes ==
    ASSUME TypeOK, TypeOK', NothingUndone, NEW w \in Workers,
           job[w] \in Creation, Is(w, "create") \/ Is(w, "consume"), ServesItsOrder(w),
           AddRow(job[w]), Continue(w, AfterCreation(job[w]))
    PROVE  ServesItsOrder(w)'
<1> DEFINE j == job[w]
<1>1. job'[w] = AfterCreation(j)
  BY DEF Continue, TypeOK
<1>2. CASE j.order = None
  BY <1>1, <1>2 DEF AfterCreation, ServesItsOrder, Is
<1>3. CASE j.order # None
  <2>1. j.order \in Orders /\ j.user \in Users
    BY <1>3 DEF Creation
  <2>2. job'[w] = [kind |-> "record", order |-> j.order]
    BY <1>1, <1>3 DEF AfterCreation
  <2>3. /\ order'[j.order] # None /\ order'[j.order].purpose # "wallet"
        /\ order'[j.order].user = j.user
    BY <1>3, <2>1 DEF ServesItsOrder, NothingUndone
  <2>4. subscription'[j.user] = NewStatus(j)
    BY <2>1 DEF AddRow, TypeOK
  <2>5. subscription'[j.user] # "NONE"
    BY <2>4 DEF NewStatus
  <2>6. ~Is(w, "credit")' /\ ~Is(w, "create")' /\ ~Is(w, "consume")' /\ job'[w].order = j.order
    BY <2>2 DEF Is
  <2> QED
    BY <2>3, <2>5, <2>6 DEF ServesItsOrder, Delivered
<1> QED
  BY <1>2, <1>3

\* Every step keeps the delivery invariant.
LEMMA DeliveryInvStep ==
    ASSUME TypeOK, TypeOK', DeliveryInv, [Next]_vars PROVE DeliveryInv'
<1> USE DEF DeliveryInv
<1>1. CASE UNCHANGED vars
  BY <1>1, DeliveryStep DEF vars, NothingUndone, TypeOK
<1>2. ASSUME NEW o \in Orders, NEW spec \in TopUp \cup Purchase, CreateOrder(o, spec)
      PROVE  DeliveryInv'
  <2>1. NothingUndone
    BY <1>2 DEF CreateOrder, NothingUndone, TypeOK
  <2> QED
    BY <1>2, <2>1, DeliveryStep DEF CreateOrder
<1>3. ASSUME NEW o \in Orders, Capture(o) PROVE DeliveryInv'
  <2>1. NothingUndone
    BY <1>3 DEF Capture, NothingUndone, TypeOK
  <2> QED
    BY <1>3, <2>1, DeliveryStep DEF Capture
<1>4. ASSUME NEW w \in Workers, NEW o \in Orders, Verify(w, o) PROVE DeliveryInv'
  <2>1. NothingUndone
    BY <1>4 DEF Verify, NothingUndone, TypeOK
  <2>2. order[o] # None
    BY <1>4 DEF Verify, CapturedAreOrders
  <2>3. job'[w] = FirstStep(o) /\ \A v \in Workers \ {w} : job'[v] = job[v]
    BY <1>4 DEF Verify, Begin, TypeOK
  <2>4. UNCHANGED <<order, captured, credits, recorded, subscription>>
    BY <1>4 DEF Verify
  <2>5. ServesItsOrder(w)'
    <3>1. CASE order[o].purpose = "wallet"
      BY <2>2, <2>3, <2>4, <3>1 DEF FirstStep, ServesItsOrder, Is
    <3>2. CASE order[o].purpose # "wallet" /\ subscription[order[o].user] \in Managed
      <4>1. Delivered(o)
        BY <2>2, <3>2 DEF Delivered, Managed
      <4>2. job'[w].order = o /\ job'[w].kind = "record"
        BY <2>3, <3>2 DEF FirstStep
      <4> QED
        BY <2>4, <4>1, <4>2 DEF ServesItsOrder, Is, Delivered
    <3>3. CASE order[o].purpose # "wallet" /\ subscription[order[o].user] \notin Managed
      <4>1. job'[w].order = o /\ job'[w].kind = "create" /\ job'[w].user = order[o].user
        BY <2>3, <3>3 DEF FirstStep
      <4> QED
        BY <2>2, <2>4, <3>3, <4>1 DEF ServesItsOrder, Is
    <3> QED
      BY <3>1, <3>2, <3>3
  <2> QED
    BY <2>1, <2>3, <2>4, <2>5, DeliveryStep
<1>5. ASSUME NEW w \in Workers, NEW u \in Users, NEW c \in Coupons \cup {None},
             Subscribe(w, u, c)
      PROVE  DeliveryInv'
  <2>1. NothingUndone
    BY <1>5 DEF Subscribe, NothingUndone, TypeOK
  <2>2. job'[w].kind = "create" /\ job'[w].order = None /\ \A v \in Workers \ {w} : job'[v] = job[v]
    BY <1>5 DEF Subscribe, Begin, TypeOK
  <2>3. ServesItsOrder(w)'
    BY <2>2 DEF ServesItsOrder, Is
  <2> QED
    BY <1>5, <2>1, <2>2, <2>3, DeliveryStep DEF Subscribe
<1>6. ASSUME NEW w \in Workers, CreditWallet(w) PROVE DeliveryInv'
  <2>1. /\ job[w].order \in Orders /\ order[job[w].order] # None
        /\ order[job[w].order].purpose = "wallet"
    BY <1>6, JobTypes DEF CreditWallet, RequestsServeTheirOrder, ServesItsOrder, Delivery
  <2>2. NothingUndone
    BY <1>6 DEF CreditWallet, NothingUndone, TypeOK
  <2>3. credits'[job[w].order] >= 1 /\ order' = order
    BY <1>6, <2>1 DEF CreditWallet, TypeOK
  <2>4. job'[w] = [kind |-> "record", order |-> job[w].order]
        /\ \A v \in Workers \ {w} : job'[v] = job[v]
    BY <1>6 DEF CreditWallet, Continue, TypeOK
  <2>5. ServesItsOrder(w)'
    BY <2>1, <2>3, <2>4 DEF ServesItsOrder, Is, Delivered
  <2> QED
    BY <1>6, <2>2, <2>4, <2>5, DeliveryStep DEF CreditWallet
<1>7. ASSUME NEW w \in Workers, Record(w) PROVE DeliveryInv'
  <2>1. Delivered(job[w].order)
    BY <1>7 DEF Record, RequestsServeTheirOrder, ServesItsOrder
  <2>2. NothingUndone
    BY <1>7 DEF Record, NothingUndone, TypeOK
  <2>3. ServesItsOrder(w)'
    BY <1>7, EndedServes DEF Record
  <2>4. \A v \in Workers \ {w} : job'[v] = job[v]
    BY <1>7 DEF Record, End, Continue, TypeOK
  <2> QED
    BY <1>7, <2>1, <2>2, <2>3, <2>4, DeliveryStep DEF Record
<1>8. ASSUME NEW w \in Workers, CreateFails(w) PROVE DeliveryInv'
  <2>1. NothingUndone
    BY <1>8 DEF CreateFails, NothingUndone, TypeOK
  <2>2. ServesItsOrder(w)'
    BY <1>8, EndedServes DEF CreateFails
  <2>3. \A v \in Workers \ {w} : job'[v] = job[v]
    BY <1>8 DEF CreateFails, End, Continue, TypeOK
  <2> QED
    BY <1>8, <2>1, <2>2, <2>3, DeliveryStep DEF CreateFails
<1>9. ASSUME NEW w \in Workers, CreateRow(w) PROVE DeliveryInv'
  <2>1. job[w] \in Creation /\ ServesItsOrder(w)
    BY <1>9, JobTypes DEF CreateRow, RequestsServeTheirOrder
  <2>2. NothingUndone
    BY <1>9, <2>1 DEF CreateRow, AddRow, NewStatus, NothingUndone, TypeOK
  <2>3. ServesItsOrder(w)'
    BY <1>9, <2>1, <2>2, CreatedServes DEF CreateRow
  <2>4. \A v \in Workers \ {w} : job'[v] = job[v]
    BY <1>9 DEF CreateRow, Continue, TypeOK
  <2> QED
    BY <1>9, <2>2, <2>3, <2>4, DeliveryStep DEF CreateRow
<1>10. ASSUME NEW w \in Workers, CreateWithCoupon(w) PROVE DeliveryInv'
  <2>1. job[w] \in Creation /\ ServesItsOrder(w) /\ Is(w, "create")
    BY <1>10, JobTypes DEF CreateWithCoupon, RequestsServeTheirOrder
  <2>2. NothingUndone
    BY <1>10 DEF CreateWithCoupon, NothingUndone, TypeOK
  <2>3. job'[w] = [job[w] EXCEPT !.kind = "consume"]
    BY <1>10 DEF CreateWithCoupon, Continue, TypeOK
  <2>4. job'[w].kind = "consume" /\ job'[w].order = job[w].order /\ job'[w].user = job[w].user
    BY <2>1, <2>3 DEF Creation
  <2>5. ServesItsOrder(w)'
    BY <1>10, <2>1, <2>4 DEF CreateWithCoupon, ServesItsOrder, Is
  <2>6. \A v \in Workers \ {w} : job'[v] = job[v]
    BY <1>10 DEF CreateWithCoupon, Continue, TypeOK
  <2> QED
    BY <1>10, <2>2, <2>5, <2>6, DeliveryStep DEF CreateWithCoupon
<1>11. ASSUME NEW w \in Workers, ConsumeCoupon(w) PROVE DeliveryInv'
  <2>1. job[w] \in Creation /\ ServesItsOrder(w)
    BY <1>11, JobTypes DEF ConsumeCoupon, RequestsServeTheirOrder
  <2>2. NothingUndone
    BY <1>11, <2>1 DEF ConsumeCoupon, AddRow, NewStatus, NothingUndone, TypeOK
  <2>3. ServesItsOrder(w)'
    BY <1>11, <2>1, <2>2, CreatedServes DEF ConsumeCoupon
  <2>4. \A v \in Workers \ {w} : job'[v] = job[v]
    BY <1>11 DEF ConsumeCoupon, Continue, TypeOK
  <2> QED
    BY <1>11, <2>2, <2>3, <2>4, DeliveryStep DEF ConsumeCoupon
<1>12. ASSUME NEW w \in Workers, Crash(w) PROVE DeliveryInv'
  <2>1. NothingUndone
    BY <1>12 DEF Crash, NothingUndone, TypeOK
  <2>2. ServesItsOrder(w)'
    BY <1>12, EndedServes DEF Crash
  <2>3. \A v \in Workers \ {w} : job'[v] = job[v]
    BY <1>12 DEF Crash, End, Continue, TypeOK
  <2> QED
    BY <1>12, <2>1, <2>2, <2>3, DeliveryStep DEF Crash
<1>13. ASSUME NEW c \in Coupons, ToggleActive(c) PROVE DeliveryInv'
  BY <1>13, DeliveryStep DEF ToggleActive, NothingUndone, TypeOK
<1>14. ASSUME NEW u \in Users, NEW status \in Managed \cup {"CANCELLED"},
              ChangeStatus(u, status)
       PROVE  DeliveryInv'
  <2>1. NothingUndone
    BY <1>14 DEF ChangeStatus, NothingUndone, TypeOK, Managed
  <2> QED
    BY <1>14, <2>1, DeliveryStep DEF ChangeStatus
<1> QED
  BY <1>1, <1>2, <1>3, <1>4, <1>5, <1>6, <1>7, <1>8, <1>9, <1>10, <1>11, <1>12,
     <1>13, <1>14 DEF Next, Arrive, Serve

-----------------------------------------------------------------------------
(* Coupons *)

NoDiscountWithoutRow == \A u \in Users : subscription[u] = "NONE" => discount[u] = None

\* An open creation consumes a coupon that has a price, for a user without a row, and
\* no other creation does so for the same user.
OpenCreations ==
    /\ \A w \in Workers : Is(w, "consume") =>
           job[w].coupon \in Coupons \ FullDiscount /\ subscription[job[w].user] = "NONE"
    /\ \A v, w \in Workers :
           Is(v, "consume") /\ Is(w, "consume") /\ job[v].user = job[w].user => v = w

Pending(c) == { w \in Workers : Is(w, "consume") /\ job[w].coupon = c }

\* The uses that are counted and those that will be.
UsesAndPendingBounded ==
    \A c \in Coupons :
        coupon[c].used + Cardinality(Pending(c)) < MaxUses + Cardinality(Workers)

CouponInv ==
    NoDiscountWithoutRow /\ OpenCreations /\ UsesMatchRows /\ UsesAndPendingBounded

\* Counts of pending and served users are numbers.
LEMMA Counts ==
    /\ Cardinality(Workers) \in Nat
    /\ \A c : IsFiniteSet(Pending(c)) /\ Cardinality(Pending(c)) \in Nat
    /\ \A c : Cardinality(Pending(c)) <= Cardinality(Workers)
    /\ \A c : IsFiniteSet(Holders(c)) /\ Cardinality(Holders(c)) \in Nat
<1> USE FiniteAssumption
<1>1. Cardinality(Workers) \in Nat
  BY FS_CardinalityType
<1>2. ASSUME NEW c
      PROVE  /\ IsFiniteSet(Pending(c)) /\ Cardinality(Pending(c)) \in Nat
             /\ Cardinality(Pending(c)) <= Cardinality(Workers)
  <2>1. Pending(c) \in SUBSET Workers
    BY DEF Pending
  <2> QED
    BY <2>1, FS_Subset, FS_CardinalityType
<1>3. ASSUME NEW c
      PROVE  IsFiniteSet(Holders(c)) /\ Cardinality(Holders(c)) \in Nat
  <2>1. Holders(c) \in SUBSET Users
    BY DEF Holders
  <2> QED
    BY <2>1, FS_Subset, FS_CardinalityType
<1> QED
  BY <1>1, <1>2, <1>3

\* A step that touches no row and no count and opens no creation.
LEMMA CouponIdle ==
    ASSUME TypeOK, CouponInv, UNCHANGED <<subscription, discount>>,
           \A c \in Coupons : coupon'[c].used = coupon[c].used,
           \A w \in Workers : job'[w] = job[w] \/ ~Is(w, "consume")'
    PROVE  CouponInv'
<1>1. NoDiscountWithoutRow'
  BY DEF CouponInv, NoDiscountWithoutRow
<1>2. OpenCreations'
  BY DEF CouponInv, OpenCreations, Is
<1>3. UsesMatchRows'
  BY DEF CouponInv, UsesMatchRows, Holders
<1>4. ASSUME NEW c \in Coupons
      PROVE  coupon'[c].used + Cardinality(Pending(c)') < MaxUses + Cardinality(Workers)
  <2>1. Pending(c)' \in SUBSET Pending(c)
    BY DEF Pending, Is
  <2>2. Cardinality(Pending(c)') \in Nat /\ Cardinality(Pending(c)') <= Cardinality(Pending(c))
    BY <2>1, Counts, FS_Subset, FS_CardinalityType
  <2>3. coupon[c].used \in Nat /\ MaxUses \in Nat
    BY DEF TypeOK
  <2> QED
    BY <2>2, <2>3, Counts DEF CouponInv, UsesAndPendingBounded
<1> QED
  BY <1>1, <1>2, <1>3, <1>4 DEF CouponInv, UsesAndPendingBounded

\* A row created without a coupon to consume.
LEMMA CouponCreateRow ==
    ASSUME TypeOK, TypeOK', CouponInv, NEW w \in Workers, CreateRow(w) PROVE CouponInv'
<1> DEFINE u == job[w].user
<1>1. job[w] \in Creation /\ u \in Users
  BY JobTypes DEF CreateRow, Creation
<1>2. subscription[u] = "NONE" /\ discount[u] = None /\ job[w].coupon \notin Coupons \ FullDiscount
  BY <1>1 DEF CreateRow, Refused, Consumes, CouponInv, NoDiscountWithoutRow, Creation
<1>3. /\ subscription' = [subscription EXCEPT ![u] = NewStatus(job[w])]
      /\ discount' = [discount EXCEPT ![u] = job[w].coupon]
  BY DEF CreateRow, AddRow
<1>4. NewStatus(job[w]) # "NONE"
  BY DEF NewStatus
<1>5. \A v \in Workers : job'[v] = job[v] \/ ~Is(v, "consume")'
  <2>1. job'[w] = AfterCreation(job[w]) /\ \A v \in Workers \ {w} : job'[v] = job[v]
    BY DEF CreateRow, Continue, TypeOK
  <2> QED
    BY <2>1 DEF AfterCreation, Is
<1>6. \A v \in Workers : Is(v, "consume") => job[v].user # u
  BY DEF CreateRow, RowHeld
<1>7. NoDiscountWithoutRow'
  BY <1>3, <1>4 DEF CouponInv, NoDiscountWithoutRow, TypeOK
<1>8. OpenCreations'
  BY <1>3, <1>5, <1>6 DEF CouponInv, OpenCreations, Is, TypeOK
<1>9. UsesMatchRows'
  <2>1. ASSUME NEW c \in Coupons \ FullDiscount PROVE Holders(c)' = Holders(c)
    BY <1>1, <1>2, <1>3, <2>1 DEF Holders, TypeOK
  <2>2. coupon' = coupon
    BY DEF CreateRow
  <2> QED
    BY <2>1, <2>2 DEF CouponInv, UsesMatchRows
<1>10. ASSUME NEW c \in Coupons
       PROVE  coupon'[c].used + Cardinality(Pending(c)') < MaxUses + Cardinality(Workers)
  <2>1. Pending(c)' \in SUBSET Pending(c)
    BY <1>5 DEF Pending, Is
  <2>2. Cardinality(Pending(c)') \in Nat /\ Cardinality(Pending(c)') <= Cardinality(Pending(c))
    BY <2>1, Counts, FS_Subset, FS_CardinalityType
  <2>3. coupon' = coupon /\ coupon[c].used \in Nat /\ MaxUses \in Nat
    BY DEF TypeOK, CreateRow
  <2> QED
    BY <2>2, <2>3, Counts DEF CouponInv, UsesAndPendingBounded
<1> QED
  BY <1>7, <1>8, <1>9, <1>10 DEF CouponInv, UsesAndPendingBounded

\* A creation that has inserted its row and read its coupon.
LEMMA CouponCreateWithCoupon ==
    ASSUME TypeOK, TypeOK', CouponInv, NEW w \in Workers, CreateWithCoupon(w)
    PROVE  CouponInv'
<1> DEFINE u == job[w].user
<1>1. job[w] \in Creation /\ u \in Users /\ Is(w, "create")
  BY JobTypes DEF CreateWithCoupon, Creation
<1>2. /\ subscription[u] = "NONE" /\ job[w].coupon \in Coupons \ FullDiscount
      /\ coupon[job[w].coupon].used < MaxUses
  BY <1>1 DEF CreateWithCoupon, Refused, Consumes, Usable, Creation
<1>3. /\ job'[w] = [job[w] EXCEPT !.kind = "consume"]
      /\ \A v \in Workers \ {w} : job'[v] = job[v]
  BY DEF CreateWithCoupon, Continue, TypeOK
<1>4. job'[w].user = u /\ job'[w].coupon = job[w].coupon
  BY <1>1, <1>3 DEF Creation
<1>5. UNCHANGED <<subscription, discount, coupon>>
  BY DEF CreateWithCoupon
<1>6. \A v \in Workers : Is(v, "consume") => job[v].user # u
  BY DEF CreateWithCoupon, RowHeld
<1>7. NoDiscountWithoutRow' /\ UsesMatchRows'
  BY <1>5 DEF CouponInv, NoDiscountWithoutRow, UsesMatchRows, Holders
<1>8. OpenCreations'
  <2>1. \A v \in Workers : Is(v, "consume")' =>
            v = w \/ (Is(v, "consume") /\ job'[v] = job[v])
    <3>1. \A v \in Workers \ {w} : job'[v] = job[v]
      BY <1>3
    <3> QED
      BY <3>1 DEF Is
  <2>2. \A v \in Workers : Is(v, "consume") =>
            job[v].coupon \in Coupons \ FullDiscount /\ subscription[job[v].user] = "NONE"
    BY DEF CouponInv, OpenCreations
  <2>3. \A v \in Workers : Is(v, "consume")' =>
            job'[v].coupon \in Coupons \ FullDiscount /\ subscription'[job'[v].user] = "NONE"
    BY <1>2, <1>4, <1>5, <2>1, <2>2
  <2>4. \A v, x \in Workers :
            Is(v, "consume")' /\ Is(x, "consume")' /\ job'[v].user = job'[x].user => v = x
    BY <1>4, <1>6, <2>1 DEF CouponInv, OpenCreations
  <2> QED
    BY <2>3, <2>4 DEF OpenCreations
<1>9. ASSUME NEW c \in Coupons
      PROVE  coupon'[c].used + Cardinality(Pending(c)') < MaxUses + Cardinality(Workers)
  <2>1. coupon[c].used \in Nat /\ MaxUses \in Nat
    BY DEF TypeOK
  <2>2. CASE c = job[w].coupon
    <3>1. Pending(c)' \in SUBSET Workers
      BY DEF Pending
    <3>2. Cardinality(Pending(c)') \in Nat /\ Cardinality(Pending(c)') <= Cardinality(Workers)
      BY <3>1, FiniteAssumption, FS_Subset, FS_CardinalityType
    <3> QED
      BY <1>2, <1>5, <2>1, <2>2, <3>2, Counts
  <2>3. CASE c # job[w].coupon
    <3>1. Pending(c)' = Pending(c)
      BY <1>1, <1>3, <1>4, <2>3 DEF Pending, Is
    <3> QED
      BY <1>5, <3>1 DEF CouponInv, UsesAndPendingBounded
  <2> QED
    BY <2>2, <2>3
<1> QED
  BY <1>7, <1>8, <1>9 DEF CouponInv, UsesAndPendingBounded

\* A creation that commits its row and the use of its coupon.
LEMMA CouponConsume ==
    ASSUME TypeOK, TypeOK', CouponInv, NEW w \in Workers, ConsumeCoupon(w)
    PROVE  CouponInv'
<1> DEFINE u == job[w].user
           d == job[w].coupon
<1>1. job[w] \in Creation /\ u \in Users /\ Is(w, "consume")
  BY JobTypes DEF ConsumeCoupon, Creation
<1>2. d \in Coupons \ FullDiscount /\ subscription[u] = "NONE" /\ discount[u] = None
  BY <1>1 DEF CouponInv, OpenCreations, NoDiscountWithoutRow
<1>3. /\ subscription' = [subscription EXCEPT ![u] = NewStatus(job[w])]
      /\ discount' = [discount EXCEPT ![u] = d]
  BY DEF ConsumeCoupon, AddRow
<1>4. NewStatus(job[w]) # "NONE"
  BY DEF NewStatus
<1>5. ~Is(w, "consume")' /\ \A v \in Workers \ {w} : job'[v] = job[v]
  <2>1. job'[w] = AfterCreation(job[w]) /\ \A v \in Workers \ {w} : job'[v] = job[v]
    BY DEF ConsumeCoupon, Continue, TypeOK
  <2> QED
    BY <2>1 DEF AfterCreation, Is
<1>6. /\ coupon'[d].used = coupon[d].used + 1
      /\ \A c \in Coupons \ {d} : coupon'[c] = coupon[c]
  BY <1>2 DEF ConsumeCoupon, UseCoupon, TypeOK
<1>7. NoDiscountWithoutRow'
  BY <1>3, <1>4 DEF CouponInv, NoDiscountWithoutRow, TypeOK
<1>8. OpenCreations'
  <2>1. \A v \in Workers \ {w} : Is(v, "consume") =>
            /\ job[v].user # u /\ job[v].coupon \in Coupons \ FullDiscount
            /\ subscription[job[v].user] = "NONE"
    BY <1>1 DEF CouponInv, OpenCreations
  <2>2. \A v \in Workers : Is(v, "consume")' => v # w /\ Is(v, "consume") /\ job'[v] = job[v]
    BY <1>5 DEF Is
  <2>3. \A x : x # u => subscription'[x] = subscription[x] \/ x \notin Users
    BY <1>3 DEF TypeOK
  <2>4. \A v \in Workers : Is(v, "consume") => job[v].user \in Users
    BY JobTypes DEF Creation
  <2>5. \A v \in Workers : Is(v, "consume")' =>
            job'[v].coupon \in Coupons \ FullDiscount /\ subscription'[job'[v].user] = "NONE"
    BY <2>1, <2>2, <2>3, <2>4
  <2>6. \A v, x \in Workers :
            Is(v, "consume")' /\ Is(x, "consume")' /\ job'[v].user = job'[x].user => v = x
    BY <2>2 DEF CouponInv, OpenCreations
  <2> QED
    BY <2>5, <2>6 DEF OpenCreations
<1>9. ASSUME NEW c \in Coupons \ FullDiscount
      PROVE  coupon'[c].used = Cardinality(Holders(c)')
  <2>1. CASE c = d
    <3>1. Holders(c)' = Holders(c) \cup {u} /\ u \notin Holders(c)
      BY <1>1, <1>2, <1>3, <2>1 DEF Holders, TypeOK
    <3>2. IsFiniteSet(Holders(c)) /\ Cardinality(Holders(c)) \in Nat
      BY Counts
    <3>3. Cardinality(Holders(c) \cup {u}) = Cardinality(Holders(c)) + 1
      BY <3>1, <3>2, FS_AddElement
    <3>4. coupon[c].used = Cardinality(Holders(c))
      BY DEF CouponInv, UsesMatchRows
    <3> QED
      BY <1>6, <2>1, <3>1, <3>3, <3>4
  <2>2. CASE c # d
    <3>1. Holders(c)' = Holders(c)
      BY <1>1, <1>2, <1>3, <2>2 DEF Holders, TypeOK
    <3> QED
      BY <1>6, <2>2, <3>1 DEF CouponInv, UsesMatchRows
  <2> QED
    BY <2>1, <2>2
<1>10. ASSUME NEW c \in Coupons
       PROVE  coupon'[c].used + Cardinality(Pending(c)') < MaxUses + Cardinality(Workers)
  <2>1. coupon[c].used \in Nat /\ MaxUses \in Nat
    BY DEF TypeOK
  <2>2. CASE c = d
    <3>1. Pending(c)' = Pending(c) \ {w} /\ w \in Pending(c)
      BY <1>1, <1>5, <2>2 DEF Pending, Is
    <3>2. Cardinality(Pending(c)') = Cardinality(Pending(c)) - 1
      BY <3>1, Counts, FS_RemoveElement
    <3> QED
      BY <1>6, <2>1, <2>2, <3>2, Counts DEF CouponInv, UsesAndPendingBounded
  <2>3. CASE c # d
    <3>1. Pending(c)' = Pending(c)
      BY <1>1, <1>5, <2>3 DEF Pending, Is
    <3> QED
      BY <1>6, <2>3, <3>1 DEF CouponInv, UsesAndPendingBounded
  <2> QED
    BY <2>2, <2>3
<1> QED
  BY <1>7, <1>8, <1>9, <1>10 DEF CouponInv, UsesMatchRows, UsesAndPendingBounded

\* Every step keeps the coupon invariant.
LEMMA CouponInvStep ==
    ASSUME TypeOK, TypeOK', CouponInv, [Next]_vars PROVE CouponInv'
<1>1. CASE UNCHANGED vars
  BY <1>1, CouponIdle DEF vars
<1>2. ASSUME NEW o \in Orders, NEW spec \in TopUp \cup Purchase, CreateOrder(o, spec)
      PROVE  CouponInv'
  BY <1>2, CouponIdle DEF CreateOrder
<1>3. ASSUME NEW o \in Orders, Capture(o) PROVE CouponInv'
  BY <1>3, CouponIdle DEF Capture
<1>4. ASSUME NEW w \in Workers, NEW o \in Orders, Verify(w, o) PROVE CouponInv'
  <2>1. job'[w].kind # "consume" /\ \A v \in Workers \ {w} : job'[v] = job[v]
    BY <1>4 DEF Verify, Begin, FirstStep, TypeOK
  <2> QED
    BY <1>4, <2>1, CouponIdle DEF Verify, Is
<1>5. ASSUME NEW w \in Workers, NEW u \in Users, NEW c \in Coupons \cup {None},
             Subscribe(w, u, c)
      PROVE  CouponInv'
  <2>1. job'[w].kind # "consume" /\ \A v \in Workers \ {w} : job'[v] = job[v]
    BY <1>5 DEF Subscribe, Begin, TypeOK
  <2> QED
    BY <1>5, <2>1, CouponIdle DEF Subscribe, Is
<1>6. ASSUME NEW w \in Workers, CreditWallet(w) PROVE CouponInv'
  <2>1. job'[w].kind # "consume" /\ \A v \in Workers \ {w} : job'[v] = job[v]
    BY <1>6 DEF CreditWallet, Continue, TypeOK
  <2> QED
    BY <1>6, <2>1, CouponIdle DEF CreditWallet, Is
<1>7. ASSUME NEW w \in Workers, End(w), UNCHANGED <<subscription, discount, coupon>>
      PROVE  CouponInv'
  <2>1. job'[w] = None /\ \A v \in Workers \ {w} : job'[v] = job[v]
    BY <1>7 DEF End, Continue, TypeOK
  <2> QED
    BY <1>7, <2>1, CouponIdle DEF Is
<1>8. ASSUME NEW w \in Workers, Record(w) \/ CreateFails(w) \/ Crash(w) PROVE CouponInv'
  BY <1>7, <1>8 DEF Record, CreateFails, Crash
<1>9. ASSUME NEW w \in Workers, CreateRow(w) PROVE CouponInv'
  BY <1>9, CouponCreateRow
<1>10. ASSUME NEW w \in Workers, CreateWithCoupon(w) PROVE CouponInv'
  BY <1>10, CouponCreateWithCoupon
<1>11. ASSUME NEW w \in Workers, ConsumeCoupon(w) PROVE CouponInv'
  BY <1>11, CouponConsume
<1>12. ASSUME NEW c \in Coupons, ToggleActive(c) PROVE CouponInv'
  <2>1. \A d \in Coupons : coupon'[d].used = coupon[d].used
    BY <1>12 DEF ToggleActive, TypeOK
  <2> QED
    BY <1>12, <2>1, CouponIdle DEF ToggleActive
<1>13. ASSUME NEW u \in Users, NEW status \in Managed \cup {"CANCELLED"},
              ChangeStatus(u, status)
       PROVE  CouponInv'
  <2>1. \A x \in Users : subscription'[x] = "NONE" <=> subscription[x] = "NONE"
    BY <1>13 DEF ChangeStatus, TypeOK, Managed
  <2>2. UNCHANGED <<discount, coupon, job>>
    BY <1>13 DEF ChangeStatus
  <2>3. \A w \in Workers : Is(w, "consume") => job[w].user \in Users
    BY JobTypes DEF Creation
  <2>4. NoDiscountWithoutRow' /\ UsesMatchRows'
    BY <2>1, <2>2 DEF CouponInv, NoDiscountWithoutRow, UsesMatchRows, Holders
  <2>5. OpenCreations'
    BY <2>1, <2>2, <2>3 DEF CouponInv, OpenCreations, Is
  <2>6. UsesAndPendingBounded'
    BY <2>2 DEF CouponInv, UsesAndPendingBounded, Pending, Is
  <2> QED
    BY <2>4, <2>5, <2>6 DEF CouponInv
<1> QED
  BY <1>1, <1>2, <1>3, <1>4, <1>5, <1>6, <1>8, <1>9, <1>10, <1>11, <1>12, <1>13
  DEF Next, Arrive, Serve

-----------------------------------------------------------------------------
(* One credit for each payment *)

\* A payment that was never verified twice at once, nor again after a crash, is served by
\* one request, which credits it first: what was credited is recorded or about to be.
CreditedInTurn(o) ==
    /\ \A v, x \in Workers : Serves(v, o) /\ Serves(x, o) => v = x
    /\ credits[o] > 0 => o \in recorded \/ \E v \in Workers : Is(v, "record") /\ Serves(v, o)
    /\ \A v \in Workers : Is(v, "credit") /\ Serves(v, o) => credits[o] = 0
    /\ credits[o] <= 1

CreditInv == \A o \in Orders \ retried : CreditedInTurn(o)

\* What a request does for a payment without crediting it: it may turn to the record, it
\* ends once the payment is recorded or without having come to the record.
Advances(v, o) ==
    \/ Serves(v, o)' /\ Serves(v, o) /\ ~Is(v, "credit")' /\ (Is(v, "record") => Is(v, "record")')
    \/ ~Serves(v, o)' /\ (o \in recorded' \/ ~Serves(v, o) \/ ~Is(v, "record"))

\* A payment that no step credits stays in turn while its request advances.
LEMMA StaysInTurn ==
    ASSUME NEW o \in Orders, CreditedInTurn(o), credits'[o] = credits[o],
           recorded \subseteq recorded',
           \A v \in Workers : job'[v] = job[v] \/ Advances(v, o)
    PROVE  CreditedInTurn(o)'
<1>1. \A v \in Workers : Serves(v, o)' => Serves(v, o)
  BY DEF Serves, Advances
<1>2. \A v \in Workers : Is(v, "credit")' /\ Serves(v, o)' => Is(v, "credit") /\ Serves(v, o)
  BY DEF Serves, Advances, Is
<1>3. \A v \in Workers : Is(v, "record") /\ Serves(v, o) =>
          o \in recorded' \/ (Is(v, "record")' /\ Serves(v, o)')
  BY DEF Serves, Advances, Is
<1> QED
  BY <1>1, <1>2, <1>3 DEF CreditedInTurn

\* A request that does not serve o, and does not come to, is of no account for o.
LEMMA NotServing ==
    ASSUME NEW o, NEW v, ~Serves(v, o), ~Serves(v, o)' PROVE Advances(v, o)
BY DEF Advances

\* A creation that ends, inserts its row or commits it credits nothing.
LEMMA CreationAdvances ==
    ASSUME TypeOK, NEW o \in Orders, NEW w \in Workers, Is(w, "create") \/ Is(w, "consume"),
           \/ job'[w] = None
           \/ job'[w] = AfterCreation(job[w])
           \/ job'[w] = [job[w] EXCEPT !.kind = "consume"]
    PROVE  Advances(w, o)
<1>1. job[w] \in Creation /\ ~Is(w, "record") /\ job[w] # None
  BY JobTypes DEF Is
<1>2. CASE job'[w] = None
  BY <1>1, <1>2 DEF Advances, Serves
<1>3. CASE job'[w] = AfterCreation(job[w]) /\ job'[w] # None
  <2>1. job'[w] = [kind |-> "record", order |-> job[w].order]
    BY <1>3 DEF AfterCreation
  <2> QED
    BY <1>1, <2>1 DEF Advances, Serves, Is
<1>4. CASE job'[w] = [job[w] EXCEPT !.kind = "consume"]
  <2>1. job'[w].kind = "consume" /\ job'[w].order = job[w].order
    BY <1>1, <1>4 DEF Creation
  <2> QED
    BY <1>1, <2>1 DEF Advances, Serves, Is
<1> QED
  BY <1>2, <1>3, <1>4

\* A verification starts serving a payment that nobody serves, or the payment is retried.
LEMMA CreditVerify ==
    ASSUME TypeOK, CreditInv, NEW w \in Workers, NEW p \in Orders, Verify(w, p)
    PROVE  CreditInv'
<1>1. /\ job'[w] = FirstStep(p) /\ job[w] = None
      /\ \A v \in Workers \ {w} : job'[v] = job[v]
      /\ UNCHANGED <<credits, recorded>> /\ p \notin recorded
  BY DEF Verify, NotProcessed, Begin, TypeOK
<1>2. FirstStep(p).order = p
  BY DEF FirstStep
<1>3. ASSUME NEW o \in Orders, o \notin retried' PROVE CreditedInTurn(o)'
  <2>1. o \notin retried /\ CreditedInTurn(o)
    BY <1>3 DEF Verify, CreditInv
  <2>2. CASE o # p
    <3>1. ~Serves(w, o) /\ ~Serves(w, o)'
      BY <1>1, <1>2, <2>2 DEF Serves
    <3>2. Advances(w, o)
      BY <3>1, NotServing
    <3> QED
      BY <1>1, <2>1, <3>2, StaysInTurn
  <2>3. CASE o = p
    <3>1. \A v \in Workers : ~Serves(v, p)
      BY <1>3, <2>3 DEF Verify
    <3>2. credits[p] \in Nat /\ credits[p] = 0
      BY <1>1, <2>1, <2>3, <3>1 DEF CreditedInTurn, TypeOK
    <3>3. \A v \in Workers : Serves(v, p)' => v = w
      BY <1>1, <3>1 DEF Serves
    <3> QED
      BY <1>1, <2>3, <3>2, <3>3 DEF CreditedInTurn
  <2> QED
    BY <2>2, <2>3
<1> QED
  BY <1>3 DEF CreditInv

\* The credit of a payment in turn is its first, and its record follows.
LEMMA CreditPosted ==
    ASSUME TypeOK, CreditInv, NEW w \in Workers, CreditWallet(w)
    PROVE  CreditInv'
<1> PICK p : p = job[w].order
  OBVIOUS
<1>1. job[w] \in Delivery /\ p \in Orders /\ job[w] # None
  BY JobTypes DEF CreditWallet, Delivery, Is
<1>2. /\ job'[w] = [kind |-> "record", order |-> p]
      /\ \A v \in Workers \ {w} : job'[v] = job[v]
      /\ credits' = [credits EXCEPT ![p] = @ + 1]
      /\ UNCHANGED <<recorded, retried>>
  BY DEF CreditWallet, Continue, TypeOK
<1>3. Serves(w, p) /\ Is(w, "credit")
  BY <1>1 DEF CreditWallet, Serves
<1>4. job'[w].kind = "record" /\ job'[w].order = p
  BY <1>2
<1>5. job'[w] # None
  BY <1>1, <1>2 DEF Delivery
<1>6. ASSUME NEW o \in Orders \ retried PROVE CreditedInTurn(o)'
  <2>1. CreditedInTurn(o)
    BY <1>6 DEF CreditInv
  <2>2. CASE o # p
    <3>1. ~Serves(w, o) /\ ~Serves(w, o)'
      BY <1>3, <1>4, <2>2 DEF Serves
    <3>2. Advances(w, o) /\ credits'[o] = credits[o]
      BY <1>1, <1>2, <2>2, <3>1, NotServing DEF TypeOK
    <3> QED
      BY <1>2, <2>1, <3>2, StaysInTurn
  <2>3. CASE o = p
    <3>1. credits'[p] = 1
      BY <1>1, <1>2, <1>3, <2>1, <2>3 DEF CreditedInTurn, TypeOK
    <3>2. \A v \in Workers : Serves(v, p)' => v = w
      BY <1>2, <1>3, <2>1, <2>3 DEF CreditedInTurn, Serves
    <3>3. Is(w, "record")' /\ Serves(w, p)' /\ ~Is(w, "credit")'
      BY <1>4, <1>5 DEF Is, Serves
    <3> QED
      BY <2>3, <3>1, <3>2, <3>3 DEF CreditedInTurn
  <2> QED
    BY <2>2, <2>3
<1> QED
  BY <1>2, <1>6 DEF CreditInv

\* Every step keeps the credits in turn.
LEMMA CreditInvStep ==
    ASSUME TypeOK, CreditInv, [Next]_vars PROVE CreditInv'
<1>1. ASSUME UNCHANGED <<credits, recorded, job, retried>> PROVE CreditInv'
  BY <1>1, StaysInTurn DEF CreditInv
<1>2. ASSUME NEW w \in Workers, \A v \in Workers \ {w} : job'[v] = job[v],
             UNCHANGED credits, recorded \subseteq recorded', retried \subseteq retried',
             \A o \in Orders \ retried' : Advances(w, o)
      PROVE  CreditInv'
  BY <1>2, StaysInTurn DEF CreditInv
<1>3. CASE UNCHANGED vars
  BY <1>1, <1>3 DEF vars
<1>4. ASSUME NEW o \in Orders, NEW spec \in TopUp \cup Purchase, CreateOrder(o, spec)
      PROVE  CreditInv'
  BY <1>1, <1>4 DEF CreateOrder
<1>5. ASSUME NEW o \in Orders, Capture(o) PROVE CreditInv'
  BY <1>1, <1>5 DEF Capture
<1>6. ASSUME NEW w \in Workers, NEW o \in Orders, Verify(w, o) PROVE CreditInv'
  BY <1>6, CreditVerify
<1>7. ASSUME NEW w \in Workers, NEW u \in Users, NEW c \in Coupons \cup {None},
             Subscribe(w, u, c)
      PROVE  CreditInv'
  <2>1. /\ job[w] = None /\ job'[w].order = None /\ \A v \in Workers \ {w} : job'[v] = job[v]
        /\ UNCHANGED <<credits, recorded, retried>>
    BY <1>7 DEF Subscribe, Begin, TypeOK
  <2>2. \A o \in Orders : Advances(w, o)
    BY <2>1 DEF Advances, Serves
  <2> QED
    BY <1>2, <2>1, <2>2
<1>8. ASSUME NEW w \in Workers, CreditWallet(w) PROVE CreditInv'
  BY <1>8, CreditPosted
<1>9. ASSUME NEW w \in Workers, Record(w) PROVE CreditInv'
  <2>1. /\ job'[w] = None /\ \A v \in Workers \ {w} : job'[v] = job[v]
        /\ recorded' = recorded \cup {job[w].order} /\ UNCHANGED <<credits, retried>>
    BY <1>9 DEF Record, End, Continue, TypeOK
  <2>2. \A o \in Orders : Advances(w, o)
    BY <2>1 DEF Advances, Serves
  <2> QED
    BY <1>2, <2>1, <2>2
<1>10. ASSUME NEW w \in Workers,
              CreateFails(w) \/ CreateRow(w) \/ CreateWithCoupon(w) \/ ConsumeCoupon(w)
       PROVE  CreditInv'
  <2>1. Is(w, "create") \/ Is(w, "consume")
    BY <1>10 DEF CreateFails, CreateRow, CreateWithCoupon, ConsumeCoupon
  <2>2. /\ \/ job'[w] = None
           \/ job'[w] = AfterCreation(job[w])
           \/ job'[w] = [job[w] EXCEPT !.kind = "consume"]
        /\ \A v \in Workers \ {w} : job'[v] = job[v]
        /\ UNCHANGED <<credits, recorded, retried>>
    BY <1>10 DEF CreateFails, CreateRow, CreateWithCoupon, ConsumeCoupon, End, Continue, TypeOK
  <2>3. \A o \in Orders : Advances(w, o)
    BY <2>1, <2>2, CreationAdvances
  <2> QED
    BY <1>2, <2>2, <2>3
<1>11. ASSUME NEW w \in Workers, Crash(w) PROVE CreditInv'
  <2>1. /\ job'[w] = None /\ \A v \in Workers \ {w} : job'[v] = job[v]
        /\ retried' = retried \cup ({job[w].order} \cap Orders) /\ UNCHANGED <<credits, recorded>>
    BY <1>11 DEF Crash, End, Continue, TypeOK
  <2>2. \A o \in Orders \ retried' : Advances(w, o)
    BY <2>1 DEF Advances, Serves
  <2> QED
    BY <1>2, <2>1, <2>2
<1>12. ASSUME NEW c \in Coupons, ToggleActive(c) PROVE CreditInv'
  BY <1>1, <1>12 DEF ToggleActive
<1>13. ASSUME NEW u \in Users, NEW status \in Managed \cup {"CANCELLED"},
              ChangeStatus(u, status)
       PROVE  CreditInv'
  BY <1>1, <1>13 DEF ChangeStatus
<1> QED
  BY <1>3, <1>4, <1>5, <1>6, <1>7, <1>8, <1>9, <1>10, <1>11, <1>12, <1>13
  DEF Next, Arrive, Serve

-----------------------------------------------------------------------------
(* Theorems *)

IInv == TypeOK /\ DeliveryInv /\ CouponInv /\ CreditInv

\* The invariants hold before anything has happened.
LEMMA InitIInv == Init => IInv
<1> SUFFICES ASSUME Init PROVE IInv
  OBVIOUS
<1>1. TypeOK
  BY DEF Init, TypeOK, Status
<1>2. DeliveryInv
  BY DEF Init, DeliveryInv, CapturedAreOrders, RequestsServeTheirOrder, ServesItsOrder,
         RecordedAreDelivered, Is
<1>3. NoDiscountWithoutRow /\ OpenCreations
  BY DEF Init, NoDiscountWithoutRow, OpenCreations, Is
<1>4. UsesMatchRows
  <2>1. ASSUME NEW c \in Coupons \ FullDiscount PROVE Holders(c) = {}
    BY DEF Init, Holders
  <2> QED
    BY <2>1, FS_EmptySet DEF Init, UsesMatchRows
<1>5. ASSUME NEW c \in Coupons
      PROVE  coupon[c].used + Cardinality(Pending(c)) < MaxUses + Cardinality(Workers)
  <2>1. coupon[c].used = 0
    BY DEF Init
  <2> QED
    BY <2>1, Counts
<1>6. CreditInv
  BY DEF Init, CreditInv, CreditedInTurn, Serves
<1> QED
  BY <1>1, <1>2, <1>3, <1>4, <1>5, <1>6 DEF IInv, CouponInv, UsesAndPendingBounded

\* The invariants are inductive.
LEMMA SpecIInv == Spec => []IInv
<1>1. IInv /\ [Next]_vars => IInv'
  BY TypeStep, DeliveryInvStep, CouponInvStep, CreditInvStep DEF IInv, DeliveryInv
<1> QED
  BY InitIInv, <1>1, PTL DEF Spec

\* Orders, rows, coupons and requests keep their types through every step.
THEOREM TypeCorrect == Spec => []TypeOK
BY SpecIInv, PTL DEF IInv

\* A payment that is recorded has topped the wallet up or its user holds a row, whatever
\* crashed, was refused or was verified at the same time.
THEOREM RecordedPaymentsDelivered == Spec => []RecordedMeansDelivered
<1>1. IInv => RecordedMeansDelivered
  BY DEF IInv, DeliveryInv, RecordedAreDelivered, Delivered, RecordedMeansDelivered
<1> QED
  BY SpecIInv, <1>1, PTL

\* A coupon's count is the number of the rows created with it.
THEOREM CouponUsesAreRows == Spec => []UsesMatchRows
BY SpecIInv, PTL DEF IInv, CouponInv

\* A coupon is used less than MaxUses plus the number of concurrent requests.
THEOREM CouponOvershoot == Spec => []OvershootIsBounded
<1>1. IInv => OvershootIsBounded
  BY Counts DEF IInv, TypeOK, CouponInv, UsesAndPendingBounded, OvershootIsBounded
<1> QED
  BY SpecIInv, <1>1, PTL

\* A payment is credited twice only if two of its verifications overlapped or a request
\* died between the credit and the record.
THEOREM SecondCreditNeedsARetry == Spec => []CreditedTwiceOnlyIfRetried
<1>1. IInv => CreditedTwiceOnlyIfRetried
  BY DEF IInv, CreditInv, CreditedInTurn, CreditedTwiceOnlyIfRetried
<1> QED
  BY SpecIInv, <1>1, PTL

-----------------------------------------------------------------------------
(* The steps in the contract *)

\* A request serves a payment only once it was captured.
ServesPaid == \A w \in Workers : job[w] # None /\ job[w].order # None => job[w].order \in captured

\* What a request turns to is of the order it served, or it begins with one that is paid.
LEMMA JobMoves ==
    ASSUME TypeOK, [Next]_vars, NEW w \in Workers, job'[w] # None, job'[w].order # None
    PROVE  \/ job[w] # None /\ job'[w].order = job[w].order
           \/ job'[w].order \in captured
<1> DEFINE Same == job[w] # None /\ job'[w].order = job[w].order
           Paid == job'[w].order \in captured
<1>1. CASE job' = job
  BY <1>1
<1>2. ASSUME NEW v \in Workers, NEW o \in Orders, Verify(v, o) PROVE Same \/ Paid
  <2>1. FirstStep(o).order = o
    BY DEF FirstStep
  <2> QED
    BY <1>2, <2>1 DEF Verify, Begin, TypeOK
<1>3. ASSUME NEW v \in Workers, NEW u, NEW c, Subscribe(v, u, c) PROVE Same \/ Paid
  BY <1>3 DEF Subscribe, Begin, TypeOK
<1>4. ASSUME NEW v \in Workers, CreditWallet(v) PROVE Same \/ Paid
  BY <1>4 DEF CreditWallet, Continue, Is, TypeOK
<1>5. ASSUME NEW v \in Workers, End(v) PROVE Same \/ Paid
  BY <1>5 DEF End, Continue, TypeOK
<1>6. ASSUME NEW v \in Workers, job[v] # None, Continue(v, AfterCreation(job[v]))
      PROVE  Same \/ Paid
  <2>1. AfterCreation(job[v]) # None => AfterCreation(job[v]).order = job[v].order
    BY DEF AfterCreation
  <2> QED
    BY <1>6, <2>1 DEF Continue, TypeOK
<1>7. ASSUME NEW v \in Workers, Is(v, "create"), Continue(v, [job[v] EXCEPT !.kind = "consume"])
      PROVE  Same \/ Paid
  <2>1. job[v] \in Creation /\ job[v] # None
    BY <1>7, JobTypes DEF Is
  <2>2. [job[v] EXCEPT !.kind = "consume"].order = job[v].order
    BY <2>1 DEF Creation
  <2> QED
    BY <1>7, <2>1, <2>2 DEF Continue, TypeOK
<1>8. ASSUME NEW v \in Workers, Serve(v) \/ Crash(v) PROVE Same \/ Paid
  BY <1>4, <1>5, <1>6, <1>7, <1>8
     DEF Serve, Record, CreateFails, CreateRow, CreateWithCoupon, ConsumeCoupon, Crash, Is
<1>9. ASSUME NEW o \in Orders,
             Capture(o) \/ \E spec \in TopUp \cup Purchase : CreateOrder(o, spec)
      PROVE  job' = job
  BY <1>9 DEF Capture, CreateOrder
<1>10. ASSUME NEW c \in Coupons, ToggleActive(c) PROVE job' = job
  BY <1>10 DEF ToggleActive
<1>11. ASSUME NEW u \in Users, NEW status, ChangeStatus(u, status) PROVE job' = job
  BY <1>11 DEF ChangeStatus
<1>12. UNCHANGED vars => job' = job
  BY DEF vars
<1> QED
  BY <1>1, <1>2, <1>3, <1>8, <1>9, <1>10, <1>11, <1>12 DEF Next, Arrive

\* A payment is never taken back.
LEMMA CapturedStays == ASSUME [Next]_vars PROVE captured \subseteq captured'
BY DEF Next, Arrive, Serve, Verify, Subscribe, CreditWallet, Record, CreateFails, CreateRow,
       CreateWithCoupon, ConsumeCoupon, Crash, Capture, CreateOrder, ToggleActive,
       ChangeStatus, vars

\* So a request that serves a payment keeps serving one that was captured.
LEMMA ServesPaidStep == ASSUME TypeOK, ServesPaid, [Next]_vars PROVE ServesPaid'
BY JobMoves, CapturedStays DEF ServesPaid

\* What a step leaves alone when it serves no purpose of the contract.
ContractKept == UNCHANGED <<order, captured, credits, recorded, subscription>>

\* A verification that begins, or a request that dies, disturbs a payment or none.
LEMMA BeginInContract ==
    ASSUME IInv, NEW o \in Orders, o \in captured, ContractKept,
           retried' \in {retried, retried \cup {o}}
    PROVE  Contract!Next \/ UNCHANGED Contract!vars
<1>1. CASE retried' = retried
  BY <1>1 DEF ContractKept, Contract!vars
<1>2. CASE retried' = retried \cup {o}
  <2>1. Contract!Disturb(o)
    BY <1>2 DEF ContractKept, Contract!Disturb
  <2> QED
    BY <2>1 DEF Contract!Next
<1> QED
  BY <1>1, <1>2

\* The credit of a top-up.
LEMMA CreditInContract ==
    ASSUME IInv, ServesPaid, NEW w \in Workers, CreditWallet(w)
    PROVE  Contract!Next
<1> PICK o : o = job[w].order
  OBVIOUS
<1>1. job[w] \in Delivery /\ job[w] # None /\ o \in Orders /\ o # None
  BY JobTypes DEF CreditWallet, Is, Delivery, IInv
<1>2. o \in captured /\ order[o].purpose = "wallet"
  BY <1>1 DEF ServesPaid, CreditWallet, IInv, DeliveryInv, RequestsServeTheirOrder,
              ServesItsOrder
<1>3. o \notin retried => credits[o] = 0
  BY <1>1 DEF IInv, CreditInv, CreditedInTurn, CreditWallet, Serves
<1>4. Contract!Credit(o)
  BY <1>1, <1>2, <1>3 DEF CreditWallet, Contract!Credit
<1> QED
  BY <1>1, <1>4 DEF Contract!Next

\* The record of a payment.
LEMMA RecordInContract ==
    ASSUME IInv, ServesPaid, NEW w \in Workers, Record(w)
    PROVE  Contract!Next
<1> PICK o : o = job[w].order
  OBVIOUS
<1>1. job[w] \in Delivery /\ job[w] # None /\ o \in Orders /\ o # None
  BY JobTypes DEF Record, Is, Delivery, IInv
<1>2. o \in captured /\ Delivered(o)
  BY <1>1 DEF ServesPaid, Record, IInv, DeliveryInv, RequestsServeTheirOrder, ServesItsOrder
<1>3. Contract!Record(o)
  BY <1>2 DEF Record, Delivered, Contract!Record, Contract!Delivered
<1> QED
  BY <1>1, <1>3 DEF Contract!Next

\* A row that is made, for an order that was paid or for nothing to pay now.
LEMMA AddRowInContract ==
    ASSUME IInv, ServesPaid, NEW w \in Workers, job[w] # None, job[w] \in Creation,
           Is(w, "create") \/ Is(w, "consume"), AddRow(job[w]),
           subscription[job[w].user] = "NONE",
           UNCHANGED <<order, captured, credits, recorded, retried>>
    PROVE  Contract!Next
<1> PICK u, o : u = job[w].user /\ o = job[w].order
  OBVIOUS
<1>1. u \in Users
  BY DEF Creation
<1>2. CASE o = None
  <2>1. subscription' = [subscription EXCEPT ![u] = "ACTIVE"]
    BY <1>2 DEF AddRow, NewStatus
  <2>2. Contract!GrantFree(u)
    BY <2>1 DEF Contract!GrantFree
  <2> QED
    BY <1>1, <2>2 DEF Contract!Next
<1>3. CASE o # None
  <2>1. o \in Orders /\ o \in captured
    BY <1>3 DEF Creation, ServesPaid
  <2>2. order[o].purpose # "wallet" /\ order[o].user = u
    BY <1>3 DEF IInv, DeliveryInv, RequestsServeTheirOrder, ServesItsOrder
  <2>3. subscription' = [subscription EXCEPT ![u] = "PAUSED_DUE_TO_FUNDS"]
    BY <1>3 DEF AddRow, NewStatus
  <2>4. Contract!Grant(o)
    BY <2>1, <2>2, <2>3 DEF Contract!Grant
  <2> QED
    BY <2>1, <2>4 DEF Contract!Next
<1> QED
  BY <1>2, <1>3

\* The creation of a row, in one step or with its coupon.
LEMMA CreateInContract ==
    ASSUME IInv, ServesPaid, NEW w \in Workers, CreateRow(w) \/ ConsumeCoupon(w)
    PROVE  Contract!Next
<1>1. /\ Is(w, "create") \/ Is(w, "consume")
      /\ AddRow(job[w])
      /\ UNCHANGED <<order, captured, credits, recorded, retried>>
  BY DEF CreateRow, ConsumeCoupon
<1>2. job[w] # None /\ job[w] \in Creation
  BY <1>1, JobTypes DEF Is, IInv
<1>3. subscription[job[w].user] = "NONE"
  BY DEF CreateRow, Refused, ConsumeCoupon, IInv, CouponInv, OpenCreations
<1> QED
  BY <1>1, <1>2, <1>3, AddRowInContract

\* Every step is one of the contract, or none.
LEMMA NextInContract ==
    ASSUME IInv, ServesPaid, [Next]_vars
    PROVE  Contract!Next \/ UNCHANGED Contract!vars
<1>1. ASSUME ContractKept, retried' = retried PROVE UNCHANGED Contract!vars
  BY <1>1 DEF ContractKept, Contract!vars
<1>2. ASSUME NEW o \in Orders, NEW spec \in TopUp \cup Purchase, CreateOrder(o, spec)
      PROVE  Contract!Next
  <2>1. Contract!Place(o, spec)
    BY <1>2 DEF CreateOrder, Contract!Place
  <2> QED
    BY <2>1 DEF Contract!Next
<1>3. ASSUME NEW o \in Orders, Capture(o) PROVE Contract!Next
  <2>1. Contract!Pay(o)
    BY <1>3 DEF Capture, Contract!Pay
  <2> QED
    BY <2>1 DEF Contract!Next
<1>4. ASSUME NEW w \in Workers, NEW o \in Orders, Verify(w, o)
      PROVE  Contract!Next \/ UNCHANGED Contract!vars
  BY <1>4, BeginInContract DEF Verify, ContractKept
<1>5. ASSUME NEW w \in Workers,
             \/ \E u \in Users, c \in Coupons \cup {None} : Subscribe(w, u, c)
             \/ CreateFails(w) \/ CreateWithCoupon(w)
      PROVE  ContractKept /\ retried' = retried
  BY <1>5 DEF Subscribe, CreateFails, CreateWithCoupon, ContractKept
<1>6. ASSUME NEW w \in Workers, Crash(w)
      PROVE  Contract!Next \/ UNCHANGED Contract!vars
  <2>1. ContractKept /\ retried' = retried \cup ({job[w].order} \cap Orders) /\ job[w] # None
    BY <1>6 DEF Crash, ContractKept
  <2>2. CASE job[w].order \in Orders
    <3>1. job[w].order \in captured
      BY <2>1, <2>2 DEF ServesPaid
    <3> QED
      BY <2>1, <2>2, <3>1, BeginInContract
  <2>3. CASE job[w].order \notin Orders
    BY <1>1, <2>1, <2>3
  <2> QED
    BY <2>2, <2>3
<1>7. ASSUME NEW c \in Coupons, ToggleActive(c) PROVE ContractKept /\ retried' = retried
  BY <1>7 DEF ToggleActive, ContractKept
<1>8. ASSUME NEW u \in Users, NEW status \in Managed \cup {"CANCELLED"},
             ChangeStatus(u, status)
      PROVE  Contract!Next
  <2>1. Contract!ChangeStatus(u)
    BY <1>8 DEF ChangeStatus, Contract!ChangeStatus, Managed
  <2> QED
    BY <2>1 DEF Contract!Next
<1>9. UNCHANGED vars => ContractKept /\ retried' = retried
  BY DEF vars, ContractKept
<1> QED
  BY <1>1, <1>2, <1>3, <1>4, <1>5, <1>6, <1>7, <1>8, <1>9, CreditInContract,
     RecordInContract, CreateInContract DEF Next, Arrive, Serve

\* However verifications, refusals and crashes interleave, the gateway's payments have the
\* effect of steps taken at once: only what was captured is delivered, a top-up once
\* unless its payment was disturbed, and a payment is done with after its delivery.
THEOREM PaymentsImplementContract == Spec => ImplementsContract
<1>1. Init => ServesPaid
  BY DEF Init, ServesPaid
<1>2. Init => Contract!Init
  BY DEF Init, Contract!Init
<1>3. IInv /\ ServesPaid /\ [Next]_vars => ServesPaid' /\ [Contract!Next]_(Contract!vars)
  BY ServesPaidStep, NextInContract DEF IInv
<1> QED
  BY SpecIInv, <1>1, <1>2, <1>3, PTL DEF Spec, ImplementsContract, Contract!Spec
=============================================================================
