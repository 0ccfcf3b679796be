---------------------------- MODULE DepositProofs ----------------------------
(***************************************************************************)
(* Theorems about Deposits for every set of deposits and admin requests    *)
(* and every bound on refusals: its types, that an approved payment has    *)
(* been credited, what a deposit is credited when the decisions about it   *)
(* do not overlap, and that the decisions implement DepositContract.       *)
(***************************************************************************)
EXTENDS Deposits, TLAPS

USE RefusalAssumption, NoneAssumption

Deciding(w, d) == Is(w, "decide") /\ job[w].deposit = d

\* A decision is about a deposit that exists, and has seen whether it has a payment row.
DecisionsOK ==
    \A w \in Workers, d \in Deposits :
        Deciding(w, d) => /\ deposit[d] # None
                          /\ job[w].payment = "NONE" <=> deposit[d].payment = "NONE"

Approved(d) == IF deposit[d] # None /\ deposit[d].payment = "APPROVED" THEN 1 ELSE 0

\* Without a race the one decision about a deposit knows the payment row, and every
\* credit but that of the present approval has been followed by a refusal.
Alone(d) ==
    /\ \A v, w \in Workers : Deciding(v, d) /\ Deciding(w, d) => v = w
    /\ \A w \in Workers : Deciding(w, d) => job[w].payment = deposit[d].payment
    /\ deposit[d] # None /\ deposit[d].payment # "NONE" =>
           deposit[d].payment = deposit[d].status
    /\ credits[d] <= refusals[d] + Approved(d)
    /\ \A w \in Workers : Deciding(w, d) /\ job[w].status = "REJECTED" =>
           credits[d] < refusals[d] + Approved(d)

AloneOK == \A d \in Deposits \ raced : Alone(d)

IInv == TypeOK /\ DecisionsOK /\ ApprovedPaymentIsCredited /\ AloneOK

-----------------------------------------------------------------------------

\* The inductive invariant holds initially.
LEMMA InitIInv == Init => IInv
BY DEF Init, IInv, TypeOK, DecisionsOK, ApprovedPaymentIsCredited, AloneOK, Alone,
       Approved, Deciding, Is

\* The kind of a job says which record it is.
LEMMA JobTypes ==
    ASSUME TypeOK, NEW w \in Workers
    PROVE  /\ Is(w, "decide") => job[w] \in Decision
           /\ Is(w, "notify") => job[w] \in Notice
BY DEF TypeOK, Is, Decision, Notice

\* A new deposit has no decision and no credit.
LEMMA CreatedIInv ==
    ASSUME IInv, NEW d \in Deposits, ManualDeposit(d) \/ CreateDeposit(d)
    PROVE  IInv'
<1>1. PICK p \in {"PENDING", "NONE"} :
          deposit' = [deposit EXCEPT ![d] = [status |-> "PENDING", payment |-> p]]
  BY DEF ManualDeposit, CreateDeposit
<1>2. deposit[d] = None /\ UNCHANGED <<credits, told, refusals, raced, job>>
  BY DEF ManualDeposit, CreateDeposit
<1>3. TypeOK'
  BY <1>1, <1>2 DEF IInv, TypeOK, Deposit, Status
<1>4. DecisionsOK'
  <2>1. \A e \in Deposits : deposit[e] # None => deposit'[e] = deposit[e]
    BY <1>1, <1>2 DEF IInv, TypeOK
  <2> QED
    BY <1>2, <2>1 DEF IInv, DecisionsOK, Deciding, Is
<1>5. ApprovedPaymentIsCredited'
  BY <1>1, <1>2 DEF IInv, TypeOK, ApprovedPaymentIsCredited
<1>6. ASSUME NEW e \in Deposits \ raced' PROVE Alone(e)'
  <2>1. Alone(e)
    BY <1>2 DEF IInv, AloneOK
  <2>2. \A w \in Workers : Deciding(w, e)' <=> Deciding(w, e)
    BY <1>2 DEF Deciding, Is
  <2>3. CASE e = d
    <3>1. \A w \in Workers : ~Deciding(w, e)
      BY <1>2, <2>3 DEF IInv, DecisionsOK
    <3>2. deposit'[e] = [status |-> "PENDING", payment |-> p] /\ Approved(e) = 0
      BY <1>1, <1>2, <2>3 DEF IInv, TypeOK, Approved
    <3>3. credits'[e] <= refusals'[e] + Approved(e)'
      BY <1>2, <2>1, <3>2 DEF Alone, IInv, TypeOK, Approved
    <3> QED
      BY <2>2, <3>1, <3>2, <3>3 DEF Alone
  <2>4. CASE e # d
    <3>1. deposit'[e] = deposit[e] /\ Approved(e)' = Approved(e)
      BY <1>1, <2>4 DEF IInv, TypeOK, Approved
    <3> QED
      BY <1>2, <2>1, <2>2, <3>1 DEF Alone
  <2> QED
    BY <2>3, <2>4
<1> QED
  BY <1>3, <1>4, <1>5, <1>6 DEF IInv, AloneOK

\* A second decision about a deposit marks it raced; a first one reads the payment row.
LEMMA DecideIInv ==
    ASSUME IInv, NEW w \in Workers, NEW d \in Deposits,
           NEW s \in {"APPROVED", "REJECTED"}, Decide(w, d, s)
    PROVE  IInv'
<1> DEFINE j == [kind |-> "decide", deposit |-> d, status |-> s,
                 payment |-> deposit[d].payment]
<1>1. /\ deposit[d] \in Deposit /\ job[w] = None
      /\ job' = [job EXCEPT ![w] = j]
      /\ UNCHANGED <<deposit, credits, told>>
  BY DEF Decide, IInv, TypeOK
<1>2. j \in Decision /\ j # None
  BY <1>1 DEF Decision, Deposit
<1>3. TypeOK'
  BY <1>1, <1>2 DEF Decide, IInv, TypeOK
<1>4. ApprovedPaymentIsCredited'
  BY <1>1 DEF IInv, ApprovedPaymentIsCredited
<1>5. \A v \in Workers, e \in Deposits :
          Deciding(v, e)' <=> IF v = w THEN e = d ELSE Deciding(v, e)
  BY <1>1, <1>2 DEF Deciding, Is, IInv, TypeOK
<1>6. DecisionsOK'
  <2>1. job'[w] = j /\ \A v \in Workers \ {w} : job'[v] = job[v]
    BY <1>1 DEF IInv, TypeOK
  <2> QED
    BY <1>1, <1>5, <2>1 DEF Decide, IInv, DecisionsOK
<1>7. ASSUME NEW e \in Deposits \ raced' PROVE Alone(e)'
  <2>1. e \notin raced /\ Alone(e)
    BY <1>7 DEF Decide, IInv, AloneOK
  <2>2. Approved(e)' = Approved(e)
    BY <1>1 DEF Approved
  <2>3. /\ refusals[e] \in Nat /\ refusals'[e] \in Nat /\ refusals'[e] >= refusals[e]
        /\ s = "REJECTED" => refusals'[d] = refusals[d] + 1
    BY DEF Decide, IInv, TypeOK
  <2>4. credits'[e] = credits[e] /\ credits[e] \in Nat /\ Approved(e) \in Nat
    BY <1>1 DEF IInv, TypeOK, Approved
  <2>5. CASE e = d
    <3>1. \A v \in Workers : ~Deciding(v, d)
      BY <1>7, <2>5 DEF Decide, Deciding
    <3>2. \A v \in Workers : Deciding(v, e)' <=> v = w
      BY <1>5, <2>5, <3>1
    <3>3. job'[w] = j
      BY <1>1 DEF IInv, TypeOK
    <3> QED
      BY <1>1, <2>1, <2>2, <2>3, <2>4, <2>5, <3>2, <3>3 DEF Alone
  <2>6. CASE e # d
    <3>1. \A v \in Workers : Deciding(v, e)' => Deciding(v, e) /\ job'[v] = job[v]
      BY <1>1, <1>5, <2>6 DEF IInv, TypeOK
    <3> QED
      BY <1>1, <2>1, <2>2, <2>3, <2>4, <3>1 DEF Alone
  <2> QED
    BY <2>5, <2>6
<1> QED
  BY <1>3, <1>4, <1>6, <1>7 DEF IInv, AloneOK

\* A decision's transaction moves status, payment row and wallet together.
LEMMA ApplyIInv ==
    ASSUME IInv, NEW w \in Workers, Apply(w)
    PROVE  IInv'
<1> DEFINE j == job[w]
           d == job[w].deposit
           new == [status |-> j.status, payment |-> NewPayment(j, deposit[d].payment)]
<1>1. j \in Decision /\ d \in Deposits /\ Deciding(w, d) /\ deposit[d] \in Deposit
  <2>1. j \in Decision /\ d \in Deposits /\ Deciding(w, d)
    BY JobTypes DEF Apply, IInv, Decision, Deciding
  <2> QED
    BY <2>1 DEF IInv, DecisionsOK, TypeOK
<1>2. /\ deposit' = [deposit EXCEPT ![d] = new]
      /\ credits' = IF ToCredit(j) THEN [credits EXCEPT ![d] = @ + 1] ELSE credits
      /\ UNCHANGED <<told, refusals, raced>>
  BY DEF Apply, IInv, TypeOK
<1>3. new \in Deposit
  BY <1>1 DEF NewPayment, Deposit, Decision, Status
<1>4. job'[w] \in Notice \cup {None} /\ \A v \in Workers \ {w} : job'[v] = job[v]
  BY <1>1 DEF Apply, IInv, TypeOK, Notice
<1>5. TypeOK'
  BY <1>1, <1>2, <1>3, <1>4 DEF Apply, IInv, TypeOK, Notice
<1>6. \A v \in Workers, e \in Deposits : Deciding(v, e)' <=> v # w /\ Deciding(v, e)
  BY <1>4, <1>5, JobTypes DEF Deciding, Is, Notice
<1>7. new # None /\ deposit'[d] = new /\ \A e \in Deposits \ {d} : deposit'[e] = deposit[e]
  BY <1>1, <1>2, <1>3 DEF IInv, TypeOK
<1>8. DecisionsOK'
  <2>1. new.payment = "NONE" <=> deposit[d].payment = "NONE"
    BY <1>1 DEF NewPayment, ToCredit, IInv, DecisionsOK
  <2> QED
    BY <1>4, <1>6, <1>7, <2>1 DEF IInv, DecisionsOK
<1>9. /\ credits'[d] = IF ToCredit(j) THEN credits[d] + 1 ELSE credits[d]
      /\ \A e \in Deposits \ {d} : credits'[e] = credits[e]
      /\ credits[d] \in Nat /\ refusals[d] \in Nat
  BY <1>1, <1>2 DEF IInv, TypeOK
<1>10. ApprovedPaymentIsCredited'
  <2>1. new.payment = "APPROVED" => ToCredit(j) \/ deposit[d].payment = "APPROVED"
    BY DEF NewPayment
  <2>2. new.payment = "APPROVED" => credits'[d] >= 1
    BY <1>1, <1>9, <2>1 DEF IInv, ApprovedPaymentIsCredited
  <2> QED
    BY <1>7, <1>9, <2>2 DEF IInv, ApprovedPaymentIsCredited
<1>11. ASSUME NEW e \in Deposits \ raced' PROVE Alone(e)'
  <2>1. Alone(e)
    BY <1>2 DEF IInv, AloneOK
  <2>2. CASE e = d
    <3>1. \A v \in Workers : ~Deciding(v, e)'
      BY <1>1, <1>6, <2>1, <2>2 DEF Alone
    <3>2. j.payment = deposit[d].payment
      BY <1>1, <2>1, <2>2 DEF Alone
    <3>3. deposit[d].payment # "NONE" => deposit[d].payment = deposit[d].status
      BY <1>1, <2>1, <2>2 DEF Alone
    <3>4. new.payment # "NONE" => new.payment = new.status
      BY <1>1, <3>2 DEF NewPayment, ToCredit, Decision
    <3>5. credits[d] <= refusals[d] + Approved(d)
      BY <2>1, <2>2 DEF Alone
    <3>6. j.status = "REJECTED" => credits[d] < refusals[d] + Approved(d)
      BY <1>1, <2>1, <2>2 DEF Alone
    <3>7. Approved(d) = IF deposit[d].payment = "APPROVED" THEN 1 ELSE 0
      BY <1>1 DEF Approved
    <3>8. Approved(e)' = IF new.payment = "APPROVED" THEN 1 ELSE 0
      BY <1>1, <1>7, <2>2 DEF Approved
    <3>9. credits'[e] <= refusals'[e] + Approved(e)'
      <4>1. ToCredit(j) => credits'[e] <= refusals[e] + Approved(e)'
        BY <1>9, <2>2, <3>2, <3>5, <3>7, <3>8 DEF ToCredit, NewPayment
      <4>2. ~ToCredit(j) /\ j.status = "REJECTED" => credits'[e] <= refusals[e] + Approved(e)'
        BY <1>9, <2>2, <3>2, <3>6, <3>7, <3>8 DEF NewPayment
      <4>3. ~ToCredit(j) /\ j.status # "REJECTED" => credits'[e] <= refusals[e] + Approved(e)'
        BY <1>9, <2>2, <3>5, <3>7, <3>8 DEF NewPayment
      <4> QED
        BY <1>2, <4>1, <4>2, <4>3
    <3> QED
      BY <1>1, <1>7, <2>2, <3>1, <3>4, <3>9 DEF Alone
  <2>3. CASE e # d
    <3>1. deposit'[e] = deposit[e] /\ credits'[e] = credits[e] /\ Approved(e)' = Approved(e)
      BY <1>7, <1>9, <2>3 DEF Approved
    <3>2. \A v \in Workers : Deciding(v, e)' => Deciding(v, e) /\ job'[v] = job[v]
      BY <1>4, <1>6
    <3> QED
      BY <1>2, <2>1, <3>1, <3>2 DEF Alone
  <2> QED
    BY <2>2, <2>3
<1> QED
  BY <1>5, <1>8, <1>10, <1>11 DEF IInv, AloneOK

\* A request that tells the user or dies takes its decision, if any, with it.
LEMMA EndIInv ==
    ASSUME IInv, NEW w \in Workers, Notify(w) \/ Abort(w)
    PROVE  IInv'
<1>1. /\ job' = [job EXCEPT ![w] = None]
      /\ UNCHANGED <<deposit, credits, refusals, raced>>
      /\ told' \subseteq Deposits
  BY JobTypes DEF Notify, Abort, End, IInv, TypeOK, Notice
<1>2. TypeOK'
  BY <1>1 DEF IInv, TypeOK
<1>3. \A v \in Workers, d \in Deposits : Deciding(v, d)' => Deciding(v, d) /\ job'[v] = job[v]
  BY <1>1 DEF Deciding, Is, IInv, TypeOK
<1>4. DecisionsOK' /\ ApprovedPaymentIsCredited'
  BY <1>1, <1>3 DEF IInv, DecisionsOK, ApprovedPaymentIsCredited
<1>5. \A d \in Deposits : Approved(d)' = Approved(d)
  BY <1>1 DEF Approved
<1>6. AloneOK'
  BY <1>1, <1>3, <1>5 DEF IInv, AloneOK, Alone
<1> QED
  BY <1>2, <1>4, <1>6 DEF IInv

\* Every step keeps the inductive invariant.
LEMMA NextIInv == IInv /\ [Next]_vars => IInv'
<1> SUFFICES ASSUME IInv, [Next]_vars PROVE IInv'
  OBVIOUS
<1>1. CASE UNCHANGED vars
  BY <1>1 DEF vars, IInv, TypeOK, DecisionsOK, ApprovedPaymentIsCredited, AloneOK, Alone,
              Approved, Deciding, Is
<1>2. CASE Next
  BY <1>2, CreatedIInv, DecideIInv, ApplyIInv, EndIInv DEF Next
<1> QED
  BY <1>1, <1>2

\* The invariant holds in every state.
LEMMA Invariance == Spec => []IInv
BY InitIInv, NextIInv, PTL DEF Spec

-----------------------------------------------------------------------------
(* Results *)

\* Deposits, payment rows, credits and requests keep their types.
THEOREM TypeCorrect == Spec => []TypeOK
<1>1. IInv => TypeOK
  BY DEF IInv
<1> QED
  BY <1>1, Invariance, PTL

\* A payment row that reads APPROVED was credited, however decisions overlap.
THEOREM ApprovedPaymentsCredited == Spec => []ApprovedPaymentIsCredited
<1>1. IInv => ApprovedPaymentIsCredited
  BY DEF IInv
<1> QED
  BY <1>1, Invariance, PTL

\* Without overlapping decisions a deposit is credited once, and once more for each
\* refusal in between.
THEOREM CreditsAreApprovals == Spec => []OneCreditPerApproval
<1>1. IInv => OneCreditPerApproval
  <2> SUFFICES ASSUME IInv, NEW d \in Deposits \ raced PROVE credits[d] <= 1 + refusals[d]
    BY DEF OneCreditPerApproval
  <2>1. credits[d] \in Nat /\ refusals[d] \in Nat
    BY DEF IInv, TypeOK
  <2>2. credits[d] <= refusals[d] + Approved(d)
    BY DEF IInv, AloneOK, Alone
  <2> QED
    BY <2>1, <2>2 DEF Approved
<1> QED
  BY <1>1, Invariance, PTL

\* Without overlapping decisions a deposit and its payment row have the same status.
THEOREM RowsAgree == Spec => []StatusesAgree
<1>1. IInv => StatusesAgree
  BY DEF IInv, AloneOK, Alone, StatusesAgree
<1> QED
  BY <1>1, Invariance, PTL

-----------------------------------------------------------------------------
(* Refinement: a decision has its whole effect when its transaction commits *)

\* What the rows of one deposit change in the contract's view of the payments.
LEMMA PaymentChange ==
    ASSUME NEW d \in Deposits, \A e \in Deposits \ {d} : deposit'[e] = deposit[e]
    PROVE  PaymentOf' = [PaymentOf EXCEPT ![d] = PaymentOf'[d]]
BY DEF PaymentOf

\* A deposit that appears is submitted, unless it has no payment row.
LEMMA CreationSubmits ==
    ASSUME IInv, NEW d \in Deposits, ManualDeposit(d) \/ CreateDeposit(d)
    PROVE  [Contract!Next]_(Contract!vars)
<1>1. PICK p \in {"PENDING", "NONE"} :
          deposit' = [deposit EXCEPT ![d] = [status |-> "PENDING", payment |-> p]]
  BY DEF ManualDeposit, CreateDeposit
<1>2. deposit[d] = None /\ UNCHANGED <<credits, raced>>
  BY DEF ManualDeposit, CreateDeposit
<1>3. [status |-> "PENDING", payment |-> p] \in Deposit
  BY DEF Deposit, Status
<1>4. deposit'[d] = [status |-> "PENDING", payment |-> p] /\ deposit'[d] # None
  BY <1>1, <1>3 DEF IInv, TypeOK
<1>5. PaymentOf[d] = "NONE" /\ PaymentOf'[d] = p
  BY <1>2, <1>4 DEF PaymentOf
<1>6. PaymentOf' = [PaymentOf EXCEPT ![d] = p]
  BY <1>1, <1>5, PaymentChange DEF IInv, TypeOK
<1>7. CASE p = "PENDING"
  BY <1>2, <1>5, <1>6, <1>7 DEF Contract!Next, Contract!Submit
<1>8. CASE p = "NONE"
  BY <1>2, <1>5, <1>6, <1>8 DEF Contract!vars, PaymentOf
<1> QED
  BY <1>7, <1>8

\* What was read before the transaction is still so, or the deposit is contested.
LEMMA ApplyDecides ==
    ASSUME IInv, IInv', NEW w \in Workers, Apply(w)
    PROVE  [Contract!Next]_(Contract!vars)
<1> DEFINE j == job[w]
           d == job[w].deposit
           old == deposit[d].payment
           new == NewPayment(j, old)
<1>1. j \in Decision /\ d \in Deposits /\ Deciding(w, d) /\ deposit[d] \in Deposit
  <2>1. j \in Decision /\ d \in Deposits /\ Deciding(w, d)
    BY JobTypes DEF Apply, IInv, Decision, Deciding
  <2> QED
    BY <2>1 DEF IInv, DecisionsOK, TypeOK
<1>2. /\ deposit' = [deposit EXCEPT ![d] = [status |-> j.status, payment |-> new]]
      /\ credits' = IF ToCredit(j) THEN [credits EXCEPT ![d] = @ + 1] ELSE credits
      /\ UNCHANGED raced
  BY DEF Apply
<1>3. [status |-> j.status, payment |-> new] \in Deposit /\ j.payment \in Status \cup {"NONE"}
  BY <1>1 DEF NewPayment, Deposit, Decision, Status
<1>4. deposit'[d] = [status |-> j.status, payment |-> new] /\ deposit'[d] # None
  BY <1>1, <1>2, <1>3 DEF IInv, TypeOK
<1>5. PaymentOf[d] = old /\ PaymentOf'[d] = new
  BY <1>1, <1>4 DEF PaymentOf
<1>6. PaymentOf' = [PaymentOf EXCEPT ![d] = new]
  BY <1>1, <1>2, <1>5, PaymentChange DEF IInv, TypeOK
<1>7. old = "NONE" <=> j.payment = "NONE"
  BY <1>1 DEF IInv, DecisionsOK
<1>8. CASE old = "NONE"
  <2>1. ~ToCredit(j) /\ new = old
    BY <1>7, <1>8 DEF ToCredit, NewPayment
  <2> QED
    BY <1>2, <1>5, <1>6, <2>1 DEF Contract!vars, PaymentOf
<1>9. CASE old # "NONE" /\ d \in raced
  <2>1. new \in {"PENDING", "APPROVED", "REJECTED"}
    BY <1>1, <1>9 DEF NewPayment, Deposit, Status
  <2>2. new = "APPROVED" => credits'[d] >= 1
    BY <1>1, <1>4 DEF IInv, ApprovedPaymentIsCredited
  <2>3. Contract!Clash(d)
    BY <1>2, <1>5, <1>6, <1>9, <2>1, <2>2 DEF Contract!Clash
  <2> QED
    BY <1>1, <2>3 DEF Contract!Next
<1>10. CASE old # "NONE" /\ d \notin raced
  <2>1. j.payment = old /\ old \in Status /\ j.status \in {"APPROVED", "REJECTED"}
    BY <1>1, <1>10 DEF IInv, AloneOK, Alone, Deposit, Decision
  <2>2. CASE j.status = "REJECTED"
    <3>1. ~ToCredit(j) /\ new = "REJECTED"
      BY <1>7, <1>10, <2>2 DEF ToCredit, NewPayment
    <3>2. Contract!Refuse(d)
      BY <1>2, <1>5, <1>6, <1>10, <3>1 DEF Contract!Refuse
    <3> QED
      BY <1>1, <3>2 DEF Contract!Next
  <2>3. CASE j.status = "APPROVED" /\ old = "APPROVED"
    <3>1. ~ToCredit(j) /\ new = old
      BY <2>1, <2>3 DEF ToCredit, NewPayment
    <3> QED
      BY <1>2, <1>5, <1>6, <3>1 DEF Contract!vars, PaymentOf
  <2>4. CASE j.status = "APPROVED" /\ old # "APPROVED"
    <3>1. ToCredit(j) /\ new = "APPROVED" /\ old \in {"PENDING", "REJECTED"}
      BY <1>10, <2>1, <2>4 DEF ToCredit, NewPayment, Status
    <3>2. Contract!Approve(d)
      BY <1>2, <1>5, <1>6, <3>1 DEF Contract!Approve
    <3> QED
      BY <1>1, <3>2 DEF Contract!Next
  <2> QED
    BY <2>1, <2>2, <2>3, <2>4
<1> QED
  BY <1>8, <1>9, <1>10

\* For any deposits and admins: decisions that never overlap have the effect of decisions
\* taken at once, and an approved payment was credited even when they do.
THEOREM DepositsImplementContract == Spec => ImplementsContract
<1>1. Init => Contract!Init
  BY DEF Init, Contract!Init, PaymentOf
<1>2. IInv /\ IInv' /\ [Next]_vars => [Contract!Next]_(Contract!vars)
  <2> SUFFICES ASSUME IInv, IInv', [Next]_vars PROVE [Contract!Next]_(Contract!vars)
    OBVIOUS
  <2>1. ASSUME NEW d \in Deposits, ManualDeposit(d) \/ CreateDeposit(d)
        PROVE  [Contract!Next]_(Contract!vars)
    BY <2>1, CreationSubmits
  <2>2. ASSUME NEW w \in Workers, NEW d \in Deposits, NEW s \in {"APPROVED", "REJECTED"},
               Decide(w, d, s)
        PROVE  [Contract!Next]_(Contract!vars)
    <3>1. UNCHANGED <<PaymentOf, credits>> /\ raced' \in {raced, raced \cup {d}}
      BY <2>2 DEF Decide, PaymentOf
    <3> QED
      BY <3>1 DEF Contract!Next, Contract!Contest, Contract!vars
  <2>3. ASSUME NEW w \in Workers, Apply(w)
        PROVE  [Contract!Next]_(Contract!vars)
    BY <2>3, ApplyDecides
  <2>4. ASSUME NEW w \in Workers, Notify(w) \/ Abort(w)
        PROVE  UNCHANGED Contract!vars
    BY <2>4 DEF Notify, Abort, Contract!vars, PaymentOf
  <2>5. CASE UNCHANGED vars
    BY <2>5 DEF vars, Contract!vars, PaymentOf
  <2> QED
    BY <2>1, <2>2, <2>3, <2>4, <2>5 DEF Next
<1> QED
  BY Invariance, <1>1, <1>2, PTL DEF Spec, ImplementsContract, Contract!Spec
=============================================================================
