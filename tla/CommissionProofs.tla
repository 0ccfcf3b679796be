-------------------------- MODULE CommissionProofs --------------------------
(***************************************************************************)
(* Theorems about CommissionLedger for every set of invoices, partners,    *)
(* payout requests and workers: the types of its rows, that a commission   *)
(* is paid at most once and every claim has its payout, that a payout is   *)
(* worth its rows, that the ledger implements the payout contract, and     *)
(* what reversals leave: nothing of a voided invoice, and a flag where     *)
(* something of it had been paid.                                          *)
(***************************************************************************)
EXTENDS CommissionLedger, SumLemmas

Unclaimed == {"NONE", "EARNED", "PAYABLE", "WITHDRAWABLE"}

\* What a request has read stays usable: the rows it names exist, and a decision
\* expects the one status its target may be reached from.
JobOK(j) ==
    /\ j.kind \in {"transition", "creditNote", "reverse"} => j.invoice \in Invoices
    /\ j.kind \in {"request", "claim"} => j.partner \in Partners
    /\ j.kind = "decide" =>
           /\ j.payout \in Payouts /\ payout[j.payout] # None
           /\ \/ j.to = "APPROVED" /\ j.from = "PENDING"
              \/ j.to = "COMPLETED" /\ j.from = "APPROVED"
              \/ j.to = "REJECTED" /\ j.from \in {"PENDING", "APPROVED"}

JobsOK ==
    /\ job = [w \in Workers |-> job[w]]
    /\ \A w \in Workers : job[w] # None => JobOK(job[w])

\* A row is linked to a payout that exists, and has been paid exactly when that
\* payout is completed.
PaidByItsPayout ==
    \A a \in Accruals :
        /\ link[a] # None => payout[link[a]] # None
        /\ paid[a] = IF link[a] # None /\ payout[link[a]].status = "COMPLETED" THEN 1 ELSE 0

ClaimInv == ClaimsHaveTheirPayout /\ PayoutIsWorthItsRows /\ PaidByItsPayout
IInv == StatusTypeOK /\ ClaimInv /\ JobsOK

\* The net of a partner as the model sums it is the sum of the lemmas.
LEMMA NetSums ==
    ASSUME NEW S, S \subseteq Accruals
    PROVE  MapThenSumSet(Net, S) = SumOf([a \in Accruals |-> Net(a)], S)
BY ZenonT(20) DEF SumOf, MapThenSumSet, MapThenFoldSet

USE ChainAssumption, CommissionAssumption, NoneAssumption

-----------------------------------------------------------------------------

\* The partners of finitely many invoices earn finitely many commissions.
LEMMA AccrualsFinite == IsFiniteSet(Accruals)
<1>1. IsFiniteSet(Invoices \X Partners)
  BY FS_Product, FiniteAssumption
<1>2. Accruals \subseteq Invoices \X Partners
  BY DEF Accruals
<1> QED
  BY <1>1, <1>2, FS_Subset

\* The inductive invariant holds initially.
LEMMA InitIInv == Init => IInv
<1> SUFFICES ASSUME Init PROVE IInv
  OBVIOUS
<1>1. StatusTypeOK
  BY DEF Init, StatusTypeOK, InvoiceStatus, LedgerStatus
<1>2. ClaimInv
  BY DEF Init, ClaimInv, ClaimsHaveTheirPayout, PayoutIsWorthItsRows, PaidByItsPayout, Live
<1>3. JobsOK
  BY DEF Init, JobsOK
<1> QED
  BY <1>1, <1>2, <1>3 DEF IInv

-----------------------------------------------------------------------------
(* Requests *)

\* A request that ends, while no payout disappears, leaves the others usable.
LEMMA EndJob ==
    ASSUME JobsOK, NEW w \in Workers, End(w),
           \A q \in Payouts : payout[q] # None => payout'[q] # None
    PROVE  JobsOK'
BY DEF JobsOK, JobOK, End

\* A request that reads one thing and keeps it for later.
LEMMA NextJob ==
    ASSUME JobsOK, NEW w \in Workers, NEW j, JobOK(j),
           job' = [job EXCEPT ![w] = j], payout' = payout
    PROVE  JobsOK'
BY DEF JobsOK, JobOK

-----------------------------------------------------------------------------
(* Steps of invoices: no row is claimed, none is unclaimed *)

\* A step that leaves payouts alone, claims no row and gives no claimed row back.
LEMMA InvoiceSide ==
    ASSUME StatusTypeOK, ClaimInv, UNCHANGED <<link, payout, paid>>,
           accrual' \in [Accruals -> LedgerStatus \cup {"NONE"}],
           invoice' \in [Invoices -> InvoiceStatus],
           \A a \in Accruals : accrual'[a] = accrual[a] \/ accrual'[a] = "REVERSED"
                                   \/ {accrual[a], accrual'[a]} \subseteq Unclaimed
    PROVE  StatusTypeOK' /\ ClaimInv'
<1>1. StatusTypeOK'
  BY DEF StatusTypeOK
<1>2. ClaimsHaveTheirPayout'
  BY DEF ClaimInv, ClaimsHaveTheirPayout, Unclaimed, Live
<1>3. PayoutIsWorthItsRows' /\ PaidByItsPayout'
  BY DEF ClaimInv, PayoutIsWorthItsRows, PaidByItsPayout, Live
<1> QED
  BY <1>1, <1>2, <1>3 DEF ClaimInv

\* ACCRUED -> INVOICED preserves the invariant.
LEMMA DistributeIInv ==
    ASSUME IInv, NEW w \in Workers, Distribute(w) PROVE IInv'
<1>1. job[w].invoice \in Invoices
  BY DEF IInv, JobsOK, JobOK, Distribute, Is
<1>2. JobsOK'
  BY EndJob DEF IInv, Distribute
<1>3. \A a \in Accruals : accrual'[a] = accrual[a] \/ {accrual[a], accrual'[a]} \subseteq Unclaimed
  BY DEF IInv, StatusTypeOK, Distribute, AccrualsOf, Unclaimed
<1>4. accrual' \in [Accruals -> LedgerStatus \cup {"NONE"}]
  BY DEF IInv, StatusTypeOK, Distribute, LedgerStatus
<1>5. invoice' \in [Invoices -> InvoiceStatus]
  BY <1>1 DEF IInv, StatusTypeOK, Distribute, InvoiceStatus
<1> QED
  BY <1>2, <1>3, <1>4, <1>5, InvoiceSide DEF IInv, Distribute

\* INVOICED -> PAID preserves the invariant.
LEMMA MarkAsPayableIInv ==
    ASSUME IInv, NEW w \in Workers, MarkAsPayable(w) PROVE IInv'
<1>1. job[w].invoice \in Invoices
  BY DEF IInv, JobsOK, JobOK, MarkAsPayable, Is
<1>2. JobsOK'
  BY EndJob DEF IInv, MarkAsPayable
<1>3. \A a \in Accruals : accrual'[a] = accrual[a] \/ {accrual[a], accrual'[a]} \subseteq Unclaimed
  BY DEF IInv, StatusTypeOK, MarkAsPayable, Unclaimed
<1>4. accrual' \in [Accruals -> LedgerStatus \cup {"NONE"}]
  BY DEF IInv, StatusTypeOK, MarkAsPayable, LedgerStatus
<1>5. invoice' \in [Invoices -> InvoiceStatus]
  BY <1>1 DEF IInv, StatusTypeOK, MarkAsPayable, InvoiceStatus
<1> QED
  BY <1>2, <1>3, <1>4, <1>5, InvoiceSide DEF IInv, MarkAsPayable

\* A reversal preserves the invariant, whatever it had loaded.
LEMMA ReverseCommitIInv ==
    ASSUME IInv, NEW w \in Workers, ReverseCommit(w) PROVE IInv'
<1>1. job[w].invoice \in Invoices
  BY DEF IInv, JobsOK, JobOK, ReverseCommit, Is
<1>2. JobsOK'
  BY EndJob DEF IInv, ReverseCommit
<1>3. \A a \in Accruals : accrual'[a] = accrual[a] \/ accrual'[a] = "REVERSED"
  BY DEF IInv, StatusTypeOK, ReverseCommit
<1>4. accrual' \in [Accruals -> LedgerStatus \cup {"NONE"}]
  BY DEF IInv, StatusTypeOK, ReverseCommit, LedgerStatus
<1>5. invoice' \in [Invoices -> InvoiceStatus]
  BY <1>1 DEF IInv, StatusTypeOK, ReverseCommit, InvoiceStatus
<1> QED
  BY <1>2, <1>3, <1>4, <1>5, InvoiceSide DEF IInv, ReverseCommit

\* Maturity preserves the invariant.
LEMMA MaturityIInv ==
    ASSUME IInv, NEW due, ProcessMaturedCommissions(due) PROVE IInv'
<1>2. JobsOK'
  BY DEF IInv, JobsOK, JobOK, ProcessMaturedCommissions
<1>3. \A a \in Accruals : accrual'[a] = accrual[a] \/ {accrual[a], accrual'[a]} \subseteq Unclaimed
  BY DEF ProcessMaturedCommissions, Unclaimed, IInv, StatusTypeOK
<1>4. accrual' \in [Accruals -> LedgerStatus \cup {"NONE"}]
  BY DEF IInv, StatusTypeOK, ProcessMaturedCommissions, LedgerStatus
<1> QED
  BY <1>2, <1>3, <1>4, InvoiceSide DEF IInv, ProcessMaturedCommissions, StatusTypeOK

\* Steps that only read preserve it.
LEMMA ReadIInv ==
    ASSUME IInv, NEW w \in Workers,
           UNCHANGED <<invoice, accrual, link, payout, paid>>,
           \/ \E i \in Invoices, to \in InvoiceStatus : TransitionRead(w, i, to)
           \/ \E i \in Invoices, c \in CreditAmounts : CreditNoteRead(w, i, c)
           \/ VoidLoad(w) \/ CreditNoteLoad(w)
           \/ \E p \in Partners : PayoutCheck(w, p)
           \/ PayoutReadNet(w)
           \/ \E q \in Payouts, to \in PayoutStatus \ {"PENDING"} : PayoutDecide(w, q, to)
           \/ Abort(w)
    PROVE  IInv'
<1>1. StatusTypeOK' /\ ClaimInv'
  BY DEF IInv, StatusTypeOK, ClaimInv, ClaimsHaveTheirPayout, PayoutIsWorthItsRows,
         PaidByItsPayout, Live
<1>2. JobsOK'
  <2> USE DEF IInv
  <2>1. ASSUME NEW i \in Invoices, NEW to \in InvoiceStatus, TransitionRead(w, i, to) PROVE JobsOK'
    <3> DEFINE j == [kind |-> "transition", invoice |-> i, from |-> invoice[i], to |-> to]
    <3>1. JobOK(j)
      BY DEF JobOK
    <3> QED
      BY <2>1, <3>1, NextJob DEF TransitionRead, Begin
  <2>2. ASSUME NEW i \in Invoices, NEW c \in CreditAmounts, CreditNoteRead(w, i, c) PROVE JobsOK'
    <3> DEFINE j == [kind |-> "creditNote", invoice |-> i, amount |-> c]
    <3>1. JobOK(j)
      BY DEF JobOK
    <3> QED
      BY <2>2, <3>1, NextJob DEF CreditNoteRead, Begin
  <2>3. ASSUME VoidLoad(w) PROVE JobsOK'
    <3> DEFINE j == [kind |-> "reverse", invoice |-> job[w].invoice, key |-> Void, read |-> accrual]
    <3>1. JobOK(j)
      BY <2>3 DEF JobsOK, JobOK, VoidLoad, Is
    <3>2. job' = [job EXCEPT ![w] = j]
      BY <2>3 DEF VoidLoad
    <3> QED
      BY <3>1, <3>2, NextJob
  <2>4. ASSUME CreditNoteLoad(w) PROVE JobsOK'
    <3> DEFINE j == [kind |-> "reverse", invoice |-> job[w].invoice, key |-> job[w].amount,
                     read |-> accrual]
    <3>1. JobOK(j)
      BY <2>4 DEF JobsOK, JobOK, CreditNoteLoad, Is
    <3>2. job' = [job EXCEPT ![w] = j]
      BY <2>4 DEF CreditNoteLoad
    <3> QED
      BY <3>1, <3>2, NextJob
  <2>5. ASSUME NEW p \in Partners, PayoutCheck(w, p) PROVE JobsOK'
    <3> DEFINE j == [kind |-> "request", partner |-> p]
    <3>1. JobOK(j)
      BY DEF JobOK
    <3> QED
      BY <2>5, <3>1, NextJob DEF PayoutCheck, Begin
  <2>6. ASSUME PayoutReadNet(w) PROVE JobsOK'
    <3> DEFINE p == job[w].partner
               j == [kind |-> "claim", partner |-> p, net |-> PartnerNet(p)]
    <3>1. JobOK(j)
      BY <2>6 DEF JobsOK, JobOK, PayoutReadNet, Is
    <3>2. CASE job' = [job EXCEPT ![w] = j]
      BY <3>1, <3>2, NextJob
    <3>3. CASE job' = [job EXCEPT ![w] = None]
      BY <3>3, EndJob DEF End
    <3> QED
      BY <2>6, <3>2, <3>3 DEF PayoutReadNet
  <2>7. ASSUME NEW q \in Payouts, NEW to \in PayoutStatus \ {"PENDING"}, PayoutDecide(w, q, to)
        PROVE JobsOK'
    <3> DEFINE j == [kind |-> "decide", payout |-> q,
                     from |-> FromStatus(to, payout[q].status), to |-> to]
    <3>1. JobOK(j)
      BY <2>7 DEF JobOK, PayoutDecide, FromStatus, PayoutStatus
    <3> QED
      BY <2>7, <3>1, NextJob DEF PayoutDecide, Begin
  <2>8. ASSUME Abort(w) PROVE JobsOK'
    BY <2>8, EndJob DEF Abort
  <2> QED
    BY <2>1, <2>2, <2>3, <2>4, <2>5, <2>6, <2>7, <2>8
<1> QED
  BY <1>1, <1>2 DEF IInv

-----------------------------------------------------------------------------
(* Payouts *)

\* A claim preserves the invariant: the new payout is worth the rows it takes,
\* none of which was in another.
LEMMA PayoutClaimIInv ==
    ASSUME IInv, NEW w \in Workers, NEW q \in Payouts, PayoutClaim(w, q) PROVE IInv'
<1> DEFINE p == job[w].partner
           rows == Claimable(p)
           amount == Commission * Cardinality(rows)
<1>1. p \in Partners
  BY DEF IInv, JobsOK, JobOK, PayoutClaim, Is
<1>2. CASE UNCHANGED <<accrual, link, payout>>
  <2>1. JobsOK'
    BY <1>2, EndJob DEF IInv, PayoutClaim
  <2>2. StatusTypeOK' /\ ClaimInv'
    BY <1>2, InvoiceSide DEF IInv, PayoutClaim, StatusTypeOK
  <2> QED
    BY <2>1, <2>2 DEF IInv
<1>3. CASE /\ accrual' = [a \in Accruals |-> IF a \in rows THEN "WITHDRAWN" ELSE accrual[a]]
           /\ link' = [a \in Accruals |-> IF a \in rows THEN q ELSE link[a]]
           /\ payout' = [payout EXCEPT
                  ![q] = [partner |-> p, amount |-> amount, status |-> "PENDING"]]
  <2>0. payout[q] = None /\ UNCHANGED <<invoice, paid>>
    BY DEF PayoutClaim
  <2>1. rows \subseteq Accruals /\ \A a \in rows : accrual[a] = "WITHDRAWABLE" /\ link[a] = None
    BY DEF Claimable, IInv, ClaimInv, ClaimsHaveTheirPayout
  <2>2. Cardinality(rows) \in Nat
    BY <2>1, AccrualsFinite, FS_Subset, FS_CardinalityType
  <2>3. amount \in Nat
    BY <2>2
  <2> DEFINE new == [partner |-> p, amount |-> amount, status |-> "PENDING"]
  <2>4. new \in Payout /\ new # None
    BY <1>1, <2>3 DEF Payout, PayoutStatus
  <2>5. payout'[q] = new /\ \A r \in Payouts : r # q => payout'[r] = payout[r]
    BY <1>3 DEF IInv, StatusTypeOK
  <2> HIDE DEF rows, amount, new
  <2>6. StatusTypeOK'
    BY <1>3, <2>0, <2>4 DEF IInv, StatusTypeOK, LedgerStatus, new
  <2>7. ClaimsHaveTheirPayout'
    BY <1>3, <2>0, <2>1, <2>4, <2>5
    DEF IInv, ClaimInv, StatusTypeOK, ClaimsHaveTheirPayout, PaidByItsPayout, Live, new
  <2>8. PaidByItsPayout'
    BY <1>3, <2>0, <2>1, <2>4, <2>5 DEF IInv, ClaimInv, StatusTypeOK, PaidByItsPayout, new
  <2>9. PayoutIsWorthItsRows'
    <3> SUFFICES ASSUME NEW r \in Payouts, Live(r)'
                 PROVE  payout'[r].amount
                            = Commission * Cardinality({ a \in Accruals : link'[a] = r })
      BY DEF PayoutIsWorthItsRows
    <3>1. CASE r = q
      <4>1. { a \in Accruals : link'[a] = r } = rows
        BY <1>3, <2>0, <2>1, <3>1 DEF IInv, ClaimInv, StatusTypeOK, PaidByItsPayout
      <4>2. payout'[r].amount = Commission * Cardinality(rows)
        BY <3>1, <2>5 DEF new, amount
      <4> QED
        BY <4>1, <4>2
    <3>2. CASE r # q
      <4>1. { a \in Accruals : link'[a] = r } = { a \in Accruals : link[a] = r }
        BY <1>3, <2>0, <2>1, <3>2, NoneAssumption DEF IInv, StatusTypeOK
      <4>2. Live(r)
        BY <2>5, <3>2 DEF Live
      <4> QED
        BY <3>2, <4>1, <4>2, <2>5 DEF IInv, ClaimInv, PayoutIsWorthItsRows
    <3> QED
      BY <3>1, <3>2
  <2>10. JobsOK'
    BY <2>4, <2>5, EndJob DEF IInv, PayoutClaim
  <2> QED
    BY <2>6, <2>7, <2>8, <2>9, <2>10 DEF IInv, ClaimInv
<1> QED
  BY <1>2, <1>3 DEF PayoutClaim

\* What a decision that passes its compare-and-set writes.
Decided(q, to) ==
    /\ payout' = [payout EXCEPT ![q] = [@ EXCEPT !.status = to]]
    /\ IF to = "REJECTED"
       THEN /\ accrual' = [a \in Accruals |->
                   IF a \in Release(q) THEN "WITHDRAWABLE" ELSE accrual[a]]
            /\ link' = [a \in Accruals |-> IF a \in Release(q) THEN None ELSE link[a]]
       ELSE UNCHANGED <<accrual, link>>
    /\ paid' = IF to = "COMPLETED"
               THEN [a \in Accruals |-> IF link[a] = q THEN paid[a] + 1 ELSE paid[a]]
               ELSE paid

\* A decision either changes nothing but its request or moves a payout from the one
\* status its target may be reached from.
LEMMA PayoutTransitionCases ==
    ASSUME IInv, NEW w \in Workers, PayoutTransition(w)
    PROVE  /\ UNCHANGED <<invoice, reversals>>
           /\ End(w)
           /\ \/ UNCHANGED <<accrual, link, payout, paid>>
              \/ \E q \in Payouts, to \in {"APPROVED", "COMPLETED", "REJECTED"} :
                     /\ payout[q] # None
                     /\ to = "APPROVED" => payout[q].status = "PENDING"
                     /\ to = "COMPLETED" => payout[q].status = "APPROVED"
                     /\ to = "REJECTED" => payout[q].status \in {"PENDING", "APPROVED"}
                     /\ to # "REJECTED" => \E a \in Accruals : link[a] = q
                     /\ Decided(q, to)
<1> DEFINE q == job[w].payout
           to == job[w].to
<1>1. /\ q \in Payouts /\ payout[q] # None
      /\ \/ to = "APPROVED" /\ job[w].from = "PENDING"
         \/ to = "COMPLETED" /\ job[w].from = "APPROVED"
         \/ to = "REJECTED" /\ job[w].from \in {"PENDING", "APPROVED"}
  BY DEF IInv, JobsOK, JobOK, PayoutTransition, Is
<1>2. CASE payout[q].status = job[w].from /\ (to = "REJECTED" \/ \E a \in Accruals : link[a] = q)
  <2>1. \A a \in Accruals : a \in { b \in Accruals : link[b] = q } <=> link[a] = q
    OBVIOUS
  <2>2. Decided(q, to)
    BY <1>2, <2>1 DEF PayoutTransition, Decided
  <2> QED
    BY <1>1, <1>2, <2>2 DEF PayoutTransition
<1>3. CASE ~(payout[q].status = job[w].from /\ (to = "REJECTED" \/ \E a \in Accruals : link[a] = q))
  <2>1. UNCHANGED <<accrual, link, payout, paid>>
    BY <1>3 DEF PayoutTransition
  <2> QED
    BY <2>1 DEF PayoutTransition
<1> QED
  BY <1>2, <1>3

\* A decision preserves the invariant.
LEMMA PayoutTransitionIInv ==
    ASSUME IInv, NEW w \in Workers, PayoutTransition(w) PROVE IInv'
<1>1. UNCHANGED <<invoice, reversals>> /\ End(w)
  BY PayoutTransitionCases
<1>2. CASE UNCHANGED <<accrual, link, payout, paid>>
  <2>1. JobsOK'
    BY <1>1, <1>2, EndJob DEF IInv
  <2>2. StatusTypeOK' /\ ClaimInv'
    BY <1>1, <1>2, InvoiceSide DEF IInv, StatusTypeOK
  <2> QED
    BY <2>1, <2>2 DEF IInv
<1>3. ASSUME NEW q \in Payouts, NEW to \in {"APPROVED", "COMPLETED", "REJECTED"},
             payout[q] # None,
             payout[q].status \in {"PENDING", "APPROVED"},
             Decided(q, to)
      PROVE  IInv'
  <2>1. payout[q] \in Payout
    BY <1>3 DEF IInv, StatusTypeOK
  <2>2. /\ payout'[q] \in Payout /\ payout'[q] # None
        /\ payout'[q].status = to /\ payout'[q].amount = payout[q].amount
    BY <1>3, <2>1 DEF Decided, Payout, PayoutStatus, IInv, StatusTypeOK
  <2>3. \A r \in Payouts : r # q => payout'[r] = payout[r]
    BY <1>3 DEF Decided, IInv, StatusTypeOK
  <2>4. JobsOK'
    BY <1>1, <2>2, <2>3, EndJob DEF IInv
  <2>5. payout' \in [Payouts -> Payout \cup {None}]
    BY <1>3, <2>2 DEF Decided, IInv, StatusTypeOK
  <2>6. CASE to = "REJECTED"
    <3>1. /\ accrual' = [a \in Accruals |->
                 IF a \in Release(q) THEN "WITHDRAWABLE" ELSE accrual[a]]
          /\ link' = [a \in Accruals |-> IF a \in Release(q) THEN None ELSE link[a]]
          /\ paid' = paid
      BY <1>3, <2>6 DEF Decided
    <3>2. \A a \in Accruals : a \in Release(q) <=> link[a] = q /\ accrual[a] = "WITHDRAWN"
      BY DEF Release
    <3>3. StatusTypeOK'
      BY <1>1, <2>5, <3>1 DEF IInv, StatusTypeOK, LedgerStatus
    <3>4. ClaimsHaveTheirPayout'
      BY <2>2, <2>3, <3>1, <3>2, <2>6
      DEF IInv, ClaimInv, StatusTypeOK, ClaimsHaveTheirPayout, Live
    <3>5. PaidByItsPayout'
      BY <1>3, <2>2, <2>3, <3>1, <3>2, <2>6 DEF IInv, ClaimInv, StatusTypeOK, PaidByItsPayout
    <3>6. ASSUME NEW r \in Payouts, Live(r)'
          PROVE  payout'[r].amount
                     = Commission * Cardinality({ a \in Accruals : link'[a] = r })
      <4>1. r # q
        BY <3>6, <2>2, <2>6 DEF Live
      <4>2. { a \in Accruals : link'[a] = r } = { a \in Accruals : link[a] = r }
        BY <3>1, <3>2, <4>1 DEF IInv, StatusTypeOK
      <4>3. Live(r)
        BY <3>6, <4>1, <2>3 DEF Live
      <4> QED
        BY <4>1, <4>2, <4>3, <2>3 DEF IInv, ClaimInv, PayoutIsWorthItsRows
    <3> QED
      BY <2>4, <3>3, <3>4, <3>5, <3>6 DEF IInv, ClaimInv, PayoutIsWorthItsRows
  <2>7. CASE to # "REJECTED"
    <3>1. UNCHANGED <<accrual, link>>
      BY <1>3, <2>7 DEF Decided
    <3>2. \A r \in Payouts : payout[r] # None => (Live(r)' <=> Live(r))
      BY <1>3, <2>2, <2>3, <2>7 DEF Live
    <3>3. \A r \in Payouts : payout[r] = None => payout'[r] = None
      BY <1>3, <2>3
    <3>4. \A a \in Accruals : paid'[a] = IF link[a] = q /\ to = "COMPLETED"
                                         THEN paid[a] + 1 ELSE paid[a]
      BY <1>3 DEF Decided, IInv, StatusTypeOK
    <3>5. StatusTypeOK'
      BY <1>1, <1>3, <2>5, <3>1 DEF IInv, StatusTypeOK, Decided
    <3>6. ClaimsHaveTheirPayout'
      BY <3>1, <3>2 DEF IInv, ClaimInv, StatusTypeOK, ClaimsHaveTheirPayout, Live
    <3>7. PaidByItsPayout'
      BY <1>3, <2>2, <2>3, <3>1, <3>4 DEF IInv, ClaimInv, StatusTypeOK, PaidByItsPayout
    <3>8. PayoutIsWorthItsRows'
      BY <2>2, <2>3, <3>1, <3>2, <3>3 DEF IInv, ClaimInv, PayoutIsWorthItsRows, Live
    <3> QED
      BY <2>4, <3>5, <3>6, <3>7, <3>8 DEF IInv, ClaimInv
  <2> QED
    BY <2>6, <2>7
<1> QED
  BY <1>2, <1>3, PayoutTransitionCases

\* Every step preserves the inductive invariant.
LEMMA NextIInv == IInv /\ [Next]_vars => IInv'
<1> SUFFICES ASSUME IInv, [Next]_vars PROVE IInv'
  OBVIOUS
<1>1. ASSUME NEW w \in Workers, InvoiceStep(w) PROVE IInv'
  BY <1>1, DistributeIInv, MarkAsPayableIInv, ReverseCommitIInv, ReadIInv
  DEF InvoiceStep, TransitionRead, CreditNoteRead, VoidLoad, CreditNoteLoad
<1>2. ASSUME NEW w \in Workers, PayoutStep(w) PROVE IInv'
  BY <1>2, PayoutClaimIInv, PayoutTransitionIInv, ReadIInv
  DEF PayoutStep, PayoutCheck, PayoutReadNet, PayoutDecide
<1>3. ASSUME NEW w \in Workers, Abort(w) PROVE IInv'
  BY <1>3, ReadIInv DEF Abort
<1>4. CASE UNCHANGED vars
  BY <1>4 DEF vars, IInv, StatusTypeOK, ClaimInv, ClaimsHaveTheirPayout, PayoutIsWorthItsRows,
             PaidByItsPayout, JobsOK, JobOK, Live
<1> QED
  BY <1>1, <1>2, <1>3, <1>4, MaturityIInv DEF Next

\* The invariant holds in every state.
LEMMA Invariance == Spec => []IInv
BY InitIInv, NextIInv, PTL DEF Spec

-----------------------------------------------------------------------------
(* Results *)

\* Invoices, commissions, links and payouts keep their types in every run.
THEOREM StatusTypes == Spec => []StatusTypeOK
<1>1. IInv => StatusTypeOK
  BY DEF IInv
<1> QED
  BY <1>1, Invariance, PTL

\* A commission is in at most one completed payout, whatever admins, partners and
\* reversals do at the same time.
THEOREM CommissionsPaidOnce == Spec => []PaidOnce
<1>1. IInv => PaidOnce
  BY DEF IInv, StatusTypeOK, ClaimInv, PaidByItsPayout, PaidOnce
<1> QED
  BY <1>1, Invariance, PTL

\* A claimed commission is in an open or completed payout, an unclaimed one in none.
THEOREM ClaimsKeepTheirPayout == Spec => []ClaimsHaveTheirPayout
<1>1. IInv => ClaimsHaveTheirPayout
  BY DEF IInv, ClaimInv
<1> QED
  BY <1>1, Invariance, PTL

\* A payout that is open or completed is worth exactly its rows.
THEOREM PayoutsAreWorthTheirRows == Spec => []PayoutIsWorthItsRows
<1>1. IInv => PayoutIsWorthItsRows
  BY DEF IInv, ClaimInv
<1> QED
  BY <1>1, Invariance, PTL

\* A claim that commits is a request of the contract.
LEMMA ClaimRequests ==
    ASSUME IInv, NEW w \in Workers, NEW q \in Payouts, PayoutClaim(w, q)
    PROVE  [Contract!Next]_(Contract!vars)
<1> DEFINE rows == Claimable(job[w].partner)
           new == [partner |-> job[w].partner, amount |-> Commission * Cardinality(rows),
                   status |-> "PENDING"]
<1>1. CASE UNCHANGED <<accrual, link, payout>>
  BY <1>1 DEF Contract!vars, StatusOf
<1>2. CASE ~UNCHANGED <<accrual, link, payout>>
  <2>1. /\ payout[q] = None /\ rows # {}
        /\ link' = [a \in Accruals |-> IF a \in rows THEN q ELSE link[a]]
        /\ payout' = [payout EXCEPT ![q] = new]
    BY <1>2 DEF PayoutClaim
  <2>2. rows \in SUBSET { a \in Accruals : link[a] = None }
    BY DEF Claimable, IInv, ClaimInv, ClaimsHaveTheirPayout
  <2>3. new.status = "PENDING"
    OBVIOUS
  <2> HIDE DEF rows, new
  <2>4. new # None
    <3>1. PICK a \in rows : a \in Accruals
      BY <2>1, <2>2
    <3>2. link'[a] # None /\ payout'[link'[a]] # None
      BY <2>1, <3>1, PayoutClaimIInv, NoneAssumption DEF IInv, ClaimInv, PaidByItsPayout
    <3> QED
      BY <2>1, <3>1, <3>2 DEF IInv, StatusTypeOK
  <2>5. StatusOf' = [StatusOf EXCEPT ![q] = "PENDING"]
    BY <2>1, <2>3, <2>4 DEF StatusOf, IInv, StatusTypeOK
  <2>6. StatusOf[q] = "NONE"
    BY <2>1 DEF StatusOf
  <2>7. Contract!Request(q)
    BY <2>1, <2>2, <2>5, <2>6 DEF Contract!Request
  <2> QED
    BY <2>7 DEF Contract!Next
<1> QED
  BY <1>1, <1>2

\* A decision that commits approves, completes or refuses a payout of the contract.
LEMMA DecisionSettles ==
    ASSUME IInv, NEW w \in Workers, PayoutTransition(w)
    PROVE  [Contract!Next]_(Contract!vars)
<1>1. CASE UNCHANGED <<accrual, link, payout, paid>>
  BY <1>1 DEF Contract!vars, StatusOf
<1>2. ASSUME NEW q \in Payouts, NEW to \in {"APPROVED", "COMPLETED", "REJECTED"},
             payout[q] # None,
             to = "APPROVED" => payout[q].status = "PENDING",
             to = "COMPLETED" => payout[q].status = "APPROVED",
             to = "REJECTED" => payout[q].status \in {"PENDING", "APPROVED"},
             to # "REJECTED" => \E a \in Accruals : link[a] = q,
             Decided(q, to)
      PROVE  Contract!Next
  <2>1. payout[q] \in Payout
    BY <1>2 DEF IInv, StatusTypeOK
  <2>2. /\ payout'[q].status = to /\ payout'[q] # None
        /\ \A r \in Payouts : r # q => payout'[r] = payout[r]
    BY <1>2, <2>1 DEF Decided, Payout, PayoutStatus, IInv, StatusTypeOK
  <2>3. StatusOf' = [StatusOf EXCEPT ![q] = to] /\ StatusOf[q] = payout[q].status
    BY <1>2, <2>2 DEF StatusOf
  <2>4. CASE to = "APPROVED"
    BY <1>2, <2>3, <2>4 DEF Decided, Contract!Approve, Contract!Next
  <2>5. CASE to = "COMPLETED"
    <3>1. Contract!In(q) # {}
      BY <1>2, <2>5 DEF Contract!In
    <3> QED
      BY <1>2, <2>3, <2>5, <3>1 DEF Decided, Contract!Complete, Contract!Next
  <2>6. CASE to = "REJECTED"
    <3>1. Release(q) \in SUBSET Contract!In(q)
      BY DEF Release, Contract!In
    <3>2. Contract!Refuse(q)
      BY <1>2, <2>3, <2>6, <3>1 DEF Decided, Contract!Refuse
    <3> QED
      BY <3>2 DEF Contract!Next
  <2> QED
    BY <2>4, <2>5, <2>6
<1> QED
  BY <1>1, <1>2, PayoutTransitionCases

\* Every behaviour of the ledger, with any number of requests served at once, is a
\* behaviour of the payout contract.
THEOREM LedgerImplementsContract == Spec => ImplementsContract
<1>1. Init => Contract!Init
  BY DEF Init, Contract!Init, StatusOf
<1>2. IInv /\ [Next]_vars => [Contract!Next]_(Contract!vars)
  <2> SUFFICES ASSUME IInv, [Next]_vars PROVE [Contract!Next]_(Contract!vars)
    OBVIOUS
  <2>1. CASE UNCHANGED <<link, payout>>
    BY <2>1 DEF Contract!vars, StatusOf
  <2>2. ASSUME NEW w \in Workers, InvoiceStep(w) PROVE UNCHANGED <<link, payout>>
    BY <2>2 DEF InvoiceStep, TransitionRead, CreditNoteRead, Distribute, MarkAsPayable,
                VoidLoad, CreditNoteLoad, ReverseCommit
  <2>3. ASSUME NEW w \in Workers, PayoutStep(w) PROVE [Contract!Next]_(Contract!vars)
    <3>1. CASE \/ \E p \in Partners : PayoutCheck(w, p)
               \/ PayoutReadNet(w)
               \/ \E q \in Payouts, to \in PayoutStatus \ {"PENDING"} : PayoutDecide(w, q, to)
      <4>1. UNCHANGED <<link, payout>>
        BY <3>1 DEF PayoutCheck, PayoutReadNet, PayoutDecide
      <4> QED
        BY <4>1, <2>1
    <3> QED
      BY <2>3, <3>1, ClaimRequests, DecisionSettles DEF PayoutStep
  <2>4. ASSUME NEW w \in Workers, Abort(w) PROVE UNCHANGED <<link, payout>>
    BY <2>4 DEF Abort
  <2>5. ASSUME NEW due, ProcessMaturedCommissions(due) PROVE UNCHANGED <<link, payout>>
    BY <2>5 DEF ProcessMaturedCommissions
  <2>6. CASE UNCHANGED vars
    BY <2>1, <2>6 DEF vars
  <2> QED
    BY <2>1, <2>2, <2>3, <2>4, <2>5, <2>6 DEF Next
<1> QED
  BY Invariance, <1>1, <1>2, PTL DEF Spec, ImplementsContract, Contract!Spec

-----------------------------------------------------------------------------
(* Reversals: what a void takes, and which of them are flagged *)

\* What a reversal amounts to, to be summed over reversals.
AmountOf == [r \in Reversal |-> r.amount]

\* The net as the invariant writes it.
NetOf(a) == IF accrual[a] = "NONE" THEN 0 ELSE Commission - SumOf(AmountOf, reversals[a])

\* What was read of a row still says whether it exists, is unpayable or is reversed.
Sound(read, now) ==
    /\ read = "NONE" <=> now = "NONE"
    /\ read = "EARNED" => now = "EARNED"
    /\ read = "REVERSED" => now = "REVERSED"

\* An invoice is held by one reversal, and what that loaded of its rows is sound.
LockInv ==
    \A w \in Workers : Is(w, "reverse") =>
        /\ \A v \in Workers : Is(v, "reverse") /\ job[v].invoice = job[w].invoice => v = w
        /\ \A a \in AccrualsOf(job[w].invoice) : Sound(job[w].read[a], accrual[a])

\* A void that is not flagged for clawback came after a credit note, or reversed a row
\* that was in no payout and never will be.
UnflaggedIsUnpaid(a) ==
    (\E r \in reversals[a] : r.key = Void /\ ~r.needsClawback) =>
        \/ \E r \in reversals[a] : r.key # Void
        \/ accrual[a] = "REVERSED" /\ link[a] = None

ReversalInv ==
    \A a \in Accruals :
        /\ IsFiniteSet(reversals[a])
        /\ accrual[a] = "REVERSED" => reversals[a] # {}
        /\ invoice[a[1]] = "VOID" => NetOf(a) <= 0
        /\ UnflaggedIsUnpaid(a)

RInv == TypeOK /\ LockInv /\ ReversalInv

\* An accrual is of an invoice.
LEMMA AccrualsInvoice == \A a \in Accruals : a[1] \in Invoices
BY DEF Accruals

\* The sums as the model writes them are the sums of the lemmas.
LEMMA ReversalSums ==
    ASSUME NEW S, S \subseteq Reversal
    PROVE  MapThenSumSet(LAMBDA r : r.amount, S) = SumOf(AmountOf, S)
BY SumOfAmounts DEF AmountOf

\* Finitely many reversals take a natural amount.
LEMMA ReversalSumNat ==
    ASSUME NEW S, S \subseteq Reversal, IsFiniteSet(S)
    PROVE  SumOf(AmountOf, S) \in Nat
<1>1. NatOn(AmountOf, S)
  BY DEF NatOn, AmountOf, Reversal
<1> QED
  BY <1>1, SumNat

\* The net of a row, and what a reversal would take of it, are at most the commission.
LEMMA NetBounds ==
    ASSUME TypeOK, ReversalInv, NEW a \in Accruals
    PROVE  /\ Net(a) = NetOf(a) /\ Net(a) \in Int /\ Net(a) <= Commission
           /\ ToReverse(a, Void) = Net(a)
           /\ \A key \in CreditAmounts :
                  ToReverse(a, key) \in Int /\ ToReverse(a, key) <= Commission
<1>1. reversals[a] \subseteq Reversal /\ IsFiniteSet(reversals[a])
  BY DEF TypeOK, ReversalInv
<1>2. Reversed(a) = SumOf(AmountOf, reversals[a]) /\ Reversed(a) \in Nat
  BY <1>1, ReversalSums, ReversalSumNat DEF Reversed
<1>3. Net(a) = NetOf(a) /\ Net(a) \in Int /\ Net(a) <= Commission
  BY <1>2 DEF Net, NetOf
<1> DEFINE C == { r \in reversals[a] : r.key # Void }
<1>4. C \subseteq Reversal /\ IsFiniteSet(C)
  BY <1>1, FS_Subset
<1>5. SumOf(AmountOf, C) \in Nat
  BY <1>4, ReversalSumNat
<1>6. MapThenSumSet(LAMBDA r : r.amount, C) = SumOf(AmountOf, C)
  BY <1>4, ReversalSums
<1>7. ASSUME NEW key \in CreditAmounts
      PROVE  ToReverse(a, key) \in Int /\ ToReverse(a, key) <= Commission
  <2>1. key \in 1..Commission /\ key # Void
    BY CreditAssumption DEF Void
  <2>2. ToReverse(a, key) = key - SumOf(AmountOf, C)
    BY <1>6, <2>1 DEF ToReverse
  <2> QED
    BY <1>5, <2>1, <2>2
<1> QED
  BY <1>3, <1>7 DEF ToReverse

\* What a reversal adds to a row.
LEMMA NewReversals ==
    ASSUME TypeOK, ReversalInv, NEW a \in Accruals, NEW key \in {Void} \cup CreditAmounts,
           NEW read \in LedgerStatus \cup {"NONE"}, NewReversal(a, key, read) # {}
    PROVE  \E r \in Reversal :
               /\ NewReversal(a, key, read) = {r}
               /\ r.key = key /\ r.needsClawback = NeedsClawback(read)
               /\ r.amount = ToReverse(a, key)
               /\ read # "NONE"
<1> DEFINE r == [key |-> key, amount |-> ToReverse(a, key),
                 needsClawback |-> NeedsClawback(read)]
<1>1. read # "NONE" /\ ~(ToReverse(a, key) <= 0) /\ NewReversal(a, key, read) = {r}
  BY DEF NewReversal
<1>2. ToReverse(a, key) \in 1..Commission
  <2>1. ToReverse(a, key) \in Int /\ ToReverse(a, key) <= Commission
    BY NetBounds
  <2> QED
    BY <1>1, <2>1
<1>3. NeedsClawback(read) \in BOOLEAN
  BY DEF NeedsClawback
<1>4. r \in Reversal
  BY <1>2, <1>3 DEF Reversal
<1> QED
  BY <1>1, <1>4

\* A row keeps what a reversal may have loaded of it, and what that was.
LEMMA SoundTwice == \A x, y, z : Sound(x, y) /\ Sound(y, z) => Sound(x, z)
BY DEF Sound

\* A step without new reversals that reverses no row, voids no invoice and creates no
\* row under a reversal keeps the invariant.
LEMMA QuietStep ==
    ASSUME TypeOK, LockInv, ReversalInv, reversals' = reversals,
           \A v \in Workers : Is(v, "reverse")' => Is(v, "reverse") /\ job'[v] = job[v],
           \A a \in Accruals :
               /\ accrual'[a] = "REVERSED" <=> accrual[a] = "REVERSED"
               /\ accrual[a] = "REVERSED" /\ link[a] = None => link'[a] = None
               /\ invoice'[a[1]] = "VOID" => /\ invoice[a[1]] = "VOID"
                                             /\ accrual[a] = "NONE" <=> accrual'[a] = "NONE"
               /\ Sound(accrual[a], accrual'[a]) \/ ~Locked(a[1])
    PROVE  LockInv' /\ ReversalInv'
<1>1. LockInv'
  <2> SUFFICES ASSUME NEW w \in Workers, Is(w, "reverse")'
               PROVE  /\ \A v \in Workers :
                            Is(v, "reverse")' /\ job'[v].invoice = job'[w].invoice => v = w
                      /\ \A a \in AccrualsOf(job'[w].invoice) :
                            Sound(job'[w].read[a], accrual'[a])
    BY DEF LockInv, AccrualsOf
  <2>1. Is(w, "reverse") /\ job'[w] = job[w]
    OBVIOUS
  <2>2. \A v \in Workers :
            Is(v, "reverse")' /\ job'[v].invoice = job'[w].invoice => v = w
    BY <2>1 DEF LockInv
  <2>3. ASSUME NEW a \in AccrualsOf(job'[w].invoice)
        PROVE  Sound(job'[w].read[a], accrual'[a])
    <3>1. a \in Accruals /\ a[1] = job[w].invoice
      BY <2>1 DEF AccrualsOf
    <3>2. Locked(a[1]) /\ Sound(job[w].read[a], accrual[a])
      BY <2>1, <3>1 DEF LockInv, Locked, AccrualsOf
    <3>3. Sound(accrual[a], accrual'[a])
      BY <3>1, <3>2
    <3> QED
      BY <2>1, <3>2, <3>3, SoundTwice
  <2> QED
    BY <2>2, <2>3
<1>2. ReversalInv'
  <2> SUFFICES ASSUME NEW a \in Accruals
               PROVE  /\ IsFiniteSet(reversals'[a])
                      /\ accrual'[a] = "REVERSED" => reversals'[a] # {}
                      /\ invoice'[a[1]] = "VOID" => NetOf(a)' <= 0
                      /\ UnflaggedIsUnpaid(a)'
    BY DEF ReversalInv
  <2>1. IsFiniteSet(reversals'[a]) /\ (accrual'[a] = "REVERSED" => reversals'[a] # {})
    BY DEF ReversalInv
  <2>2. invoice'[a[1]] = "VOID" => NetOf(a)' = NetOf(a) /\ NetOf(a) <= 0
    BY DEF ReversalInv, NetOf
  <2>3. UnflaggedIsUnpaid(a)'
    BY DEF ReversalInv, UnflaggedIsUnpaid
  <2> QED
    BY <2>1, <2>2, <2>3
<1> QED
  BY <1>1, <1>2

\* A reversal that loads the rows of an invoice nobody holds keeps the invariant.
LEMMA LoadStep ==
    ASSUME TypeOK, LockInv, ReversalInv,
           UNCHANGED <<invoice, accrual, reversals, link>>,
           NEW w \in Workers, NEW i, NEW key, ~Locked(i),
           job' = [job EXCEPT ![w] = [kind |-> "reverse", invoice |-> i, key |-> key,
                                      read |-> accrual]]
    PROVE  LockInv' /\ ReversalInv'
<1> DEFINE new == [kind |-> "reverse", invoice |-> i, key |-> key, read |-> accrual]
<1>1. /\ new.kind = "reverse" /\ new.invoice = i /\ new.read = accrual
      /\ job'[w] = new
      /\ \A v \in Workers : v # w => job'[v] = job[v]
  BY DEF TypeOK
<1> HIDE DEF new
<1>2. \A v \in Workers : v # w /\ Is(v, "reverse") => job[v].invoice # i
  BY DEF Locked
<1>3. LockInv'
  <2> SUFFICES ASSUME NEW v \in Workers, Is(v, "reverse")'
               PROVE  /\ \A u \in Workers :
                            Is(u, "reverse")' /\ job'[u].invoice = job'[v].invoice => u = v
                      /\ \A a \in AccrualsOf(job'[v].invoice) :
                            Sound(job'[v].read[a], accrual'[a])
    BY DEF LockInv, AccrualsOf
  <2>1. CASE v = w
    <3>1. \A u \in Workers : Is(u, "reverse")' /\ job'[u].invoice = job'[v].invoice => u = v
      BY <1>1, <1>2, <2>1 DEF Is
    <3>2. \A a \in AccrualsOf(job'[v].invoice) : Sound(job'[v].read[a], accrual'[a])
      BY <1>1, <2>1 DEF Sound
    <3> QED
      BY <3>1, <3>2
  <2>2. CASE v # w
    <3>1. Is(v, "reverse") /\ job'[v] = job[v]
      BY <1>1, <2>2 DEF Is
    <3>2. \A u \in Workers : Is(u, "reverse")' /\ job'[u].invoice = job'[v].invoice => u = v
      BY <1>1, <1>2, <2>2, <3>1 DEF LockInv, Is
    <3>3. \A a \in AccrualsOf(job'[v].invoice) : Sound(job'[v].read[a], accrual'[a])
      BY <3>1 DEF LockInv
    <3> QED
      BY <3>2, <3>3
  <2> QED
    BY <2>1, <2>2
<1>4. ReversalInv'
  BY DEF ReversalInv, NetOf, UnflaggedIsUnpaid
<1> QED
  BY <1>3, <1>4

\* A request's kind says what it is doing.
LEMMA JobKinds ==
    ASSUME TypeOK, NEW w \in Workers, job[w] # None
    PROVE  /\ job[w].kind = "transition" => job[w] \in Transition
           /\ job[w].kind = "creditNote" => job[w] \in CreditNote
           /\ job[w].kind = "reverse" => job[w] \in Reverse
           /\ job[w].kind = "request" => job[w] \in Request
           /\ job[w].kind = "claim" => job[w] \in Claim
           /\ job[w].kind = "decide" => job[w] \in Decide
<1>1. job[w] \in Job
  BY DEF TypeOK
<1> QED
  BY <1>1 DEF Job, Transition, CreditNote, Reverse, Request, Claim, Decide

\* A request that reads keeps the types.
LEMMA TypedJob ==
    ASSUME TypeOK, StatusTypeOK', reversals' = reversals,
           NEW w \in Workers, NEW j \in Job \cup {None}, job' = [job EXCEPT ![w] = j]
    PROVE  TypeOK'
<1>1. job' \in [Workers -> Job \cup {None}]
  BY DEF TypeOK
<1> QED
  BY <1>1 DEF TypeOK

\* So does a request that ends.
LEMMA TypedEnd ==
    ASSUME TypeOK, StatusTypeOK', reversals' = reversals, NEW w \in Workers, End(w)
    PROVE  TypeOK'
BY TypedJob DEF End

\* A step that starts no reversal keeps the locks.
LEMMA NoNewReversal ==
    ASSUME TypeOK, NEW w \in Workers, NEW j, job' = [job EXCEPT ![w] = j],
           j = None \/ j.kind # "reverse"
    PROVE  \A v \in Workers : Is(v, "reverse")' => Is(v, "reverse") /\ job'[v] = job[v]
<1>1. job'[w] = j /\ \A v \in Workers : v # w => job'[v] = job[v]
  BY DEF TypeOK
<1> QED
  BY <1>1 DEF Is

\* A request that only reads, and loads no rows to reverse, keeps the invariant.
LEMMA ReadStep ==
    ASSUME RInv, StatusTypeOK', UNCHANGED <<invoice, accrual, reversals, link>>,
           NEW w \in Workers, NEW j \in Job \cup {None},
           j = None \/ j.kind # "reverse", job' = [job EXCEPT ![w] = j]
    PROVE  RInv'
<1>1. \A v \in Workers : Is(v, "reverse")' => Is(v, "reverse") /\ job'[v] = job[v]
  BY NoNewReversal DEF RInv
<1>2. \A a \in Accruals : Sound(accrual[a], accrual'[a])
  BY DEF Sound
<1>3. TypeOK'
  BY TypedJob DEF RInv
<1>4. LockInv' /\ ReversalInv'
  BY <1>1, <1>2, QuietStep DEF RInv
<1> QED
  BY <1>3, <1>4 DEF RInv

\* The reads, one by one.
LEMMA ReadsR ==
    ASSUME IInv, IInv', RInv, NEW w \in Workers,
           \/ \E i \in Invoices, to \in InvoiceStatus : TransitionRead(w, i, to)
           \/ \E i \in Invoices, c \in CreditAmounts : CreditNoteRead(w, i, c)
           \/ \E p \in Partners : PayoutCheck(w, p)
           \/ PayoutReadNet(w)
           \/ \E q \in Payouts, to \in PayoutStatus \ {"PENDING"} : PayoutDecide(w, q, to)
           \/ Abort(w)
    PROVE  RInv'
<1>0. StatusTypeOK /\ StatusTypeOK'
  BY DEF IInv
<1>1. ASSUME NEW i \in Invoices, NEW to \in InvoiceStatus, TransitionRead(w, i, to) PROVE RInv'
  <2> DEFINE j == [kind |-> "transition", invoice |-> i, from |-> invoice[i], to |-> to]
  <2>1. j \in Job /\ j.kind # "reverse"
    BY <1>0 DEF Job, Transition, StatusTypeOK
  <2> QED
    BY <1>0, <1>1, <2>1, ReadStep DEF TransitionRead, Begin
<1>2. ASSUME NEW i \in Invoices, NEW c \in CreditAmounts, CreditNoteRead(w, i, c) PROVE RInv'
  <2> DEFINE j == [kind |-> "creditNote", invoice |-> i, amount |-> c]
  <2>1. j \in Job /\ j.kind # "reverse"
    BY DEF Job, CreditNote
  <2> QED
    BY <1>0, <1>2, <2>1, ReadStep DEF CreditNoteRead, Begin
<1>3. ASSUME NEW p \in Partners, PayoutCheck(w, p) PROVE RInv'
  <2> DEFINE j == [kind |-> "request", partner |-> p]
  <2>1. j \in Job /\ j.kind # "reverse"
    BY DEF Job, Request
  <2> QED
    BY <1>0, <1>3, <2>1, ReadStep DEF PayoutCheck, Begin
<1>4. ASSUME PayoutReadNet(w) PROVE RInv'
  <2> DEFINE p == job[w].partner
             j == [kind |-> "claim", partner |-> p, net |-> PartnerNet(p)]
  <2>1. p \in Partners
    BY <1>4 DEF IInv, JobsOK, JobOK, PayoutReadNet, Is
  <2>2. PartnerNet(p) \in Int
    <3> DEFINE S == { a \in Accruals : a[2] = p }
               net == [a \in Accruals |-> Net(a)]
    <3>1. IsFiniteSet(S)
      BY AccrualsFinite, FS_Subset
    <3>2. IntOn(net, S)
      BY NetBounds DEF IntOn, RInv
    <3>3. MapThenSumSet(Net, S) = SumOf(net, S)
      BY NetSums
    <3> QED
      BY <3>1, <3>2, <3>3, SumInt DEF PartnerNet
  <2>3. j \in Job /\ j.kind # "reverse"
    <3> HIDE DEF p
    <3> QED
      BY <2>1, <2>2 DEF Job, Claim
  <2>4. CASE job' = [job EXCEPT ![w] = j]
    <3> HIDE DEF j
    <3> QED
      BY <1>0, <1>4, <2>3, <2>4, ReadStep DEF PayoutReadNet
  <2>5. CASE job' = [job EXCEPT ![w] = None]
    BY <1>0, <1>4, <2>5, ReadStep DEF PayoutReadNet
  <2> QED
    BY <1>4, <2>4, <2>5 DEF PayoutReadNet
<1>5. ASSUME NEW q \in Payouts, NEW to \in PayoutStatus \ {"PENDING"}, PayoutDecide(w, q, to)
      PROVE RInv'
  <2> DEFINE j == [kind |-> "decide", payout |-> q,
                   from |-> FromStatus(to, payout[q].status), to |-> to]
  <2>1. payout[q].status \in PayoutStatus
    BY <1>0, <1>5 DEF PayoutDecide, StatusTypeOK, Payout
  <2>2. FromStatus(to, payout[q].status) \in PayoutStatus
    BY <2>1 DEF FromStatus, PayoutStatus
  <2>3. j \in Job /\ j.kind # "reverse"
    BY <2>2 DEF Job, Decide
  <2> QED
    BY <1>0, <1>5, <2>3, ReadStep DEF PayoutDecide, Begin
<1>6. ASSUME Abort(w) PROVE RInv'
  BY <1>0, <1>6, ReadStep DEF Abort, End
<1> QED
  BY <1>1, <1>2, <1>3, <1>4, <1>5, <1>6

\* The loads of a void and of a credit note keep the invariant.
LEMMA LoadsR ==
    ASSUME IInv, IInv', RInv, NEW w \in Workers, VoidLoad(w) \/ CreditNoteLoad(w)
    PROVE  RInv'
<1> DEFINE Key(k) == [kind |-> "reverse", invoice |-> job[w].invoice, key |-> k,
                      read |-> accrual]
<1>1. PICK k \in {Void} \cup CreditAmounts :
          ~Locked(job[w].invoice) /\ job[w].invoice \in Invoices
          /\ job' = [job EXCEPT ![w] = Key(k)]
          /\ UNCHANGED <<invoice, accrual, reversals, link>>
  <2>1. CASE VoidLoad(w)
    BY <2>1 DEF VoidLoad, IInv, JobsOK, JobOK, Is
  <2>2. CASE CreditNoteLoad(w)
    <3>1. job[w] \in CreditNote
      BY <2>2, JobKinds DEF RInv, CreditNoteLoad, Is
    <3>2. job[w].amount \in CreditAmounts /\ job[w].invoice \in Invoices
      BY <3>1 DEF CreditNote
    <3>3. ~Locked(job[w].invoice) /\ job' = [job EXCEPT ![w] = Key(job[w].amount)]
          /\ UNCHANGED <<invoice, accrual, reversals, link>>
      BY <2>2 DEF CreditNoteLoad
    <3> QED
      BY <3>2, <3>3
  <2> QED
    BY <2>1, <2>2
<1>2. LockInv' /\ ReversalInv'
  BY <1>1, LoadStep DEF RInv
<1>3. Key(k) \in Job
  BY <1>1 DEF Job, Reverse, IInv, StatusTypeOK
<1>4. TypeOK'
  <2> HIDE DEF Key
  <2> QED
    BY <1>1, <1>3, TypedJob DEF RInv, IInv
<1> QED
  BY <1>2, <1>4 DEF RInv

\* So do the steps of transitions, maturity and payouts: none of them reverses a row, and
\* those that create rows, or make them payable, wait for the reversal of their invoice.
LEMMA QuietR ==
    ASSUME IInv, IInv', RInv,
           \/ \E w \in Workers : \/ Distribute(w) \/ MarkAsPayable(w)
                                 \/ \E q \in Payouts : PayoutClaim(w, q)
                                 \/ PayoutTransition(w)
           \/ \E due : ProcessMaturedCommissions(due)
    PROVE  RInv'
<1>0. StatusTypeOK /\ StatusTypeOK' /\ TypeOK /\ LockInv /\ ReversalInv
  BY DEF IInv, RInv
<1>1. ASSUME NEW w \in Workers, Distribute(w) PROVE RInv'
  <2> DEFINE i == job[w].invoice
  <2>1. i \in Invoices /\ ~Locked(i) /\ End(w) /\ UNCHANGED <<reversals, link>>
    BY <1>1 DEF Distribute, IInv, JobsOK, JobOK, Is
  <2>2. \A v \in Workers : Is(v, "reverse")' => Is(v, "reverse") /\ job'[v] = job[v]
    BY <1>0, <2>1, NoNewReversal DEF End
  <2>3. ASSUME NEW a \in Accruals
        PROVE  /\ accrual'[a] = "REVERSED" <=> accrual[a] = "REVERSED"
               /\ invoice'[a[1]] = "VOID" => /\ invoice[a[1]] = "VOID"
                                             /\ accrual[a] = "NONE" <=> accrual'[a] = "NONE"
               /\ Sound(accrual[a], accrual'[a]) \/ ~Locked(a[1])
    <3>1. CASE UNCHANGED <<invoice, accrual>>
      BY <3>1 DEF Sound
    <3>2. CASE ~UNCHANGED <<invoice, accrual>>
      <4>1. /\ \A b \in AccrualsOf(i) : accrual[b] = "NONE"
            /\ invoice' = [invoice EXCEPT ![i] = "INVOICED"]
            /\ accrual' = [b \in Accruals |->
                   IF b \in AccrualsOf(i) THEN "EARNED" ELSE accrual[b]]
        BY <1>1, <3>2 DEF Distribute
      <4>2. a \in AccrualsOf(i) <=> a[1] = i
        BY DEF AccrualsOf
      <4>3. invoice'[a[1]] = IF a[1] = i THEN "INVOICED" ELSE invoice[a[1]]
        BY <1>0, <2>1, <4>1, AccrualsInvoice DEF StatusTypeOK
      <4> HIDE DEF i
      <4>4. CASE a[1] = i
        BY <2>1, <4>1, <4>2, <4>3, <4>4
      <4>5. CASE a[1] # i
        BY <4>1, <4>2, <4>3, <4>5 DEF Sound
      <4> QED
        BY <4>4, <4>5
    <3> QED
      BY <3>1, <3>2
  <2>4. LockInv' /\ ReversalInv'
    BY <1>0, <2>1, <2>2, <2>3, QuietStep
  <2> QED
    BY <1>0, <2>1, <2>4, TypedEnd DEF RInv
<1>2. ASSUME NEW w \in Workers, MarkAsPayable(w) PROVE RInv'
  <2> DEFINE i == job[w].invoice
  <2>1. i \in Invoices /\ ~Locked(i) /\ End(w) /\ UNCHANGED <<reversals, link>>
    BY <1>2 DEF MarkAsPayable, IInv, JobsOK, JobOK, Is
  <2>2. \A v \in Workers : Is(v, "reverse")' => Is(v, "reverse") /\ job'[v] = job[v]
    BY <1>0, <2>1, NoNewReversal DEF End
  <2>3. ASSUME NEW a \in Accruals
        PROVE  /\ accrual'[a] = "REVERSED" <=> accrual[a] = "REVERSED"
               /\ invoice'[a[1]] = "VOID" => /\ invoice[a[1]] = "VOID"
                                             /\ accrual[a] = "NONE" <=> accrual'[a] = "NONE"
               /\ Sound(accrual[a], accrual'[a]) \/ ~Locked(a[1])
    <3>1. /\ invoice' = [invoice EXCEPT ![i] = "PAID"]
          /\ accrual'[a] = IF a[1] = i /\ accrual[a] = "EARNED" THEN "PAYABLE" ELSE accrual[a]
      BY <1>2 DEF MarkAsPayable, AccrualsOf
    <3>2. invoice'[a[1]] = IF a[1] = i THEN "PAID" ELSE invoice[a[1]]
      BY <1>0, <2>1, <3>1, AccrualsInvoice DEF StatusTypeOK
    <3> HIDE DEF i
    <3> QED
      BY <2>1, <3>1, <3>2 DEF Sound
  <2>4. LockInv' /\ ReversalInv'
    BY <1>0, <2>1, <2>2, <2>3, QuietStep
  <2> QED
    BY <1>0, <2>1, <2>4, TypedEnd DEF RInv
<1>3. ASSUME NEW w \in Workers, NEW q \in Payouts, PayoutClaim(w, q) PROVE RInv'
  <2>1. End(w) /\ UNCHANGED <<invoice, reversals>>
    BY <1>3 DEF PayoutClaim
  <2>2. \A v \in Workers : Is(v, "reverse")' => Is(v, "reverse") /\ job'[v] = job[v]
    BY <1>0, <2>1, NoNewReversal DEF End
  <2>3. \A a \in Accruals :
            \/ accrual'[a] = accrual[a] /\ link'[a] = link[a]
            \/ accrual[a] = "WITHDRAWABLE" /\ accrual'[a] = "WITHDRAWN"
    BY <1>3 DEF PayoutClaim, Claimable
  <2>4. LockInv' /\ ReversalInv'
    BY <1>0, <2>1, <2>2, <2>3, QuietStep DEF Sound
  <2> QED
    BY <1>0, <2>1, <2>4, TypedEnd DEF RInv
<1>4. ASSUME NEW w \in Workers, PayoutTransition(w) PROVE RInv'
  <2>1. End(w) /\ UNCHANGED <<invoice, reversals>>
    BY <1>4 DEF PayoutTransition
  <2>2. \A v \in Workers : Is(v, "reverse")' => Is(v, "reverse") /\ job'[v] = job[v]
    BY <1>0, <2>1, NoNewReversal DEF End
  <2>3. \A a \in Accruals :
            \/ accrual'[a] = accrual[a] /\ link'[a] = link[a]
            \/ accrual[a] = "WITHDRAWN" /\ accrual'[a] = "WITHDRAWABLE"
    BY <1>4 DEF PayoutTransition, Release
  <2>4. LockInv' /\ ReversalInv'
    BY <1>0, <2>1, <2>2, <2>3, QuietStep DEF Sound
  <2> QED
    BY <1>0, <2>1, <2>4, TypedEnd DEF RInv
<1>5. ASSUME NEW due, ProcessMaturedCommissions(due) PROVE RInv'
  <2>1. UNCHANGED <<invoice, reversals, link, job>>
    BY <1>5 DEF ProcessMaturedCommissions
  <2>2. \A a \in Accruals : \/ accrual'[a] = accrual[a]
                            \/ accrual[a] = "PAYABLE" /\ accrual'[a] = "WITHDRAWABLE"
    BY <1>5 DEF ProcessMaturedCommissions
  <2>3. LockInv' /\ ReversalInv'
    BY <1>0, <2>1, <2>2, QuietStep DEF Sound, Is
  <2> QED
    BY <1>0, <2>1, <2>3 DEF RInv, TypeOK
<1> QED
  BY <1>1, <1>2, <1>3, <1>4, <1>5

\* What a reversal that commits adds to each row.
Added(w, a) ==
    IF a \in AccrualsOf(job[w].invoice)
    THEN NewReversal(a, job[w].key, job[w].read[a]) ELSE {}

\* A row that is not touched by a void of its invoice had nothing left.
LEMMA UntouchedRow ==
    ASSUME RInv, NEW w \in Workers, Is(w, "reverse"), NEW a \in AccrualsOf(job[w].invoice),
           Added(w, a) = {}, job[w].key = Void
    PROVE  NetOf(a) <= 0
<1>1. a \in Accruals /\ Sound(job[w].read[a], accrual[a])
  BY DEF RInv, LockInv, AccrualsOf
<1>2. job[w].read[a] = "NONE" \/ Net(a) <= 0
  BY <1>1, NetBounds DEF RInv, Added, NewReversal
<1>3. Net(a) = NetOf(a)
  BY <1>1, NetBounds DEF RInv
<1> QED
  BY <1>1, <1>2, <1>3 DEF Sound, NetOf

\* A reversal that adds to a row takes from its net, a void all of it.
LEMMA NetTaken ==
    ASSUME RInv, NEW a \in Accruals, accrual[a] # "NONE",
           NEW r \in Reversal, r \notin reversals[a]
    PROVE  /\ IsFiniteSet(reversals[a] \cup {r})
           /\ Commission - SumOf(AmountOf, reversals[a] \cup {r}) \in Int
           /\ Commission - SumOf(AmountOf, reversals[a] \cup {r}) = NetOf(a) - r.amount
           /\ NetOf(a) \in Int /\ r.amount \in Nat
<1>1. reversals[a] \subseteq Reversal /\ IsFiniteSet(reversals[a])
  BY DEF RInv, TypeOK, ReversalInv
<1>2. SumOf(AmountOf, reversals[a]) \in Nat
  BY <1>1, ReversalSumNat
<1>3. AmountOf[r] = r.amount /\ r.amount \in Nat
  BY DEF AmountOf, Reversal
<1>4. IntOn(AmountOf, reversals[a] \cup {r})
  BY <1>1 DEF IntOn, AmountOf, Reversal
<1>5. SumOf(AmountOf, reversals[a] \cup {r}) = r.amount + SumOf(AmountOf, reversals[a])
  BY <1>1, <1>3, <1>4, SumAdd
<1>6. NetOf(a) = Commission - SumOf(AmountOf, reversals[a])
  BY DEF NetOf
<1> QED
  BY <1>1, <1>2, <1>3, <1>5, <1>6, FS_AddElement

\* A reversal that commits keeps the invariant.
LEMMA ReverseCommitR ==
    ASSUME IInv, IInv', RInv, NEW w \in Workers, ReverseCommit(w)
    PROVE  RInv'
<1> DEFINE i == job[w].invoice
           key == job[w].key
           read == job[w].read
<1>0. StatusTypeOK /\ StatusTypeOK' /\ TypeOK /\ LockInv /\ ReversalInv
  BY DEF IInv, RInv
<1>1. Is(w, "reverse") /\ End(w) /\ link' = link
  BY DEF ReverseCommit
<1>2. /\ i \in Invoices /\ key \in {Void} \cup CreditAmounts
      /\ read \in [Accruals -> LedgerStatus \cup {"NONE"}]
  <2>1. job[w] \in Reverse
    BY <1>0, <1>1, JobKinds DEF Is
  <2> QED
    BY <2>1 DEF Reverse
<1>3. \A v \in Workers : Is(v, "reverse")' => Is(v, "reverse") /\ job'[v] = job[v] /\ v # w
  <2>1. \A v \in Workers : Is(v, "reverse")' => Is(v, "reverse") /\ job'[v] = job[v]
    BY <1>0, <1>1, NoNewReversal DEF End
  <2>2. job'[w] = None
    BY <1>0, <1>1 DEF End, TypeOK
  <2> QED
    BY <2>1, <2>2 DEF Is
<1>4. CASE UNCHANGED <<invoice, accrual, reversals>>
  <2>1. \A a \in Accruals : Sound(accrual[a], accrual'[a])
    BY <1>4 DEF Sound
  <2>2. LockInv' /\ ReversalInv'
    BY <1>0, <1>1, <1>3, <1>4, <2>1, QuietStep
  <2> QED
    BY <1>0, <1>1, <1>4, <2>2, TypedEnd DEF RInv
<1>5. CASE ~UNCHANGED <<invoice, accrual, reversals>>
  <2>1. /\ \A a \in Accruals : Added(w, a) # {} => \A r \in reversals[a] : r.key # key
        /\ reversals' = [a \in Accruals |-> reversals[a] \cup Added(w, a)]
        /\ accrual' = [a \in Accruals |->
               IF Added(w, a) # {} /\ read[a] # "WITHDRAWN" THEN "REVERSED" ELSE accrual[a]]
        /\ invoice' = IF key = Void THEN [invoice EXCEPT ![i] = "VOID"] ELSE invoice
    BY <1>5 DEF ReverseCommit, Added
  <2>2. \A a \in Accruals : Added(w, a) # {} =>
            /\ a[1] = i /\ Sound(read[a], accrual[a]) /\ read[a] # "NONE"
            /\ \E r \in Reversal : /\ Added(w, a) = {r}
                                   /\ r.key = key /\ r.needsClawback = NeedsClawback(read[a])
                                   /\ r.amount = ToReverse(a, key)
    <3> SUFFICES ASSUME NEW a \in Accruals, Added(w, a) # {}
                 PROVE  /\ a[1] = i /\ Sound(read[a], accrual[a]) /\ read[a] # "NONE"
                        /\ \E r \in Reversal :
                               /\ Added(w, a) = {r}
                               /\ r.key = key /\ r.needsClawback = NeedsClawback(read[a])
                               /\ r.amount = ToReverse(a, key)
      OBVIOUS
    <3>1. a \in AccrualsOf(i) /\ Added(w, a) = NewReversal(a, key, read[a])
      BY DEF Added
    <3>2. a[1] = i /\ Sound(read[a], accrual[a])
      BY <1>0, <1>1, <3>1 DEF LockInv, AccrualsOf
    <3>3. read[a] \in LedgerStatus \cup {"NONE"}
      BY <1>2
    <3> HIDE DEF key, read, i
    <3> QED
      BY <1>0, <1>2, <3>1, <3>2, <3>3, NewReversals
  <2>3. TypeOK'
    <3>1. \A a \in Accruals : reversals[a] \cup Added(w, a) \subseteq Reversal
      BY <1>0, <2>2 DEF TypeOK
    <3>2. job' \in [Workers -> Job \cup {None}]
      BY <1>0, <1>1 DEF End, TypeOK
    <3> QED
      BY <1>0, <2>1, <3>1, <3>2 DEF TypeOK
  <2>4. LockInv'
    <3> SUFFICES ASSUME NEW v \in Workers, Is(v, "reverse")'
                 PROVE  /\ \A u \in Workers :
                              Is(u, "reverse")' /\ job'[u].invoice = job'[v].invoice => u = v
                        /\ \A a \in AccrualsOf(job'[v].invoice) :
                              Sound(job'[v].read[a], accrual'[a])
      BY DEF LockInv, AccrualsOf
    <3>1. Is(v, "reverse") /\ job'[v] = job[v] /\ job[v].invoice # i
      BY <1>0, <1>1, <1>3 DEF LockInv
    <3>2. \A u \in Workers : Is(u, "reverse")' /\ job'[u].invoice = job'[v].invoice => u = v
      BY <1>0, <1>3, <3>1 DEF LockInv
    <3>3. ASSUME NEW a \in AccrualsOf(job'[v].invoice)
          PROVE  Sound(job'[v].read[a], accrual'[a])
      <4>1. a \in Accruals /\ a[1] # i
        BY <3>1 DEF AccrualsOf
      <4>2. accrual'[a] = accrual[a]
        BY <2>1, <2>2, <4>1
      <4> QED
        BY <1>0, <3>1, <4>2 DEF LockInv
    <3> QED
      BY <3>2, <3>3
  <2>5. ASSUME NEW a \in Accruals
        PROVE  /\ IsFiniteSet(reversals'[a])
               /\ accrual'[a] = "REVERSED" => reversals'[a] # {}
               /\ invoice'[a[1]] = "VOID" => NetOf(a)' <= 0
               /\ UnflaggedIsUnpaid(a)'
    <3>0. a[1] \in Invoices
      BY AccrualsInvoice
    <3>1. CASE Added(w, a) = {}
      <4>1. reversals'[a] = reversals[a] /\ accrual'[a] = accrual[a]
        BY <2>1, <3>1
      <4>2. NetOf(a)' = NetOf(a)
        BY <4>1 DEF NetOf
      <4>3. invoice'[a[1]] = "VOID" => NetOf(a) <= 0
        <5>1. CASE invoice[a[1]] = "VOID"
          BY <1>0, <5>1 DEF ReversalInv
        <5>2. CASE invoice[a[1]] # "VOID" /\ invoice'[a[1]] = "VOID"
          <6>1. key = Void /\ a[1] = i
            BY <1>0, <1>2, <2>1, <3>0, <5>2 DEF StatusTypeOK
          <6> QED
            BY <1>1, <3>1, <6>1, UntouchedRow DEF AccrualsOf
        <5> QED
          BY <5>1, <5>2
      <4>4. UnflaggedIsUnpaid(a)'
        BY <1>0, <1>1, <4>1 DEF ReversalInv, UnflaggedIsUnpaid
      <4> QED
        BY <1>0, <4>1, <4>2, <4>3, <4>4 DEF ReversalInv
    <3>2. CASE Added(w, a) # {}
      <4>1. PICK r \in Reversal :
                /\ Added(w, a) = {r}
                /\ r.key = key /\ r.needsClawback = NeedsClawback(read[a])
                /\ r.amount = ToReverse(a, key)
        BY <2>2, <3>2
      <4>2. /\ Sound(read[a], accrual[a]) /\ read[a] # "NONE" /\ r \notin reversals[a]
            /\ accrual[a] # "NONE"
        BY <2>1, <2>2, <3>2, <4>1 DEF Sound
      <4>3. /\ reversals'[a] = reversals[a] \cup {r}
            /\ accrual'[a] = IF read[a] # "WITHDRAWN" THEN "REVERSED" ELSE accrual[a]
        BY <2>1, <3>2, <4>1
      <4>4. /\ IsFiniteSet(reversals'[a]) /\ accrual'[a] # "NONE"
            /\ NetOf(a)' = NetOf(a) - r.amount
            /\ NetOf(a) \in Int /\ r.amount \in Nat
        BY <4>2, <4>3, NetTaken DEF NetOf
      <4>5. invoice'[a[1]] = "VOID" => NetOf(a)' <= 0
        <5>1. CASE key = Void
          <6>1. r.amount = NetOf(a)
            BY <1>0, <4>1, <5>1, NetBounds
          <6> QED
            BY <4>4, <6>1
        <5>2. CASE key # Void
          <6>1. invoice' = invoice
            BY <2>1, <5>2
          <6> QED
            BY <1>0, <4>4, <6>1 DEF ReversalInv
        <5> QED
          BY <5>1, <5>2
      <4>6. UnflaggedIsUnpaid(a)'
        <5>1. SUFFICES ASSUME \E s \in reversals'[a] : s.key = Void /\ ~s.needsClawback,
                              \A s \in reversals'[a] : s.key = Void
                       PROVE  accrual'[a] = "REVERSED" /\ link'[a] = None
          BY DEF UnflaggedIsUnpaid
        <5>2. key = Void /\ reversals[a] = {}
          BY <2>1, <3>2, <4>1, <4>3, <5>1
        <5>3. ~NeedsClawback(read[a])
          BY <4>1, <4>3, <5>1, <5>2
        <5>4. read[a] \in {"EARNED", "REVERSED"}
          BY <1>2, <4>2, <5>3 DEF NeedsClawback, LedgerStatus
        <5>5. accrual[a] # "REVERSED"
          BY <1>0, <5>2 DEF ReversalInv
        <5>6. accrual[a] = "EARNED"
          BY <4>2, <5>4, <5>5 DEF Sound
        <5>7. link[a] = None
          BY <5>6 DEF IInv, ClaimInv, ClaimsHaveTheirPayout
        <5> QED
          BY <1>1, <4>3, <5>4, <5>7
      <4>7. reversals'[a] # {}
        BY <4>3
      <4> QED
        BY <4>4, <4>5, <4>6, <4>7
    <3> QED
      BY <3>1, <3>2
  <2> QED
    BY <2>3, <2>4, <2>5 DEF RInv, ReversalInv
<1> QED
  BY <1>4, <1>5

\* The invariant holds initially, and every step keeps it.
LEMMA InitRInv == Init => RInv
<1> SUFFICES ASSUME Init PROVE RInv
  OBVIOUS
<1>1. TypeOK
  BY InitIInv DEF Init, TypeOK, IInv
<1>2. LockInv
  BY DEF Init, LockInv, Is
<1>3. ReversalInv
  <2>1. IsFiniteSet({})
    BY FS_EmptySet
  <2> QED
    BY <2>1 DEF Init, ReversalInv, NetOf, UnflaggedIsUnpaid
<1> QED
  BY <1>1, <1>2, <1>3 DEF RInv

\* Every step keeps what is known of the reversals.
LEMMA NextRInv == IInv /\ IInv' /\ RInv /\ [Next]_vars => RInv'
<1> SUFFICES ASSUME IInv, IInv', RInv, [Next]_vars PROVE RInv'
  OBVIOUS
<1>1. ASSUME NEW w \in Workers, InvoiceStep(w) PROVE RInv'
  BY <1>1, ReadsR, LoadsR, QuietR, ReverseCommitR DEF InvoiceStep
<1>2. ASSUME NEW w \in Workers, PayoutStep(w) PROVE RInv'
  BY <1>2, ReadsR, QuietR DEF PayoutStep
<1>3. ASSUME NEW w \in Workers, Abort(w) PROVE RInv'
  BY <1>3, ReadsR
<1>4. CASE UNCHANGED vars
  BY <1>4 DEF vars, RInv, TypeOK, StatusTypeOK, LockInv, Is, Sound, AccrualsOf,
             ReversalInv, NetOf, UnflaggedIsUnpaid
<1> QED
  BY <1>1, <1>2, <1>3, <1>4, QuietR DEF Next

\* What is known of the reversals holds in every state.
LEMMA ReversalInvariance == Spec => []RInv
BY InitRInv, NextRInv, InitIInv, NextIInv, PTL DEF Spec

\* Reversals and requests keep their types as well: no reversal takes more than the
\* commission, whatever other reversals ran first.
THEOREM Types == Spec => []TypeOK
<1>1. RInv => TypeOK
  BY DEF RInv
<1> QED
  BY <1>1, ReversalInvariance, PTL

\* A voided invoice leaves the partners nothing, whatever ran between the two halves of
\* the void, of another transition, of a credit note or of a payout.
THEOREM VoidsLeaveNothing == Spec => []VoidLeavesNothing
<1>1. RInv => VoidLeavesNothing
  BY NetBounds DEF RInv, ReversalInv, VoidLeavesNothing
<1> QED
  BY <1>1, ReversalInvariance, PTL

\* A paid commission that only a void reverses is flagged for clawback, even if it was
\* claimed and paid between the void's load and its commit.
THEOREM PaidVoidsFlagged == Spec => []PaidVoidsAreFlagged
<1>1. IInv /\ RInv => PaidVoidsAreFlagged
  <2> SUFFICES ASSUME IInv, RInv, NEW a \in Accruals, paid[a] > 0,
                      \A r \in reversals[a] : r.key = Void,
                      NEW r \in reversals[a], ~r.needsClawback
               PROVE  FALSE
    BY DEF PaidVoidsAreFlagged
  <2>1. link[a] = None
    BY DEF RInv, ReversalInv, UnflaggedIsUnpaid
  <2>2. paid[a] = 0
    BY <2>1 DEF IInv, ClaimInv, PaidByItsPayout
  <2> QED
    BY <2>2
<1> QED
  BY <1>1, Invariance, ReversalInvariance, PTL
=============================================================================
