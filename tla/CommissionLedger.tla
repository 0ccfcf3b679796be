-------------------------- MODULE CommissionLedger --------------------------
(***************************************************************************)
(* Partner commissions of monthly revenue invoices, from the invoice's     *)
(* status to the partner's payout: affiliateCommissionService.ts,          *)
(* monthlyRevenueInvoiceLifecycleService.ts and affiliatePayoutService.ts. *)
(*                                                                         *)
(* Rows.  An accrual is the CommissionLedger row INV:<invoice>:<partner>:  *)
(* EARNED; its reversals are the negative rows that point at it, each with *)
(* a unique key (one for the void, one per credit note amount).  A row's   *)
(* payoutClaimToken and payoutRequestId are set together, so one link      *)
(* stands for both.  Amounts are in units of the partner's rate: an        *)
(* accrual is worth its invoice's commissionAmount.                        *)
(*                                                                         *)
(* Atomicity.  READ COMMITTED, see Wallet.tla.  A job is a request being   *)
(* served; its fields are what it has read and not yet acted on.  A        *)
(* transaction that has updated an invoice holds that row until it ends    *)
(* (Locked), and its writes appear together at its commit.                 *)
(*                                                                         *)
(* Dates are abstracted: which unlock dates have passed when the maturity  *)
(* cron runs, and whether it is the last day of the month, are free.       *)
(* Simulated rows are outside every query here and are left out.           *)
(***************************************************************************)
EXTENDS Integers, FiniteSetsExt

CONSTANTS
    Invoices, Partners, Payouts,
    Workers,       \* requests served at the same time
    Chain,         \* Chain[i]: the partners resolveCommissionChain returns for i
    Commission,    \* commissionAmount of an invoice
    CreditAmounts, \* amounts an admin may enter for a credit note
    None           \* no row, no payout, no job

ASSUME ChainAssumption == Chain \in [Invoices -> SUBSET Partners]
ASSUME CommissionAssumption == Commission \in Nat \ {0}
ASSUME CreditAssumption == CreditAmounts \subseteq 1..Commission
ASSUME FiniteAssumption == IsFiniteSet(Invoices) /\ IsFiniteSet(Partners)

Accruals == UNION { {i} \X Chain[i] : i \in Invoices }

VARIABLES
    invoice,     \* invoice[i]: status of the MonthlyRevenueInvoice
    accrual,     \* accrual[a]: status of the EARNED row, "NONE" before it exists
    reversals,   \* reversals[a]: the negative rows that reverse a
    link,        \* link[a]: the payout request a's row is claimed by, or None
    payout,      \* payout[q]: the PayoutRequest row, or None
    job,         \* job[w]: what worker w is doing
    paid         \* history: paid[a], completed payouts that contained a

vars == <<invoice, accrual, reversals, link, payout, job, paid>>

InvoiceStatus == {"ACCRUED", "INVOICED", "PAID", "VOID"}
LedgerStatus == {"EARNED", "PAYABLE", "WITHDRAWABLE", "WITHDRAWN", "REVERSED"}
PayoutStatus == {"PENDING", "APPROVED", "COMPLETED", "REJECTED"}
Void == 0   \* the key of a void's reversal; a credit note's is its amount
Reversal == [key : {Void} \cup CreditAmounts, amount : 1..Commission,
             needsClawback : BOOLEAN]
Payout == [partner : Partners, amount : Nat, status : PayoutStatus]

Transition == [kind : {"transition"}, invoice : Invoices,
               from : InvoiceStatus, to : InvoiceStatus]
CreditNote == [kind : {"creditNote"}, invoice : Invoices, amount : CreditAmounts]
Reverse == [kind : {"reverse"}, invoice : Invoices, key : {Void} \cup CreditAmounts,
            read : [Accruals -> LedgerStatus \cup {"NONE"}]]
Request == [kind : {"request"}, partner : Partners]
Claim == [kind : {"claim"}, partner : Partners, net : Int]
Decide == [kind : {"decide"}, payout : Payouts,
           from : PayoutStatus, to : PayoutStatus]
Job == Transition \cup CreditNote \cup Reverse \cup Request \cup Claim \cup Decide

ASSUME NoneAssumption == None \notin Job \cup Payout \cup Payouts

StatusTypeOK ==
    /\ invoice \in [Invoices -> InvoiceStatus]
    /\ accrual \in [Accruals -> LedgerStatus \cup {"NONE"}]
    /\ link \in [Accruals -> Payouts \cup {None}]
    /\ payout \in [Payouts -> Payout \cup {None}]
    /\ paid \in [Accruals -> Nat]

TypeOK ==
    /\ StatusTypeOK
    /\ reversals \in [Accruals -> SUBSET Reversal]
    /\ job \in [Workers -> Job \cup {None}]

Init ==
    /\ invoice = [i \in Invoices |-> "ACCRUED"]
    /\ accrual = [a \in Accruals |-> "NONE"]
    /\ reversals = [a \in Accruals |-> {}]
    /\ link = [a \in Accruals |-> None]
    /\ payout = [q \in Payouts |-> None]
    /\ job = [w \in Workers |-> None]
    /\ paid = [a \in Accruals |-> 0]

-----------------------------------------------------------------------------
(* Helpers *)

AccrualsOf(i) == { a \in Accruals : a[1] = i }
Is(w, kind) == job[w] # None /\ job[w].kind = kind
Begin(w, j) == job[w] = None /\ job' = [job EXCEPT ![w] = j]
End(w) == job' = [job EXCEPT ![w] = None]

\* Deviation, for the mutation of Locked: the originals are loaded before the invoice
\* is updated, so nothing is held.
NeverLocked(i) == i \notin Invoices

\* The row lock an invoice update holds until its transaction ends.
Locked(i) == \E w \in Workers : Is(w, "reverse") /\ job[w].invoice = i

\* VALID_TRANSITIONS
ValidTransition(from, to) ==
    \/ from = "ACCRUED"  /\ to \in {"INVOICED", "VOID"}
    \/ from = "INVOICED" /\ to \in {"PAID", "VOID"}

Reversed(a) == MapThenSumSet(LAMBDA r : r.amount, reversals[a])

\* Deviation, for the mutation of Net: reversals are added by their absolute value.
NetUnsigned(a) == IF accrual[a] = "NONE" THEN 0 ELSE Commission + Reversed(a)

\* Signed sum of a's row and its reversals.
Net(a) == IF accrual[a] = "NONE" THEN 0 ELSE Commission - Reversed(a)

\* sumPartnerCommissionNet: every row of the partner counts, whatever its status.
PartnerNet(p) == MapThenSumSet(Net, { a \in Accruals : a[2] = p })

\* What a reversal takes from an accrual: the whole remaining net for a void, the
\* part of a credit note not yet taken by earlier credit notes otherwise.
ToReverse(a, key) ==
    IF key = Void
    THEN Net(a)
    ELSE key - MapThenSumSet(LAMBDA r : r.amount, { r \in reversals[a] : r.key # Void })

-----------------------------------------------------------------------------
(* Invoice status: transitionMonthlyRevenueInvoiceStatus *)

\* The status is read and the transition validated against it.
TransitionRead(w, i, to) ==
    /\ ValidTransition(invoice[i], to)
    /\ Begin(w, [kind |-> "transition", invoice |-> i, from |-> invoice[i], to |-> to])
    /\ UNCHANGED <<invoice, accrual, reversals, link, payout, paid>>

\* ACCRUED -> INVOICED: the status is written by id and one EARNED row inserted per
\* partner; a key that exists already rolls everything back.
Distribute(w) ==
    /\ Is(w, "transition") /\ job[w].to = "INVOICED"
    /\ LET i == job[w].invoice
       IN  /\ ~Locked(i)
           /\ IF \E a \in AccrualsOf(i) : accrual[a] # "NONE"
              THEN UNCHANGED <<invoice, accrual>>
              ELSE /\ invoice' = [invoice EXCEPT ![i] = "INVOICED"]
                   /\ accrual' = [a \in Accruals |->
                          IF a \in AccrualsOf(i) THEN "EARNED" ELSE accrual[a]]
    /\ End(w)
    /\ UNCHANGED <<reversals, link, payout, paid>>

\* INVOICED -> PAID: the status is written by id, the EARNED rows become PAYABLE.
MarkAsPayable(w) ==
    /\ Is(w, "transition") /\ job[w].to = "PAID"
    /\ LET i == job[w].invoice
       IN  /\ ~Locked(i)
           /\ invoice' = [invoice EXCEPT ![i] = "PAID"]
           /\ accrual' = [a \in Accruals |->
                  IF a \in AccrualsOf(i) /\ accrual[a] = "EARNED"
                  THEN "PAYABLE" ELSE accrual[a]]
    /\ End(w)
    /\ UNCHANGED <<reversals, link, payout, paid>>

\* VOID, first part: the invoice is updated and with it locked, and the originals
\* are loaded (loadOriginalInvoiceAccruals).
VoidLoad(w) ==
    /\ Is(w, "transition") /\ job[w].to = "VOID"
    /\ ~Locked(job[w].invoice)
    /\ job' = [job EXCEPT ![w] = [kind |-> "reverse", invoice |-> @.invoice,
                                  key |-> Void, read |-> accrual]]
    /\ UNCHANGED <<invoice, accrual, reversals, link, payout, paid>>

\* A credit note: status and amount are checked before the transaction.
CreditNoteRead(w, i, amount) ==
    /\ invoice[i] \in {"INVOICED", "PAID"}
    /\ Begin(w, [kind |-> "creditNote", invoice |-> i, amount |-> amount])
    /\ UNCHANGED <<invoice, accrual, reversals, link, payout, paid>>

\* The credit note's transaction updates, and so locks, the invoice and loads the
\* originals.
CreditNoteLoad(w) ==
    /\ Is(w, "creditNote")
    /\ ~Locked(job[w].invoice)
    /\ job' = [job EXCEPT ![w] = [kind |-> "reverse", invoice |-> @.invoice,
                                  key |-> @.amount, read |-> accrual]]
    /\ UNCHANGED <<invoice, accrual, reversals, link, payout, paid>>

\* Deviation, for the mutation of NeedsClawback: only what was loaded as already
\* claimed is flagged.
NeedsClawbackIfClaimed(status) == status = "WITHDRAWN"

\* CLAWBACK_COMMISSION_STATUSES
NeedsClawback(status) == status \in {"PAYABLE", "WITHDRAWABLE", "WITHDRAWN"}

\* insertSignedCommissionReversal for one original: the negative row, flagged for
\* clawback from the status that was loaded.
NewReversal(a, key, read) ==
    IF read = "NONE" \/ ToReverse(a, key) <= 0
    THEN {}
    ELSE { [key |-> key, amount |-> ToReverse(a, key),
            needsClawback |-> NeedsClawback(read)] }

\* The reversing transaction commits: the negative rows, and every reversed
\* original that was not loaded as WITHDRAWN set to REVERSED by id.  A key that
\* exists is caught, but the failed INSERT has already aborted the transaction.
ReverseCommit(w) ==
    /\ Is(w, "reverse")
    /\ LET i == job[w].invoice
           key == job[w].key
           new == [a \in Accruals |->
                      IF a \in AccrualsOf(i) THEN NewReversal(a, key, job[w].read[a]) ELSE {}]
       IN  IF \E a \in Accruals : new[a] # {} /\ \E r \in reversals[a] : r.key = key
           THEN UNCHANGED <<invoice, accrual, reversals>>
           ELSE /\ reversals' = [a \in Accruals |-> reversals[a] \cup new[a]]
                /\ accrual' = [a \in Accruals |->
                       IF new[a] # {} /\ job[w].read[a] # "WITHDRAWN"
                       THEN "REVERSED" ELSE accrual[a]]
                /\ invoice' = IF key = Void THEN [invoice EXCEPT ![i] = "VOID"] ELSE invoice
    /\ End(w)
    /\ UNCHANGED <<link, payout, paid>>

\* processMaturedCommissions: PAYABLE rows whose unlock date has passed.
ProcessMaturedCommissions(due) ==
    /\ \E a \in due : accrual[a] = "PAYABLE"
    /\ accrual' = [a \in Accruals |->
           IF a \in due /\ accrual[a] = "PAYABLE" THEN "WITHDRAWABLE" ELSE accrual[a]]
    /\ UNCHANGED <<invoice, reversals, link, payout, job, paid>>

-----------------------------------------------------------------------------
(* Payouts *)

Active(q) == payout[q] # None /\ payout[q].status \in {"PENDING", "APPROVED"}
Pending(p) == \E q \in Payouts :
    payout[q] # None /\ payout[q].partner = p /\ payout[q].status = "PENDING"

\* requestPartnerPayout, before its transaction: no active request may exist.
PayoutCheck(w, p) ==
    /\ ~\E q \in Payouts : Active(q) /\ payout[q].partner = p
    /\ Begin(w, [kind |-> "request", partner |-> p])
    /\ UNCHANGED <<invoice, accrual, reversals, link, payout, paid>>

\* In its transaction, the signed net is read and must be positive.
PayoutReadNet(w) ==
    /\ Is(w, "request")
    /\ LET p == job[w].partner
       IN  job' = [job EXCEPT ![w] =
               IF PartnerNet(p) > 0
               THEN [kind |-> "claim", partner |-> p, net |-> PartnerNet(p)]
               ELSE None]
    /\ UNCHANGED <<invoice, accrual, reversals, link, payout, paid>>

Claimable(p) == { a \in Accruals : a[2] = p /\ accrual[a] = "WITHDRAWABLE" }

\* The partner's WITHDRAWABLE rows are claimed and a PENDING request created for
\* their sum.  Nothing to claim, a sum above the net that was read, or a PENDING
\* request of the partner (partial unique index) rolls the claim back.
PayoutClaim(w, q) ==
    /\ Is(w, "claim")
    /\ payout[q] = None
    /\ LET p == job[w].partner
           rows == Claimable(p)
           amount == Commission * Cardinality(rows)
       IN  IF rows = {} \/ amount > job[w].net \/ Pending(p)
           THEN UNCHANGED <<accrual, link, payout>>
           ELSE /\ accrual' = [a \in Accruals |->
                       IF a \in rows THEN "WITHDRAWN" ELSE accrual[a]]
                /\ link' = [a \in Accruals |-> IF a \in rows THEN q ELSE link[a]]
                /\ payout' = [payout EXCEPT
                       ![q] = [partner |-> p, amount |-> amount, status |-> "PENDING"]]
    /\ End(w)
    /\ UNCHANGED <<invoice, reversals, paid>>

\* Deviation, for the mutation of FromStatus: a refusal expects the status that was
\* read, whatever it is.
FromStatusOfSnapshot(to, snapshot) ==
    CASE to = "APPROVED"  -> "PENDING"
      [] to = "COMPLETED" -> "APPROVED"
      [] OTHER -> snapshot

\* casFromStatusForTransition
FromStatus(to, snapshot) ==
    CASE to = "APPROVED"  -> "PENDING"
      [] to = "COMPLETED" -> "APPROVED"
      [] OTHER -> IF snapshot \in {"PENDING", "APPROVED"} THEN snapshot ELSE "PENDING"

\* transitionPayoutRequest: the snapshot fixes the status the update will expect.
PayoutDecide(w, q, to) ==
    /\ payout[q] # None
    /\ Begin(w, [kind |-> "decide", payout |-> q,
                 from |-> FromStatus(to, payout[q].status), to |-> to])
    /\ UNCHANGED <<invoice, accrual, reversals, link, payout, paid>>

\* Deviations, for the mutation of Release: the rows of a refused payout are left as
\* they are.
ReleaseNothing(q) == IF q \in Payouts THEN {} ELSE Accruals

\* Deviation: every claimed row of the partner is released.
ReleasePartner(q) ==
    { a \in Accruals : a[2] = payout[q].partner /\ accrual[a] = "WITHDRAWN" }

\* releaseClaimedLedgerRows: of the rows the payout is linked to, those still
\* WITHDRAWN.
Release(q) == { a \in Accruals : link[a] = q /\ accrual[a] = "WITHDRAWN" }

\* The compare-and-set, then its consequences for the claimed rows, in one
\* transaction; a request that has moved on is answered 409.
PayoutTransition(w) ==
    /\ Is(w, "decide")
    /\ LET q == job[w].payout
           to == job[w].to
           linked == { a \in Accruals : link[a] = q }
       IN  IF \/ payout[q].status # job[w].from
              \/ to # "REJECTED" /\ linked = {}
           THEN UNCHANGED <<accrual, link, payout, paid>>
           ELSE /\ payout' = [payout EXCEPT ![q] = [@ EXCEPT !.status = to]]
                /\ IF to = "REJECTED"
                   THEN /\ accrual' = [a \in Accruals |->
                               IF a \in Release(q) THEN "WITHDRAWABLE" ELSE accrual[a]]
                        /\ link' = [a \in Accruals |->
                               IF a \in Release(q) THEN None ELSE link[a]]
                   ELSE UNCHANGED <<accrual, link>>
                /\ paid' = IF to = "COMPLETED"
                           THEN [a \in Accruals |->
                                    IF a \in linked THEN paid[a] + 1 ELSE paid[a]]
                           ELSE paid
    /\ End(w)
    /\ UNCHANGED <<invoice, reversals>>

\* A request dies between two statements: its transaction leaves nothing behind.
Abort(w) ==
    /\ job[w] # None
    /\ End(w)
    /\ UNCHANGED <<invoice, accrual, reversals, link, payout, paid>>

-----------------------------------------------------------------------------

InvoiceStep(w) ==
    \/ \E i \in Invoices, to \in InvoiceStatus : TransitionRead(w, i, to)
    \/ \E i \in Invoices, c \in CreditAmounts : CreditNoteRead(w, i, c)
    \/ Distribute(w) \/ MarkAsPayable(w) \/ VoidLoad(w)
    \/ CreditNoteLoad(w) \/ ReverseCommit(w)

PayoutStep(w) ==
    \/ \E p \in Partners : PayoutCheck(w, p)
    \/ PayoutReadNet(w)
    \/ \E q \in Payouts : PayoutClaim(w, q)
    \/ \E q \in Payouts, to \in PayoutStatus \ {"PENDING"} : PayoutDecide(w, q, to)
    \/ PayoutTransition(w)

Next ==
    \/ \E w \in Workers : InvoiceStep(w) \/ PayoutStep(w) \/ Abort(w)
    \/ \E I \in SUBSET Invoices :
           ProcessMaturedCommissions(UNION { AccrualsOf(i) : i \in I })

Spec == Init /\ [][Next]_vars

-----------------------------------------------------------------------------
(* Properties *)

Live(q) == payout[q] # None /\ payout[q].status # "REJECTED"

\* No commission is ever in two completed payouts, whatever admins and partners
\* decide at the same time: a completed or refused payout cannot be moved again,
\* and no row returns to WITHDRAWABLE from a completed one.
PaidOnce == \A a \in Accruals : paid[a] <= 1

\* A WITHDRAWN row is linked to a payout that is open or completed, and an
\* unclaimed row to none: a refusal releases what the claim took, whatever
\* reversals and maturities ran in between.
ClaimsHaveTheirPayout ==
    \A a \in Accruals :
        /\ accrual[a] = "WITHDRAWN" => link[a] # None /\ Live(link[a])
        /\ accrual[a] \in {"NONE", "EARNED", "PAYABLE", "WITHDRAWABLE"} => link[a] = None

\* A payout that is open or completed is worth exactly the rows linked to it: no
\* row leaves it or joins it after its amount was summed.
PayoutIsWorthItsRows ==
    \A q \in Payouts : Live(q) =>
        payout[q].amount = Commission * Cardinality({ a \in Accruals : link[a] = q })

\* A voided invoice leaves the partner nothing, even if the void ran between the
\* two halves of another transition, a credit note or a payout.
VoidLeavesNothing ==
    \A a \in Accruals : invoice[a[1]] = "VOID" => Net(a) <= 0

\* A commission that was paid and is reversed by a void alone is flagged for clawback,
\* even if the void loaded it unclaimed and it was claimed and paid before the void's
\* commit.
PaidVoidsAreFlagged ==
    \A a \in Accruals :
        paid[a] > 0 /\ (\A r \in reversals[a] : r.key = Void)
            => \A r \in reversals[a] : r.needsClawback

\* The commission ledger implements the payout contract: claims are exclusive,
\* payouts are settled once, and a paid commission stays with its payout.
StatusOf == [q \in Payouts |-> IF payout[q] = None THEN "NONE" ELSE payout[q].status]
Contract == INSTANCE PayoutContract WITH
    NoPayout <- None,
    member <- link,
    state <- StatusOf
ImplementsContract == Contract!Spec
=============================================================================
