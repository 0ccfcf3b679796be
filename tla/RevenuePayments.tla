-------------------------- MODULE RevenuePayments --------------------------
(***************************************************************************)
(* The payment of one issued revenue invoice: from the wallet              *)
(* (payMonthlyRevenueInvoiceFromWallet, billingService.ts), or through the *)
(* gateway (createOrder, verifyPayment of paymentController.ts and         *)
(* settleRevenueInvoiceAfterGateway), beside an admin who voids it or      *)
(* writes a credit note (monthlyRevenueInvoiceLifecycleService.ts).        *)
(*                                                                         *)
(* A wallet payment is one transaction.  It reads the invoice with a plain *)
(* SELECT, debits the wallet - whose row it then holds to the end - and    *)
(* only then does the change of status look at the invoice again.  That    *)
(* change accepts an invoice that is PAID already without an error.        *)
(*                                                                         *)
(* Amounts are integers.  The gateway's rates and fees, the receipt and    *)
(* the commissions (see CommissionLedger) are left out.                    *)
(***************************************************************************)
EXTENDS Integers

CONSTANTS
    Handlers,   \* requests served at the same time
    Orders,     \* gateway orders the customer may open
    Share,      \* commissionAmount of the invoice
    Funds,      \* what the wallet holds
    None

ASSUME AmountsAssumption == Share \in Nat \ {0} /\ Funds \in Nat

VARIABLES
    status,     \* of the MonthlyRevenueInvoice row
    note,       \* its creditNoteAmount
    balance,    \* of the customer's wallet
    order,      \* order[o]: the gateway order, or None
    job,        \* job[h]: what request h has read and not yet acted on, or None
    charges,    \* history: payments that took money
    overlapped  \* history: a payment was begun while another was open

vars == <<status, note, balance, order, job, charges, overlapped>>

Status == {"INVOICED", "PAID", "VOID"}
Order == [amount : 1..Share, state : {"open", "captured", "recorded"}]
Job == [op : {"wallet"}, pc : {"debit", "write"}, amount : 0..Share]
         \cup [op : {"gateway"}, pc : {"write", "record"}, order : Orders]
         \cup [op : {"void"}] \cup [op : {"note"}, amount : 1..Share]

ASSUME NoneAssumption == None \notin Order \cup Job

TypeOK ==
    /\ status \in Status
    /\ note \in 0..Share
    /\ balance \in 0..Funds
    /\ order \in [Orders -> Order \cup {None}]
    /\ job \in [Handlers -> Job \cup {None}]
    /\ charges \in Nat
    /\ overlapped \in BOOLEAN

Init ==
    /\ status = "INVOICED" /\ note = 0
    /\ balance = Funds
    /\ order = [o \in Orders |-> None]
    /\ job = [h \in Handlers |-> None]
    /\ charges = 0 /\ overlapped = FALSE

-----------------------------------------------------------------------------
(* Helpers *)

\* revenueInvoiceCollectibleUsd
Collectible == Share - note

Doing(h, op) == job[h] # None /\ job[h].op = op
At(h, op, pc) == Doing(h, op) /\ job[h].pc = pc
Begin(h, j) == job[h] = None /\ job' = [job EXCEPT ![h] = j]
End(h) == job' = [job EXCEPT ![h] = None]

\* The wallet row is held by a payment that has debited it.
WalletHeld == \E h \in Handlers : At(h, "wallet", "write") /\ job[h].amount > 0

Charge(amount) == charges' = IF amount > 0 THEN charges + 1 ELSE charges

\* A payment under way: a wallet request, or an order nobody has recorded.
PaymentOpen ==
    \/ \E h \in Handlers : Doing(h, "wallet")
    \/ \E o \in Orders : order[o] # None /\ order[o].state # "recorded"
Overlap == overlapped' = (overlapped \/ PaymentOpen)

-----------------------------------------------------------------------------
(* payMonthlyRevenueInvoiceFromWallet *)

\* Deviation, for the mutation of Payable: a PAID invoice is let through.
PayableUnlessVoid == status # "VOID"

\* What both ways of paying ask of the invoice before they begin.
Payable == status = "INVOICED"

WalletRead(h) ==
    /\ Payable
    /\ Begin(h, [op |-> "wallet", pc |-> "debit", amount |-> Collectible])
    /\ Overlap
    /\ UNCHANGED <<status, note, balance, order, charges>>

\* The debit waits for the wallet row; short funds end the request.  Then the invoice is
\* read again: PAID is taken for done and the debit is committed, VOID rolls it back.
WalletDebit(h) ==
    /\ At(h, "wallet", "debit")
    /\ LET amount == job[h].amount
       IN  /\ amount > 0 => ~WalletHeld
           /\ \/ balance < amount /\ End(h) /\ UNCHANGED <<balance, charges>>
              \/ /\ balance >= amount /\ status = "INVOICED"
                 /\ job' = [job EXCEPT ![h].pc = "write"]
                 /\ UNCHANGED <<balance, charges>>
              \/ /\ balance >= amount /\ status = "PAID"
                 /\ End(h)
                 /\ balance' = balance - amount /\ Charge(amount)
              \/ /\ balance >= amount /\ status = "VOID"
                 /\ End(h)
                 /\ UNCHANGED <<balance, charges>>
    /\ UNCHANGED <<status, note, order, overlapped>>

\* The status is written by id; debit and status commit together.
WalletCommit(h) ==
    /\ At(h, "wallet", "write")
    /\ End(h)
    /\ status' = "PAID"
    /\ balance' = balance - job[h].amount /\ Charge(job[h].amount)
    /\ UNCHANGED <<note, order, overlapped>>

-----------------------------------------------------------------------------
(* The gateway *)

\* createOrder, purpose "revenue_invoice": the amount goes into the order.
CreateOrder(o) ==
    /\ order[o] = None
    /\ Payable /\ Collectible > 0
    /\ order' = [order EXCEPT ![o] = [amount |-> Collectible, state |-> "open"]]
    /\ Overlap
    /\ UNCHANGED <<status, note, balance, job, charges>>

\* The customer pays the order, however long ago it was made.
Capture(o) ==
    /\ order[o] # None /\ order[o].state = "open"
    /\ order' = [order EXCEPT ![o].state = "captured"]
    /\ Charge(order[o].amount)
    /\ UNCHANGED <<status, note, balance, job, overlapped>>

\* verifyPayment up to the status settleRevenueInvoiceAfterGateway reads: PAID is taken
\* for done; with VOID the request fails and nothing changes.
VerifyRead(h, o) ==
    /\ order[o] # None /\ order[o].state = "captured"
    /\ \/ status = "INVOICED" /\ Begin(h, [op |-> "gateway", pc |-> "write", order |-> o])
       \/ status = "PAID" /\ Begin(h, [op |-> "gateway", pc |-> "record", order |-> o])
    /\ UNCHANGED <<status, note, balance, order, charges, overlapped>>

\* The status is written by id.
Settle(h) ==
    /\ At(h, "gateway", "write")
    /\ status' = "PAID"
    /\ job' = [job EXCEPT ![h].pc = "record"]
    /\ UNCHANGED <<note, balance, order, charges, overlapped>>

\* The PaymentTransaction row, unique by the payment's id.
Record(h) ==
    /\ At(h, "gateway", "record")
    /\ order' = [order EXCEPT ![job[h].order].state = "recorded"]
    /\ End(h)
    /\ UNCHANGED <<status, note, balance, charges, overlapped>>

-----------------------------------------------------------------------------
(* The admin *)

\* transitionMonthlyRevenueInvoiceStatus to VOID: read, then written by id.
VoidRead(h) ==
    /\ status = "INVOICED"
    /\ Begin(h, [op |-> "void"])
    /\ UNCHANGED <<status, note, balance, order, charges, overlapped>>

VoidWrite(h) ==
    /\ Doing(h, "void")
    /\ status' = "VOID"
    /\ End(h)
    /\ UNCHANGED <<note, balance, order, charges, overlapped>>

\* applyMonthlyRevenueInvoiceCreditNote: the status is tested outside its transaction.
NoteRead(h, amount) ==
    /\ status \in {"INVOICED", "PAID"}
    /\ Begin(h, [op |-> "note", amount |-> amount])
    /\ UNCHANGED <<status, note, balance, order, charges, overlapped>>

NoteWrite(h) ==
    /\ Doing(h, "note")
    /\ note' = job[h].amount
    /\ End(h)
    /\ UNCHANGED <<status, balance, order, charges, overlapped>>

\* The process dies, or a query fails: what was not committed is gone.
Abandon(h) ==
    /\ job[h] # None
    /\ End(h)
    /\ UNCHANGED <<status, note, balance, order, charges, overlapped>>

-----------------------------------------------------------------------------

Next ==
    \/ \E o \in Orders : CreateOrder(o) \/ Capture(o)
    \/ \E h \in Handlers :
          \/ WalletRead(h)
          \/ WalletDebit(h)
          \/ WalletCommit(h)
          \/ \E o \in Orders : VerifyRead(h, o)
          \/ Settle(h)
          \/ Record(h)
          \/ VoidRead(h)
          \/ VoidWrite(h)
          \/ \E amount \in 1..Share : NoteRead(h, amount)
          \/ NoteWrite(h)
          \/ Abandon(h)

Spec == Init /\ [][Next]_vars

-----------------------------------------------------------------------------
(* Properties *)

\* An invoice is charged a second time only if the second payment was begun while the
\* first was open: another wallet request, or an order made and not yet recorded.
ChargedTwiceOnlyIfOverlapping == charges > 1 => overlapped

\* The wallet is debited only by a transaction that leaves the invoice paid.
DebitOnlyWithPaid == [][balance' < balance => status' = "PAID"]_vars

\* What the customer is told: what was paid once is never charged again.
NeverChargedAgain == charges <= 1

=============================================================================
