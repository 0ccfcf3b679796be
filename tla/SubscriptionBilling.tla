------------------------ MODULE SubscriptionBilling ------------------------
(***************************************************************************)
(* The life of a strategy subscription and of its pay-later fee: deploy,   *)
(* pause, resume and cancellation (subscriptionController.ts and           *)
(* subscriptionLifecycleService.ts), connecting and disconnecting the      *)
(* exchange account, the admin's switch, the payment of the fee invoice    *)
(* from the wallet or through the gateway, and the two daily jobs of       *)
(* billingService.ts that mark invoices OVERDUE and hold subscriptions.    *)
(*                                                                         *)
(* A pay-later subscription has one STRATEGY_FEE invoice, whose dueDate is *)
(* its strategyFeeCycleEndsAt: one flag (ended) says that both have        *)
(* passed.  strategyFeeCycleEndsAt is null exactly when the fee is paid.   *)
(* The generation of REVENUE_SHARE invoices is disabled in the source.     *)
(* Whether the wallet can pay is left open: Wallet has the amounts.        *)
(*                                                                         *)
(* Atomicity.  Every await between a read and a write is a step boundary,  *)
(* and the writes are by id: what was read may have changed.  A daily job  *)
(* never overlaps itself (guardedCron), but both start at 00:00 UTC.       *)
(***************************************************************************)
EXTENDS Integers, FiniteSets

CONSTANTS
    Subs, Users,
    Owner,        \* Owner[s]: the user of subscription s
    Workers,      \* requests served at the same time
    MaxCharges,   \* bound: a fee charged so often is not paid again
    MaxRestarts,  \* bound on process restarts
    None          \* no job

ASSUME OwnerAssumption == Owner \in [Subs -> Users]
ASSUME BoundAssumption == MaxCharges \in Nat /\ MaxRestarts \in Nat

VARIABLES
    sub,       \* sub[s]: status, isActive and isStrategyFeePaid of the row
    invoice,   \* invoice[s]: status of the fee invoice, "NONE" without one
    ended,     \* the pay-later subscriptions whose 30 days are over
    checkout,  \* the subscriptions with an unpaid Razorpay order for the invoice
    job,       \* job[w]: the request w serves, and the subscriptions it has left
    cron,      \* cron[c]: the daily jobs
    charges,   \* history: how often s's fee was paid, by wallet or gateway
    raced,     \* history: payments of one fee overlapped, or met a daily job or a restart
    excused,   \* history: reactivated past the invoice check, or forgotten by a restart,
               \* and ACTIVE since
    restarts

vars == <<sub, invoice, ended, checkout, job, cron, charges, raced, excused, restarts>>

Managed == {"ACTIVE", "PAUSED_BY_USER", "PAUSED_DUE_TO_FUNDS"}
Status == Managed \cup {"NONE", "CANCELLED"}
InvoiceStatus == {"NONE", "PENDING", "PAID", "OVERDUE"}
Kinds == {"deploy", "resume", "reread", "activate", "pause", "cancel", "connect",
          "pay", "settle"}

\* clear: history, whether the invoice check of a deployment had nothing to object to.
Jobs == [kind : Kinds, todo : SUBSET Subs, clear : BOOLEAN]

\* past: the 30 days that were over when the fee job started (its "now").
Runs == [stage : {"flip", "hold"}, found : SUBSET Subs, todo : SUBSET Subs, past : SUBSET Subs]
Idle == [stage |-> "idle", found |-> {}, todo |-> {}, past |-> {}]

ASSUME NoneAssumption == None \notin Jobs

TypeOK ==
    /\ sub \in [Subs -> [status : Status, isActive : BOOLEAN, feePaid : BOOLEAN]]
    /\ invoice \in [Subs -> InvoiceStatus]
    /\ ended \subseteq Subs /\ checkout \subseteq Subs
    /\ job \in [Workers -> Jobs \cup {None}]
    /\ cron \in [{"overdue", "fee"} -> Runs \cup {Idle}]
    /\ charges \in [Subs -> Nat]
    /\ raced \subseteq Subs /\ excused \subseteq Subs
    /\ restarts \in 0 .. MaxRestarts

Init ==
    /\ sub = [s \in Subs |-> [status |-> "NONE", isActive |-> FALSE, feePaid |-> FALSE]]
    /\ invoice = [s \in Subs |-> "NONE"]
    /\ ended = {} /\ checkout = {}
    /\ job = [w \in Workers |-> None]
    /\ cron = [c \in {"overdue", "fee"} |-> Idle]
    /\ charges = [s \in Subs |-> 0]
    /\ raced = {} /\ excused = {}
    /\ restarts = 0

-----------------------------------------------------------------------------
(* Helpers *)

Is(w, kind) == job[w] # None /\ job[w].kind = kind
Begin(w, kind, todo) ==
    /\ job[w] = None
    /\ job' = [job EXCEPT ![w] = [kind |-> kind, todo |-> todo, clear |-> TRUE]]
Continue(w, kind) == job' = [job EXCEPT ![w].kind = kind]
End(w) == job' = [job EXCEPT ![w] = None]

\* The request goes on with the subscriptions it has left.
Done(w, s) ==
    job' = [job EXCEPT ![w] =
        IF job[w].todo = {s} THEN None ELSE [job[w] EXCEPT !.todo = @ \ {s}]]

Write(s, status, isActive) ==
    sub' = [sub EXCEPT ![s].status = status, ![s].isActive = isActive]

\* What both daily jobs write.
Hold(s) == [sub[s] EXCEPT !.status = "PAUSED_DUE_TO_FUNDS", !.isActive = FALSE]

HoldIfActive(s) ==
    /\ sub' = [sub EXCEPT ![s] = IF @.status = "ACTIVE" THEN Hold(s) ELSE @]
    /\ excused' = excused \ {s}

\* blockingUnpaidInvoiceWhere: overdue, or not marked so yet.
Blocking(s) == invoice[s] = "OVERDUE" \/ (invoice[s] = "PENDING" /\ s \in ended)

\* Deviation, for the mutation of MayActivate: an invoice marked OVERDUE is not found.
MayActivateWhenOverdue(s) == ~(invoice[s] = "PENDING" /\ s \in ended)

\* The invoice check of deploy and resume.
MayActivate(s) == ~Blocking(s)

BeingPaid(s) ==
    \/ s \in checkout
    \/ \E w \in Workers : (Is(w, "pay") \/ Is(w, "settle")) /\ s \in job[w].todo

\* A daily job has read s and will still write it or its invoice.
SeenByCron(s) == \E c \in {"overdue", "fee"} : s \in cron[c].found

-----------------------------------------------------------------------------
(* The user's requests *)

\* subscribeUserToStrategy and verifyPayment: with nothing to pay, paid through the
\* gateway, or with 30 days to pay.
Subscribe(s, mode) ==
    /\ sub[s].status = "NONE"
    /\ sub' = [sub EXCEPT ![s] =
           [status |-> IF mode = "GATEWAY" THEN "PAUSED_DUE_TO_FUNDS" ELSE "ACTIVE",
            isActive |-> FALSE, feePaid |-> mode # "PAY_LATER"]]
    /\ invoice' = [invoice EXCEPT ![s] = IF mode = "PAY_LATER" THEN "PENDING" ELSE "NONE"]
    /\ UNCHANGED <<ended, checkout, job, cron, charges, raced, excused, restarts>>

\* The 30 days pass.
CycleEnds(s) ==
    /\ invoice[s] # "NONE" /\ s \notin ended
    /\ ended' = ended \cup {s}
    /\ UNCHANGED <<sub, invoice, checkout, job, cron, charges, raced, excused, restarts>>

\* deploy, resume and pause find their row in a status they accept.
BeginChange(w, kind, s) ==
    /\ sub[s].status \in CASE kind = "deploy" -> Managed
                           [] kind = "resume" -> {"PAUSED_BY_USER"}
                           [] kind = "pause" -> {"ACTIVE", "PAUSED_BY_USER"}
    /\ Begin(w, kind, {s})
    /\ UNCHANGED <<sub, invoice, ended, checkout, cron, charges, raced, excused, restarts>>

\* hasUnpaidInvoicesForStrategy, then the update (deploy) or another look (resume).
Check(w, s) ==
    /\ Is(w, "deploy") \/ Is(w, "resume")
    /\ s \in job[w].todo
    /\ IF MayActivate(s)
       THEN job' = [job EXCEPT ![w].kind = IF @ = "deploy" THEN "activate" ELSE "reread",
                               ![w].clear = ~Blocking(s)]
       ELSE End(w)
    /\ UNCHANGED <<sub, invoice, ended, checkout, cron, charges, raced, excused, restarts>>

\* resumeSubscriptionForUser reads the row again before it calls the bot.
Reread(w, s) ==
    /\ Is(w, "reread") /\ s \in job[w].todo
    /\ IF sub[s].status = "PAUSED_BY_USER" THEN Continue(w, "activate") ELSE End(w)
    /\ UNCHANGED <<sub, invoice, ended, checkout, cron, charges, raced, excused, restarts>>

\* The update of deploy and resume, by id.  It is excused when its check was clear.
Activate(w, s) ==
    /\ Is(w, "activate") /\ s \in job[w].todo
    /\ Write(s, "ACTIVE", TRUE)
    /\ excused' = IF job[w].clear /\ Blocking(s) THEN excused \cup {s} ELSE excused
    /\ End(w)
    /\ UNCHANGED <<invoice, ended, checkout, cron, charges, raced, restarts>>

\* pauseSubscriptionForUser, once the bot has answered.
Pause(w, s) ==
    /\ Is(w, "pause") /\ s \in job[w].todo
    /\ Write(s, "PAUSED_BY_USER", FALSE)
    /\ excused' = excused \ {s}
    /\ End(w)
    /\ UNCHANGED <<invoice, ended, checkout, cron, charges, raced, restarts>>

\* unsubscribe of one row, or the rows that use an account being disconnected.
BeginCancel(w, todo) ==
    /\ todo # {}
    /\ \/ \E s \in Subs : todo = {s} /\ sub[s].status \in Managed
       \/ \E u \in Users : \A s \in todo :
              Owner[s] = u /\ sub[s].status \in {"ACTIVE", "PAUSED_DUE_TO_FUNDS"}
    /\ Begin(w, "cancel", todo)
    /\ UNCHANGED <<sub, invoice, ended, checkout, cron, charges, raced, excused, restarts>>

\* schedulePendingFinalInvoice, once the bot has closed the structure.
Cancel(w, s) ==
    /\ Is(w, "cancel") /\ s \in job[w].todo
    /\ Write(s, "CANCELLED", FALSE)
    /\ excused' = excused \ {s}
    /\ Done(w, s)
    /\ UNCHANGED <<invoice, ended, checkout, cron, charges, raced, restarts>>

\* connectExchangeAccountForUser reads every bot subscription of the user.
BeginConnect(w, u) ==
    LET rows == { s \in Subs : Owner[s] = u /\ sub[s].status # "NONE" }
    IN  /\ rows # {}
        /\ Begin(w, "connect", rows)
        /\ UNCHANGED <<sub, invoice, ended, checkout, cron, charges, raced, excused, restarts>>

\* It activates each of them, whatever its status and its invoice.
Connect(w, s) ==
    /\ Is(w, "connect") /\ s \in job[w].todo
    /\ Write(s, "ACTIVE", TRUE)
    /\ excused' = excused \cup {s}
    /\ Done(w, s)
    /\ UNCHANGED <<invoice, ended, checkout, cron, charges, raced, restarts>>

\* The bot refuses or is unreachable: the request ends, what it has written stays.
BotFails(w) ==
    /\ \E kind \in {"activate", "pause", "cancel", "connect"} : Is(w, kind)
    /\ End(w)
    /\ UNCHANGED <<sub, invoice, ended, checkout, cron, charges, raced, excused, restarts>>

\* updateStrategySubscriber: the admin switches copying on, for any status, or off.
AdminSwitch(s, isActive) ==
    /\ sub[s].status # "NONE"
    /\ Write(s, IF isActive THEN "ACTIVE" ELSE sub[s].status, isActive)
    /\ excused' = IF isActive THEN excused \cup {s} ELSE excused
    /\ UNCHANGED <<invoice, ended, checkout, job, cron, charges, raced, restarts>>

-----------------------------------------------------------------------------
(* Payment of the fee *)

\* Deviation, for the mutation of Payable: a paid invoice is not refused.
PayableTwice(s) == invoice[s] # "NONE"

\* Tested by createOrder, payInvoiceFromWallet and settleInvoiceAfterGateway.
Payable(s) == invoice[s] \in {"PENDING", "OVERDUE"}

NotePayment(s) == raced' = IF BeingPaid(s) THEN raced \cup {s} ELSE raced

\* payInvoiceFromWallet reads the invoice in its transaction.
BeginPay(w, s) ==
    /\ Payable(s)
    /\ charges[s] < MaxCharges
    /\ Begin(w, "pay", {s})
    /\ NotePayment(s)
    /\ UNCHANGED <<sub, invoice, ended, checkout, cron, charges, excused, restarts>>

\* createOrder for the invoice.
Checkout(s) ==
    /\ Payable(s) /\ s \notin checkout
    /\ charges[s] < MaxCharges
    /\ checkout' = checkout \cup {s}
    /\ NotePayment(s)
    /\ UNCHANGED <<sub, invoice, ended, job, cron, charges, excused, restarts>>

\* The customer pays and settleInvoiceAfterGateway reads the invoice; one that is PAID
\* is left alone.
Capture(w, s) ==
    /\ s \in checkout
    /\ checkout' = checkout \ {s}
    /\ charges' = [charges EXCEPT ![s] = @ + 1]
    /\ IF Payable(s) THEN Begin(w, "settle", {s}) ELSE UNCHANGED job
    /\ UNCHANGED <<sub, invoice, ended, cron, raced, excused, restarts>>

\* Deviation, for the mutation of PaidRow: what other kinds of invoice do.
ReactivatedRow(s) == [sub[s] EXCEPT !.status = "ACTIVE", !.isActive = TRUE]

PaidRow(s) == [status |-> "ACTIVE", isActive |-> TRUE, feePaid |-> TRUE]

\* Both payments end alike: the invoice is PAID and the row ACTIVE, whatever it was.
\* The wallet is debited in the same transaction.
Settle(w, s) ==
    /\ Is(w, "pay") \/ Is(w, "settle")
    /\ s \in job[w].todo
    /\ invoice' = [invoice EXCEPT ![s] = "PAID"]
    /\ sub' = [sub EXCEPT ![s] = PaidRow(s)]
    /\ charges' = IF Is(w, "pay") THEN [charges EXCEPT ![s] = @ + 1] ELSE charges
    /\ raced' = IF SeenByCron(s) THEN raced \cup {s} ELSE raced
    /\ End(w)
    /\ UNCHANGED <<ended, checkout, cron, excused, restarts>>

\* The wallet does not hold the amount.
PayFails(w) ==
    /\ Is(w, "pay")
    /\ End(w)
    /\ UNCHANGED <<sub, invoice, ended, checkout, cron, charges, raced, excused, restarts>>

-----------------------------------------------------------------------------
(* The daily jobs *)

Rest(c) == Idle

\* runOverdueCheck: find the invoices past due,
OverdueFind ==
    LET due == { s \in Subs : invoice[s] = "PENDING" /\ s \in ended }
    IN  /\ cron["overdue"].stage = "idle" /\ due # {}
        /\ cron' = [cron EXCEPT !["overdue"] =
               [stage |-> "flip", found |-> due, todo |-> due, past |-> {}]]
        /\ UNCHANGED <<sub, invoice, ended, checkout, job, charges, raced, excused, restarts>>

\* mark them OVERDUE by id,
OverdueFlip ==
    /\ cron["overdue"].stage = "flip"
    /\ invoice' = [s \in Subs |-> IF s \in cron["overdue"].found THEN "OVERDUE" ELSE invoice[s]]
    /\ cron' = [cron EXCEPT !["overdue"].stage = "hold"]
    /\ UNCHANGED <<sub, ended, checkout, job, charges, raced, excused, restarts>>

\* and pause their subscriptions (pauseSubscriptionForOverdueInvoice).
OverdueHold(s) ==
    /\ cron["overdue"].stage = "hold" /\ s \in cron["overdue"].todo
    /\ HoldIfActive(s)
    /\ cron' = [cron EXCEPT !["overdue"] =
           IF cron["overdue"].todo = {s} THEN Rest("overdue")
           ELSE [cron["overdue"] EXCEPT !.todo = @ \ {s}]]
    /\ UNCHANGED <<invoice, ended, checkout, job, charges, raced, restarts>>

\* Deviation, for the mutation of Expired: only invoices not yet marked are looked for.
ExpiredWhilePending(s) ==
    ~sub[s].feePaid /\ s \in ended /\ sub[s].status = "ACTIVE" /\ invoice[s] = "PENDING"

\* Deviation, for the mutation of Expired: a payment leaves the cycle's end in the row
\* and the paid flag is not asked for.
ExpiredEvenIfPaid(s) == s \in ended /\ sub[s].status = "ACTIVE"

Expired(s) == ~sub[s].feePaid /\ s \in ended /\ sub[s].status = "ACTIVE"

\* runUnpaidStrategyFeeCycleEndCheck: find the unpaid rows,
FeeFind ==
    LET expired == { s \in Subs : Expired(s) }
    IN  /\ cron["fee"].stage = "idle" /\ expired # {}
        /\ cron' = [cron EXCEPT !["fee"] =
               [stage |-> "hold", found |-> expired, todo |-> expired, past |-> ended]]
        /\ UNCHANGED <<sub, invoice, ended, checkout, job, charges, raced, excused, restarts>>

\* hold each that is still ACTIVE,
FeeHold(s) ==
    /\ cron["fee"].stage = "hold" /\ s \in cron["fee"].todo
    /\ HoldIfActive(s)
    /\ cron' = [cron EXCEPT !["fee"].todo = @ \ {s},
                            !["fee"].stage = IF cron["fee"].todo = {s} THEN "flip" ELSE @]
    /\ UNCHANGED <<invoice, ended, checkout, job, charges, raced, restarts>>

\* and mark every invoice of their users that is still PENDING and past due.
FeeFlip ==
    LET owners == { Owner[s] : s \in cron["fee"].found }
    IN  /\ cron["fee"].stage = "flip"
        /\ invoice' = [s \in Subs |->
               IF Owner[s] \in owners /\ invoice[s] = "PENDING" /\ s \in cron["fee"].past
               THEN "OVERDUE" ELSE invoice[s]]
        /\ cron' = [cron EXCEPT !["fee"] = Rest("fee")]
        /\ UNCHANGED <<sub, ended, checkout, job, charges, raced, excused, restarts>>

\* The process restarts: requests and jobs are gone, open transactions with them.
Restart ==
    /\ restarts < MaxRestarts
    /\ restarts' = restarts + 1
    /\ job' = [w \in Workers |-> None]
    /\ cron' = [c \in {"overdue", "fee"} |-> Idle]
    /\ excused' = excused \cup cron["overdue"].todo
    /\ raced' = raced \cup { s \in Subs : BeingPaid(s) }
    /\ UNCHANGED <<sub, invoice, ended, checkout, charges>>

-----------------------------------------------------------------------------

Request(w, s) ==
    \/ \E kind \in {"deploy", "resume", "pause"} : BeginChange(w, kind, s)
    \/ BeginPay(w, s) \/ Capture(w, s)
    \/ Check(w, s) \/ Reread(w, s) \/ Activate(w, s) \/ Pause(w, s)
    \/ Cancel(w, s) \/ Connect(w, s) \/ Settle(w, s)

FeeCheck == FeeFind \/ (\E s \in Subs : FeeHold(s)) \/ FeeFlip
OverdueCheck == OverdueFind \/ OverdueFlip \/ \E s \in Subs : OverdueHold(s)

Next ==
    \/ \E s \in Subs, mode \in {"FREE", "GATEWAY", "PAY_LATER"} : Subscribe(s, mode)
    \/ \E s \in Subs : CycleEnds(s) \/ Checkout(s)
    \/ \E s \in Subs, isActive \in BOOLEAN : AdminSwitch(s, isActive)
    \/ \E w \in Workers, s \in Subs : Request(w, s)
    \/ \E w \in Workers, todo \in SUBSET Subs : BeginCancel(w, todo)
    \/ \E w \in Workers, u \in Users : BeginConnect(w, u)
    \/ \E w \in Workers : BotFails(w) \/ PayFails(w)
    \/ OverdueCheck \/ FeeCheck
    \/ Restart

Spec == Init /\ [][Next]_vars

\* The strategy-fee job runs every day and each of its queries ends.
FairSpec == Spec /\ WF_vars(FeeCheck)

-----------------------------------------------------------------------------
(* Properties *)

\* The flag the copy engine selects on is off in every status but ACTIVE, whichever
\* of the writers of a row came last.
FlagFollowsStatus == \A s \in Subs : sub[s].isActive => sub[s].status = "ACTIVE"

\* A subscription with an OVERDUE invoice is not ACTIVE, unless a daily job is about to
\* hold it, a restart made the job forget it, or it was reactivated by an operation
\* that does not ask (account connected, admin) or asked before the invoice was due.
OverdueIsHeld ==
    \A s \in Subs \ excused :
        invoice[s] = "OVERDUE" /\ sub[s].status = "ACTIVE" => SeenByCron(s)

\* A pay-later subscription that has been paid is held for funds only if a daily job
\* had read it when the payment came.
PaidIsHeldOnlyIfRaced ==
    \A s \in Subs \ raced :
        sub[s].feePaid /\ invoice[s] # "NONE" => sub[s].status # "PAUSED_DUE_TO_FUNDS"

\* A paid fee and its invoice agree, unless a daily job overwrote the payment.
PaidIsSettled ==
    \A s \in Subs \ raced :
        invoice[s] # "NONE" => (sub[s].feePaid <=> invoice[s] = "PAID")

\* A fee is charged twice only if two payments of it overlapped or one of them met a
\* daily job or a restart.
ChargedTwiceOnlyIfRaced == \A s \in Subs \ raced : charges[s] <= 1

\* However a subscription became ACTIVE again, and whatever a restart made the jobs
\* forget: unpaid after its 30 days it is paid or held at last.
UnpaidIsHeld ==
    \A s \in Subs :
        (s \in ended /\ ~sub[s].feePaid /\ sub[s].status = "ACTIVE")
            ~> (sub[s].feePaid \/ sub[s].status # "ACTIVE")

-----------------------------------------------------------------------------
(* Refinement *)

StatusOf == [s \in Subs |-> sub[s].status]
FeeOf ==
    [s \in Subs |-> CASE invoice[s] = "NONE" -> "NONE"
                      [] invoice[s] = "PAID" -> "PAID"
                      [] OTHER -> "DUE"]

Contract == INSTANCE FeeContract WITH
    status <- StatusOf,
    fee <- FeeOf,
    taken <- charges,
    over <- ended,
    crossed <- raced

\* Requests and daily jobs that read first and write later have the effect of steps taken
\* at once, except on the fees whose payments crossed.
ImplementsContract == Contract!Spec
=============================================================================
