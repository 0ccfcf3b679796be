---------------------------- MODULE BillingProofs ----------------------------
(***************************************************************************)
(* Theorems about SubscriptionBilling for every set of subscriptions,      *)
(* users and requests, with any number of charges and restarts, and that   *)
(* it implements FeeContract.                                              *)
(***************************************************************************)
EXTENDS SubscriptionBilling, TLAPS

USE OwnerAssumption, BoundAssumption, NoneAssumption

-----------------------------------------------------------------------------
(* Types *)

Row == [status : Status, isActive : BOOLEAN, feePaid : BOOLEAN]

\* The job of a request that is served, and what its step leaves.
LEMMA JobType == ASSUME TypeOK, NEW w \in Workers, job[w] # None PROVE job[w] \in Jobs
BY DEF TypeOK

\* Requests begin and go on with jobs.
LEMMA BeginType ==
    ASSUME TypeOK, NEW w \in Workers, NEW kind \in Kinds, NEW todo \in SUBSET Subs,
           Begin(w, kind, todo)
    PROVE  job' \in [Workers -> Jobs \cup {None}]
BY DEF TypeOK, Begin, Jobs

\* A request that continues keeps the type of the requests.
LEMMA ContinueType ==
    ASSUME TypeOK, NEW w \in Workers, NEW kind \in Kinds, job[w] # None, Continue(w, kind)
    PROVE  job' \in [Workers -> Jobs \cup {None}]
BY DEF TypeOK, Continue, Jobs

\* A request that ends keeps the type of the requests.
LEMMA EndType ==
    ASSUME TypeOK, NEW w \in Workers, End(w) PROVE job' \in [Workers -> Jobs \cup {None}]
BY DEF TypeOK, End

\* A request done with one subscription keeps the type of the requests.
LEMMA DoneType ==
    ASSUME TypeOK, NEW w \in Workers, NEW s, job[w] # None, Done(w, s)
    PROVE  job' \in [Workers -> Jobs \cup {None}]
<1>1. job[w] \in Jobs
  BY JobType
<1>2. [job[w] EXCEPT !.todo = @ \ {s}] \in Jobs
  BY <1>1 DEF Jobs
<1> QED
  BY <1>2 DEF TypeOK, Done

\* A row that is written keeps the type of the rows.
LEMMA WriteType ==
    ASSUME TypeOK, NEW s \in Subs, NEW status \in Status, NEW isActive \in BOOLEAN,
           Write(s, status, isActive)
    PROVE  sub' \in [Subs -> Row]
BY DEF TypeOK, Write, Row

\* A row put on hold keeps the types.
LEMMA HoldType ==
    ASSUME TypeOK, NEW s \in Subs, HoldIfActive(s)
    PROVE  sub' \in [Subs -> Row] /\ excused' \subseteq Subs
BY DEF TypeOK, HoldIfActive, Hold, Row, Status, Managed

\* Every step keeps the types.
LEMMA TypeStep == TypeOK /\ [Next]_vars => TypeOK'
<1> SUFFICES ASSUME TypeOK, [Next]_vars PROVE TypeOK'
  OBVIOUS
<1>1. ASSUME NEW s \in Subs, NEW mode \in {"FREE", "GATEWAY", "PAY_LATER"}, Subscribe(s, mode)
      PROVE  TypeOK'
  BY <1>1 DEF Subscribe, TypeOK, Row, Status, Managed, InvoiceStatus
<1>2. ASSUME NEW s \in Subs, CycleEnds(s) \/ Checkout(s) PROVE TypeOK'
  BY <1>2 DEF CycleEnds, Checkout, NotePayment, TypeOK
<1>3. ASSUME NEW s \in Subs, NEW isActive \in BOOLEAN, AdminSwitch(s, isActive) PROVE TypeOK'
  <2>1. sub[s].status \in Status /\ "ACTIVE" \in Status
    BY DEF TypeOK, Status, Managed
  <2>2. sub' \in [Subs -> Row]
    BY <1>3, <2>1, WriteType DEF AdminSwitch
  <2> QED
    BY <1>3, <2>2 DEF AdminSwitch, TypeOK, Row
<1>4. ASSUME NEW w \in Workers, NEW s \in Subs, NEW kind \in {"deploy", "resume", "pause"},
             BeginChange(w, kind, s)
      PROVE  TypeOK'
  BY <1>4, BeginType DEF BeginChange, TypeOK, Kinds
<1>5. ASSUME NEW w \in Workers, NEW s \in Subs, BeginPay(w, s) PROVE TypeOK'
  BY <1>5, BeginType DEF BeginPay, NotePayment, TypeOK, Kinds
<1>6. ASSUME NEW w \in Workers, NEW s \in Subs, Capture(w, s) PROVE TypeOK'
  <2>1. job' \in [Workers -> Jobs \cup {None}]
    BY <1>6, BeginType DEF Capture, TypeOK, Kinds
  <2> QED
    BY <1>6, <2>1 DEF Capture, TypeOK
<1>7. ASSUME NEW w \in Workers, NEW s \in Subs, Check(w, s) PROVE TypeOK'
  <2>1. job' \in [Workers -> Jobs \cup {None}]
    <3>1. CASE MayActivate(s)
      <4>1. job[w] \in Jobs
        BY <1>7, JobType DEF Check, Is
      <4>2. Blocking(s) \in BOOLEAN
        BY DEF Blocking
      <4> QED
        BY <1>7, <3>1, <4>1, <4>2 DEF Check, Is, TypeOK, Jobs, Kinds
    <3>2. CASE ~MayActivate(s)
      BY <1>7, <3>2, EndType DEF Check
    <3> QED
      BY <3>1, <3>2
  <2> QED
    BY <1>7, <2>1 DEF Check, TypeOK
<1>8. ASSUME NEW w \in Workers, NEW s \in Subs, Reread(w, s) PROVE TypeOK'
  <2>1. job' \in [Workers -> Jobs \cup {None}]
    BY <1>8, ContinueType, EndType DEF Reread, Is, Kinds
  <2> QED
    BY <1>8, <2>1 DEF Reread, TypeOK
<1>9. ASSUME NEW w \in Workers, NEW s \in Subs, Activate(w, s) PROVE TypeOK'
  <2>1. sub' \in [Subs -> Row]
    BY <1>9, WriteType DEF Activate, Status, Managed
  <2> QED
    BY <1>9, <2>1, EndType DEF Activate, TypeOK, Row
<1>10. ASSUME NEW w \in Workers, NEW s \in Subs, Pause(w, s) PROVE TypeOK'
  <2>1. sub' \in [Subs -> Row]
    BY <1>10, WriteType DEF Pause, Status, Managed
  <2> QED
    BY <1>10, <2>1, EndType DEF Pause, TypeOK, Row
<1>11. ASSUME NEW w \in Workers, NEW s \in Subs, Cancel(w, s) \/ Connect(w, s) PROVE TypeOK'
  <2>1. sub' \in [Subs -> Row]
    BY <1>11, WriteType DEF Cancel, Connect, Status, Managed
  <2>2. job' \in [Workers -> Jobs \cup {None}]
    BY <1>11, DoneType DEF Cancel, Connect, Is
  <2> QED
    BY <1>11, <2>1, <2>2 DEF Cancel, Connect, TypeOK, Row
<1>12. ASSUME NEW w \in Workers, NEW s \in Subs, Settle(w, s) PROVE TypeOK'
  <2>1. sub' \in [Subs -> Row]
    BY <1>12 DEF Settle, PaidRow, TypeOK, Row, Status, Managed
  <2> QED
    BY <1>12, <2>1, EndType DEF Settle, TypeOK, Row, InvoiceStatus
<1>13. ASSUME NEW w \in Workers, NEW todo \in SUBSET Subs, BeginCancel(w, todo) PROVE TypeOK'
  BY <1>13, BeginType DEF BeginCancel, TypeOK, Kinds
<1>14. ASSUME NEW w \in Workers, NEW u \in Users, BeginConnect(w, u) PROVE TypeOK'
  BY <1>14, BeginType DEF BeginConnect, TypeOK, Kinds
<1>15. ASSUME NEW w \in Workers, BotFails(w) \/ PayFails(w) PROVE TypeOK'
  BY <1>15, EndType DEF BotFails, PayFails, TypeOK
<1>16. ASSUME OverdueFind PROVE TypeOK'
  BY <1>16 DEF OverdueFind, TypeOK, Runs
<1>17. ASSUME OverdueFlip PROVE TypeOK'
  <2>1. cron["overdue"] \in Runs
    BY <1>17 DEF OverdueFlip, TypeOK, Idle
  <2>2. cron' \in [{"overdue", "fee"} -> Runs \cup {Idle}]
    BY <1>17, <2>1 DEF OverdueFlip, TypeOK, Runs
  <2> QED
    BY <1>17, <2>2 DEF OverdueFlip, TypeOK, InvoiceStatus
<1>18. ASSUME NEW s \in Subs, OverdueHold(s) PROVE TypeOK'
  <2>1. cron["overdue"] \in Runs
    BY <1>18 DEF OverdueHold, TypeOK, Idle
  <2>2. cron' \in [{"overdue", "fee"} -> Runs \cup {Idle}]
    BY <1>18, <2>1 DEF OverdueHold, Rest, TypeOK, Runs
  <2> QED
    BY <1>18, <2>2, HoldType DEF OverdueHold, TypeOK, Row
<1>19. ASSUME FeeFind PROVE TypeOK'
  BY <1>19 DEF FeeFind, TypeOK, Runs
<1>20. ASSUME NEW s \in Subs, FeeHold(s) PROVE TypeOK'
  <2>1. cron["fee"] \in Runs
    BY <1>20 DEF FeeHold, TypeOK, Idle
  <2>2. cron' \in [{"overdue", "fee"} -> Runs \cup {Idle}]
    BY <1>20, <2>1 DEF FeeHold, TypeOK, Runs
  <2> QED
    BY <1>20, <2>2, HoldType DEF FeeHold, TypeOK, Row
<1>21. ASSUME FeeFlip PROVE TypeOK'
  BY <1>21 DEF FeeFlip, Rest, TypeOK, InvoiceStatus
<1>22. ASSUME Restart PROVE TypeOK'
  <2>1. cron["overdue"].todo \subseteq Subs
    BY DEF TypeOK, Runs, Idle
  <2> QED
    BY <1>22, <2>1 DEF Restart, TypeOK
<1>23. CASE UNCHANGED vars
  BY <1>23 DEF vars, TypeOK
<1> QED
  BY <1>1, <1>2, <1>3, <1>4, <1>5, <1>6, <1>7, <1>8, <1>9, <1>10, <1>11, <1>12, <1>13, <1>14,
     <1>15, <1>16, <1>17, <1>18, <1>19, <1>20, <1>21, <1>22, <1>23
     DEF Next, Request, OverdueCheck, FeeCheck

-----------------------------------------------------------------------------
(* The inductive invariant *)

Settling(w, s) == Is(w, "settle") /\ s \in job[w].todo
Paying(w, s) == (Is(w, "pay") \/ Is(w, "settle")) /\ s \in job[w].todo

\* What the fields of a row and of its invoice say of each other, raced or not.
RowsOK ==
    \A s \in Subs :
        /\ sub[s].status = "NONE" => invoice[s] = "NONE"
        /\ s \in ended \cup checkout => invoice[s] # "NONE"
        /\ invoice[s] = "PENDING" => ~sub[s].feePaid
        /\ invoice[s] = "PAID" => sub[s].feePaid

\* A deployment goes on only when its check was clear; a payment is of one invoice.
JobsOK ==
    \A w \in Workers :
        job[w] # None =>
            /\ job[w].clear
            /\ job[w].kind \in {"pay", "settle"} =>
                   \E s \in Subs : job[w].todo = {s} /\ invoice[s] # "NONE"

\* What a daily job remembers of the rows it has read.
CronOK ==
    /\ \A c \in {"overdue", "fee"} :
           /\ cron[c].stage = "idle" => cron[c] = Idle
           /\ cron[c].todo \subseteq cron[c].found /\ cron[c].past \subseteq ended
           /\ \A s \in cron[c].found : invoice[s] # "NONE"
    /\ cron["overdue"].stage = "flip" => cron["overdue"].todo = cron["overdue"].found
    /\ cron["fee"].stage = "flip" => cron["fee"].todo = {}

\* What it read of a row that no payment has raced still holds when it writes, and a
\* payment that none has raced stands.
PaidOK ==
    \A s \in Subs \ raced :
        /\ cron["overdue"].stage = "flip" /\ s \in cron["overdue"].found => Payable(s)
        /\ \A c \in {"overdue", "fee"} : s \in cron[c].todo => ~sub[s].feePaid
        /\ sub[s].feePaid /\ invoice[s] # "NONE" =>
               invoice[s] = "PAID" /\ sub[s].status # "PAUSED_DUE_TO_FUNDS"

\* Which ACTIVE rows with an invoice past due a daily job has still to hold.
HeldOK ==
    \A s \in Subs \ excused :
        /\ s \in cron["fee"].past \ cron["fee"].todo /\ invoice[s] = "PENDING" =>
               sub[s].status # "ACTIVE"
        /\ invoice[s] = "OVERDUE" /\ sub[s].status = "ACTIVE" =>
               cron["overdue"].stage = "hold" /\ s \in cron["overdue"].todo

\* Of a fee whose payments do not overlap: at most one is under way, it is of an
\* invoice to be paid, and what has been charged for that invoice is being settled.
ChargeOK(s) ==
    /\ charges[s] <= 1
    /\ invoice[s] = "NONE" => charges[s] = 0
    /\ BeingPaid(s) => Payable(s)
    /\ s \in checkout => \A w \in Workers : ~Paying(w, s)
    /\ \A w, v \in Workers : Paying(w, s) /\ Paying(v, s) => w = v
    /\ Payable(s) => charges[s] = IF \E w \in Workers : Settling(w, s) THEN 1 ELSE 0

ChargesOK == \A s \in Subs \ raced : ChargeOK(s)

IInv ==
    /\ TypeOK /\ FlagFollowsStatus /\ RowsOK /\ JobsOK
    /\ CronOK /\ PaidOK /\ HeldOK /\ ChargesOK

-----------------------------------------------------------------------------
(* What the steps do to rows and invoices *)

\* The writes of pause, resume, cancellation, reconnection and of the admin.
Rewritten(s) ==
    /\ UNCHANGED <<invoice, ended, checkout, cron, charges, raced>>
    /\ \E status \in Status, isActive \in BOOLEAN :
           /\ Write(s, status, isActive)
           /\ isActive => status = "ACTIVE"
           /\ status \in {"NONE", "PAUSED_DUE_TO_FUNDS"} => status = sub[s].status
           /\ \/ status # "ACTIVE" /\ excused' \in {excused, excused \ {s}}
              \/ status = sub[s].status /\ excused' = excused
              \/ s \in excused' /\ excused \subseteq excused'
              \/ ~Blocking(s) /\ excused' = excused

Held(s) == HoldIfActive(s) /\ UNCHANGED <<invoice, ended, checkout, job, charges, raced>>

RowsKept == UNCHANGED <<sub, invoice, ended, checkout, charges>>

Kept == RowsKept /\ UNCHANGED <<cron, excused>> /\ raced \subseteq raced'

\* The requests that rewrite a row, and the admin's switch.
LEMMA RewrittenBy ==
    ASSUME IInv, NEW s \in Subs,
           \/ \E w \in Workers : Activate(w, s) \/ Pause(w, s) \/ Cancel(w, s) \/ Connect(w, s)
           \/ \E isActive \in BOOLEAN : AdminSwitch(s, isActive)
    PROVE  Rewritten(s)
<1> USE DEF IInv
<1>1. {"ACTIVE", "PAUSED_BY_USER", "CANCELLED"} \subseteq Status /\ sub[s].status \in Status
  BY DEF TypeOK, Status, Managed
<1>2. ASSUME NEW w \in Workers, Activate(w, s) PROVE Rewritten(s)
  <2>1. job[w].clear
    BY <1>2 DEF Activate, Is, JobsOK
  <2> QED
    BY <1>1, <1>2, <2>1 DEF Activate, Rewritten
<1>3. ASSUME NEW w \in Workers, Pause(w, s) PROVE Rewritten(s)
  BY <1>1, <1>3 DEF Pause, Rewritten
<1>4. ASSUME NEW w \in Workers, Cancel(w, s) PROVE Rewritten(s)
  BY <1>1, <1>4 DEF Cancel, Rewritten
<1>5. ASSUME NEW w \in Workers, Connect(w, s) PROVE Rewritten(s)
  BY <1>1, <1>5 DEF Connect, Rewritten
<1>6. ASSUME NEW isActive \in BOOLEAN, AdminSwitch(s, isActive) PROVE Rewritten(s)
  <2>1. CASE isActive
    BY <1>1, <1>6, <2>1 DEF AdminSwitch, Rewritten
  <2>2. CASE ~isActive
    BY <1>1, <1>6, <2>2 DEF AdminSwitch, Rewritten
  <2> QED
    BY <2>1, <2>2
<1> QED
  BY <1>2, <1>3, <1>4, <1>5, <1>6

\* Every step, by what it does to rows and invoices and to the daily jobs.
LEMMA Moves ==
    ASSUME IInv, [Next]_vars
    PROVE  \/ Kept
           \/ \E s \in Subs, mode \in {"FREE", "GATEWAY", "PAY_LATER"} : Subscribe(s, mode)
           \/ \E s \in Subs : CycleEnds(s) \/ Checkout(s) \/ Rewritten(s)
           \/ \E w \in Workers, s \in Subs : Capture(w, s) \/ Settle(w, s)
           \/ OverdueFind \/ OverdueFlip \/ FeeFind \/ FeeFlip \/ Restart
           \/ \E s \in Subs : OverdueHold(s) \/ FeeHold(s)
<1>1. ASSUME NEW w \in Workers, NEW s \in Subs,
             \/ \E kind \in {"deploy", "resume", "pause"} : BeginChange(w, kind, s)
             \/ BeginPay(w, s) \/ Check(w, s) \/ Reread(w, s)
      PROVE  Kept
  BY <1>1 DEF BeginChange, BeginPay, NotePayment, Check, Reread, Kept, RowsKept
<1>2. ASSUME NEW w \in Workers,
             \/ \E todo \in SUBSET Subs : BeginCancel(w, todo)
             \/ \E u \in Users : BeginConnect(w, u)
             \/ BotFails(w) \/ PayFails(w)
      PROVE  Kept
  BY <1>2 DEF BeginCancel, BeginConnect, BotFails, PayFails, Kept, RowsKept
<1>3. UNCHANGED vars => Kept
  BY DEF vars, Kept, RowsKept
<1> QED
  BY <1>1, <1>2, <1>3, RewrittenBy DEF Next, Request, OverdueCheck, FeeCheck

\* The two daily jobs that put a subscription on hold.
LEMMA HeldBy == ASSUME NEW s, OverdueHold(s) \/ FeeHold(s) PROVE Held(s)
BY DEF OverdueHold, FeeHold, Held

\* The steps that leave every row alone.
LEMMA KeptBy == Kept \/ OverdueFind \/ FeeFind \/ Restart => RowsKept
BY DEF OverdueFind, FeeFind, Restart, Kept, RowsKept

\* Every step keeps the flag with the status, and the row with its invoice.
LEMMA RowsStep ==
    ASSUME IInv, [Next]_vars
    PROVE  (FlagFollowsStatus /\ RowsOK)'
<1> USE DEF IInv, FlagFollowsStatus, RowsOK
<1>1. ASSUME RowsKept PROVE (FlagFollowsStatus /\ RowsOK)'
  BY <1>1 DEF RowsKept
<1>2. ASSUME NEW s \in Subs, NEW mode \in {"FREE", "GATEWAY", "PAY_LATER"}, Subscribe(s, mode)
      PROVE  (FlagFollowsStatus /\ RowsOK)'
  BY <1>2 DEF Subscribe, TypeOK
<1>3. ASSUME NEW s \in Subs, CycleEnds(s) \/ Checkout(s) PROVE (FlagFollowsStatus /\ RowsOK)'
  BY <1>3 DEF CycleEnds, Checkout, Payable
<1>4. ASSUME NEW s \in Subs, Rewritten(s) PROVE (FlagFollowsStatus /\ RowsOK)'
  BY <1>4 DEF Rewritten, Write, TypeOK
<1>5. ASSUME NEW s \in Subs, Held(s) PROVE (FlagFollowsStatus /\ RowsOK)'
  BY <1>5 DEF Held, HoldIfActive, Hold, TypeOK
<1>6. ASSUME NEW w \in Workers, NEW s \in Subs, Capture(w, s)
      PROVE  (FlagFollowsStatus /\ RowsOK)'
  BY <1>6 DEF Capture
<1>7. ASSUME NEW w \in Workers, NEW s \in Subs, Settle(w, s)
      PROVE  (FlagFollowsStatus /\ RowsOK)'
  BY <1>7 DEF Settle, PaidRow, TypeOK
<1>8. ASSUME OverdueFlip PROVE (FlagFollowsStatus /\ RowsOK)'
  BY <1>8 DEF OverdueFlip, CronOK
<1>9. ASSUME FeeFlip PROVE (FlagFollowsStatus /\ RowsOK)'
  BY <1>9 DEF FeeFlip
<1> QED
  BY <1>1, <1>2, <1>3, <1>4, <1>5, <1>6, <1>7, <1>8, <1>9, Moves, HeldBy, KeptBy

\* An invoice is never deleted, and a cycle that is over stays over.
LEMMA InvoiceStays ==
    ASSUME IInv, [Next]_vars
    PROVE  /\ \A s \in Subs : invoice[s] # "NONE" => invoice'[s] # "NONE"
           /\ ended \subseteq ended'
<1> USE DEF IInv
<1> DEFINE Stays == /\ \A s \in Subs : invoice[s] # "NONE" => invoice'[s] # "NONE"
                    /\ ended \subseteq ended'
<1>1. ASSUME NEW s \in Subs, NEW mode \in {"FREE", "GATEWAY", "PAY_LATER"}, Subscribe(s, mode)
      PROVE  Stays
  BY <1>1 DEF Subscribe, TypeOK, RowsOK
<1>2. ASSUME NEW w \in Workers, NEW s \in Subs, Capture(w, s) \/ Settle(w, s) PROVE Stays
  BY <1>2 DEF Capture, Settle, TypeOK
<1>3. OverdueFlip \/ FeeFlip => Stays
  BY DEF OverdueFlip, FeeFlip
<1>4. ASSUME NEW s \in Subs, CycleEnds(s) \/ Checkout(s) \/ Rewritten(s) \/ Held(s)
      PROVE  Stays
  BY <1>4 DEF CycleEnds, Checkout, Rewritten, Held
<1>5. RowsKept => Stays
  BY DEF RowsKept
<1> QED
  BY <1>1, <1>2, <1>3, <1>4, <1>5, Moves, HeldBy, KeptBy

-----------------------------------------------------------------------------
(* What the steps do to the requests and to the daily jobs *)

\* Every step keeps what the requests in flight know.
LEMMA JobsStep == ASSUME IInv, [Next]_vars PROVE JobsOK'
<1> USE DEF IInv, JobsOK
<1>1. ASSUME UNCHANGED job PROVE JobsOK'
  BY <1>1, InvoiceStays
<1>2. ASSUME NEW w \in Workers, NEW kind \in Kinds \ {"pay", "settle"}, NEW todo,
             Begin(w, kind, todo)
      PROVE  JobsOK'
  BY <1>2, InvoiceStays DEF Begin, TypeOK
<1>3. ASSUME NEW w \in Workers, NEW kind \in {"pay", "settle"}, NEW s \in Subs, Payable(s),
             Begin(w, kind, {s})
      PROVE  JobsOK'
  BY <1>3, InvoiceStays DEF Begin, TypeOK, Payable
<1>4. ASSUME NEW w \in Workers, End(w) PROVE JobsOK'
  BY <1>4, InvoiceStays DEF End, TypeOK
<1>5. ASSUME NEW w \in Workers, NEW s \in Subs, Cancel(w, s) \/ Connect(w, s) PROVE JobsOK'
  <2>1. job[w] \in Jobs /\ job[w].kind \in {"cancel", "connect"} /\ job[w] # None
    BY <1>5, JobType DEF Cancel, Connect, Is
  <2> DEFINE left == [job[w] EXCEPT !.todo = @ \ {s}]
  <2>2. left \in Jobs /\ left.kind = job[w].kind /\ left.clear = job[w].clear
    BY <2>1 DEF Jobs
  <2>3. job' \in {[job EXCEPT ![w] = None], [job EXCEPT ![w] = left]}
    BY <1>5 DEF Cancel, Connect, Done
  <2> HIDE DEF left
  <2> QED
    BY <2>1, <2>2, <2>3, InvoiceStays DEF TypeOK
<1>6. ASSUME NEW w \in Workers, NEW s \in Subs, Check(w, s) PROVE JobsOK'
  <2>1. job[w] \in Jobs
    BY <1>6, JobType DEF Check, Is
  <2>2. CASE MayActivate(s)
    <3>1. job'[w].kind \in {"activate", "reread"} /\ job'[w].clear = ~Blocking(s)
      BY <1>6, <2>1, <2>2 DEF Check, TypeOK, Jobs
    <3>2. \A v \in Workers \ {w} : job'[v] = job[v]
      BY <1>6, <2>2 DEF Check, TypeOK
    <3> QED
      BY <2>2, <3>1, <3>2, InvoiceStays DEF MayActivate
  <2>3. CASE ~MayActivate(s)
    BY <1>4, <1>6, <2>3 DEF Check
  <2> QED
    BY <2>2, <2>3
<1>7. ASSUME NEW w \in Workers, NEW s \in Subs, Reread(w, s) PROVE JobsOK'
  <2>1. job[w] \in Jobs
    BY <1>7, JobType DEF Reread, Is
  <2>2. CASE Continue(w, "activate")
    BY <1>7, <2>1, <2>2, InvoiceStays DEF Reread, Continue, Is, TypeOK, Jobs
  <2> QED
    BY <1>4, <1>7, <2>2 DEF Reread
<1>8. ASSUME NEW w \in Workers, NEW s \in Subs,
             \/ \E kind \in {"deploy", "resume", "pause"} : BeginChange(w, kind, s)
             \/ BeginPay(w, s) \/ Capture(w, s)
      PROVE  JobsOK'
  BY <1>1, <1>2, <1>3, <1>8 DEF BeginChange, BeginPay, Capture, Kinds
<1>9. ASSUME NEW w \in Workers,
             \/ \E todo \in SUBSET Subs : BeginCancel(w, todo)
             \/ \E u \in Users : BeginConnect(w, u)
             \/ BotFails(w) \/ PayFails(w)
             \/ \E s \in Subs : Activate(w, s) \/ Pause(w, s) \/ Settle(w, s)
      PROVE  JobsOK'
  BY <1>2, <1>4, <1>9
     DEF BeginCancel, BeginConnect, BotFails, PayFails, Activate, Pause, Settle, Kinds
<1>10. ASSUME NEW s \in Subs,
              \/ \E mode \in {"FREE", "GATEWAY", "PAY_LATER"} : Subscribe(s, mode)
              \/ CycleEnds(s) \/ Checkout(s) \/ OverdueHold(s) \/ FeeHold(s)
              \/ \E isActive \in BOOLEAN : AdminSwitch(s, isActive)
       PROVE  UNCHANGED job
  BY <1>10 DEF Subscribe, CycleEnds, Checkout, OverdueHold, FeeHold, AdminSwitch
<1>11. OverdueFind \/ OverdueFlip \/ FeeFind \/ FeeFlip \/ UNCHANGED vars => UNCHANGED job
  BY DEF OverdueFind, OverdueFlip, FeeFind, FeeFlip, vars
<1>12. Restart => JobsOK'
  BY DEF Restart
<1> QED
  BY <1>1, <1>5, <1>6, <1>7, <1>8, <1>9, <1>10, <1>11, <1>12
     DEF Next, Request, OverdueCheck, FeeCheck

\* A daily job that has begun.
LEMMA RunType ==
    ASSUME TypeOK, NEW c \in {"overdue", "fee"}, cron[c].stage # "idle" PROVE cron[c] \in Runs
BY DEF TypeOK, Idle

\* Every step keeps what the daily jobs have found.
LEMMA CronStep == ASSUME IInv, [Next]_vars PROVE CronOK'
<1> USE DEF IInv, CronOK
<1>1. ASSUME UNCHANGED cron PROVE CronOK'
  BY <1>1, InvoiceStays DEF TypeOK, Runs, Idle
<1>2. ASSUME OverdueFind PROVE CronOK'
  BY <1>2 DEF OverdueFind, TypeOK
<1>3. ASSUME OverdueFlip PROVE CronOK'
  <2>1. cron["overdue"] \in Runs
    BY <1>3, RunType DEF OverdueFlip
  <2> QED
    BY <1>3, <2>1, InvoiceStays DEF OverdueFlip, TypeOK, Runs, Idle
<1>4. ASSUME NEW s \in Subs, OverdueHold(s) PROVE CronOK'
  <2>1. cron["overdue"] \in Runs
    BY <1>4, RunType DEF OverdueHold
  <2> QED
    BY <1>4, <2>1, InvoiceStays DEF OverdueHold, Rest, TypeOK, Runs, Idle
<1>5. ASSUME FeeFind PROVE CronOK'
  BY <1>5 DEF FeeFind, Expired, RowsOK, TypeOK
<1>6. ASSUME NEW s \in Subs, FeeHold(s) PROVE CronOK'
  <2>1. cron["fee"] \in Runs
    BY <1>6, RunType DEF FeeHold
  <2> QED
    BY <1>6, <2>1, InvoiceStays DEF FeeHold, TypeOK, Runs, Idle
<1>7. ASSUME FeeFlip PROVE CronOK'
  BY <1>7, InvoiceStays DEF FeeFlip, Rest, TypeOK, Runs, Idle
<1>8. ASSUME Restart PROVE CronOK'
  BY <1>8 DEF Restart, Idle
<1>9. ASSUME NEW s \in Subs,
             \/ \E mode \in {"FREE", "GATEWAY", "PAY_LATER"} : Subscribe(s, mode)
             \/ \E w \in Workers : Capture(w, s) \/ Settle(w, s)
             \/ CycleEnds(s) \/ Checkout(s) \/ Rewritten(s)
      PROVE  UNCHANGED cron
  BY <1>9 DEF Subscribe, CycleEnds, Checkout, Rewritten, Capture, Settle
<1> QED
  BY <1>1, <1>2, <1>3, <1>4, <1>5, <1>6, <1>7, <1>8, <1>9, Moves DEF Kept

\* A subscription that raced stays marked.
LEMMA RacedStays == ASSUME [Next]_vars, IInv PROVE raced \subseteq raced'
<1>1. ASSUME NEW s \in Subs,
             \/ \E mode \in {"FREE", "GATEWAY", "PAY_LATER"} : Subscribe(s, mode)
             \/ \E w \in Workers : Capture(w, s) \/ Settle(w, s)
             \/ CycleEnds(s) \/ Checkout(s) \/ Rewritten(s) \/ OverdueHold(s) \/ FeeHold(s)
      PROVE  raced \subseteq raced'
  BY <1>1
     DEF Subscribe, CycleEnds, Checkout, NotePayment, Rewritten, Capture, Settle, OverdueHold,
         FeeHold
<1>2. OverdueFind \/ OverdueFlip \/ FeeFind \/ FeeFlip \/ Restart => raced \subseteq raced'
  BY DEF OverdueFind, OverdueFlip, FeeFind, FeeFlip, Restart
<1> QED
  BY <1>1, <1>2, Moves DEF Kept

\* Every step keeps what the daily jobs read, and what was paid, unless a payment raced.
LEMMA PaidStep == ASSUME IInv, [Next]_vars PROVE PaidOK'
<1> USE DEF IInv, PaidOK
<1>1. ASSUME Kept PROVE PaidOK'
  BY <1>1 DEF Kept, RowsKept, Payable
<1>2. ASSUME NEW s \in Subs, NEW mode \in {"FREE", "GATEWAY", "PAY_LATER"}, Subscribe(s, mode)
      PROVE  PaidOK'
  BY <1>2 DEF Subscribe, TypeOK, RowsOK, CronOK, Payable
<1>3. ASSUME NEW s \in Subs, CycleEnds(s) \/ Checkout(s) PROVE PaidOK'
  BY <1>3, RacedStays DEF CycleEnds, Checkout, Payable
<1>4. ASSUME NEW s \in Subs, Rewritten(s) PROVE PaidOK'
  BY <1>4 DEF Rewritten, Write, TypeOK, Payable
<1>5. ASSUME NEW w \in Workers, NEW s \in Subs, Capture(w, s) PROVE PaidOK'
  BY <1>5 DEF Capture, Payable
<1>6. ASSUME NEW w \in Workers, NEW s \in Subs, Settle(w, s) PROVE PaidOK'
  <2>1. \A x \in Subs \ raced' : x = s => \A c \in {"overdue", "fee"} : x \notin cron[c].found
    BY <1>6 DEF Settle, SeenByCron
  <2> QED
    BY <1>6, <2>1, RacedStays DEF Settle, PaidRow, CronOK, TypeOK, Payable
<1>7. ASSUME OverdueFind PROVE PaidOK'
  BY <1>7 DEF OverdueFind, RowsOK, TypeOK, Payable
<1>8. ASSUME OverdueFlip PROVE PaidOK'
  <2>1. cron["overdue"] \in Runs
    BY <1>8, RunType DEF OverdueFlip
  <2> QED
    BY <1>8, <2>1 DEF OverdueFlip, RowsOK, TypeOK, Payable, Runs
<1>9. ASSUME NEW s \in Subs, OverdueHold(s) PROVE PaidOK'
  <2>1. cron["overdue"] \in Runs
    BY <1>9, RunType DEF OverdueHold
  <2> QED
    BY <1>9, <2>1 DEF OverdueHold, HoldIfActive, Hold, Rest, Idle, TypeOK, Payable, Runs
<1>10. ASSUME FeeFind PROVE PaidOK'
  BY <1>10 DEF FeeFind, Expired, TypeOK, Payable
<1>11. ASSUME NEW s \in Subs, FeeHold(s) PROVE PaidOK'
  <2>1. cron["fee"] \in Runs
    BY <1>11, RunType DEF FeeHold
  <2> QED
    BY <1>11, <2>1 DEF FeeHold, HoldIfActive, Hold, TypeOK, Payable, Runs
<1>12. ASSUME FeeFlip PROVE PaidOK'
  BY <1>12 DEF FeeFlip, Rest, Idle, RowsOK, TypeOK, Payable
<1>13. ASSUME Restart PROVE PaidOK'
  BY <1>13 DEF Restart, Idle, Payable
<1> QED
  BY <1>1, <1>2, <1>3, <1>4, <1>5, <1>6, <1>7, <1>8, <1>9, <1>10, <1>11, <1>12, <1>13, Moves

\* Every step keeps the rows that a daily job has still to hold.
LEMMA HeldStep == ASSUME IInv, [Next]_vars PROVE HeldOK'
<1> USE DEF IInv, HeldOK
<1>1. ASSUME Kept PROVE HeldOK'
  BY <1>1 DEF Kept, RowsKept
<1>2. ASSUME NEW s \in Subs, NEW mode \in {"FREE", "GATEWAY", "PAY_LATER"}, Subscribe(s, mode)
      PROVE  HeldOK'
  BY <1>2 DEF Subscribe, TypeOK, RowsOK, CronOK
<1>3. ASSUME NEW s \in Subs, CycleEnds(s) \/ Checkout(s) PROVE HeldOK'
  BY <1>3 DEF CycleEnds, Checkout
<1>4. ASSUME NEW s \in Subs, Rewritten(s) PROVE HeldOK'
  BY <1>4 DEF Rewritten, Write, TypeOK, CronOK, Blocking
<1>5. ASSUME NEW w \in Workers, NEW s \in Subs, Capture(w, s) PROVE HeldOK'
  BY <1>5 DEF Capture
<1>6. ASSUME NEW w \in Workers, NEW s \in Subs, Settle(w, s) PROVE HeldOK'
  BY <1>6 DEF Settle, PaidRow, TypeOK
<1>7. ASSUME OverdueFind PROVE HeldOK'
  BY <1>7 DEF OverdueFind, TypeOK
<1>8. ASSUME OverdueFlip PROVE HeldOK'
  <2>1. cron["overdue"] \in Runs
    BY <1>8, RunType DEF OverdueFlip
  <2> QED
    BY <1>8, <2>1 DEF OverdueFlip, CronOK, TypeOK, Runs
<1>9. ASSUME NEW s \in Subs, OverdueHold(s) PROVE HeldOK'
  <2>1. cron["overdue"] \in Runs
    BY <1>9, RunType DEF OverdueHold
  <2> QED
    BY <1>9, <2>1 DEF OverdueHold, HoldIfActive, Hold, Rest, Idle, TypeOK, Runs
<1>10. ASSUME FeeFind PROVE HeldOK'
  BY <1>10 DEF FeeFind, Expired, RowsOK, TypeOK
<1>11. ASSUME NEW s \in Subs, FeeHold(s) PROVE HeldOK'
  <2>1. cron["fee"] \in Runs
    BY <1>11, RunType DEF FeeHold
  <2> QED
    BY <1>11, <2>1 DEF FeeHold, HoldIfActive, Hold, TypeOK, Runs
<1>12. ASSUME FeeFlip PROVE HeldOK'
  BY <1>12 DEF FeeFlip, Rest, Idle, CronOK, TypeOK
<1>13. ASSUME Restart PROVE HeldOK'
  BY <1>13 DEF Restart, Idle
<1> QED
  BY <1>1, <1>2, <1>3, <1>4, <1>5, <1>6, <1>7, <1>8, <1>9, <1>10, <1>11, <1>12, <1>13, Moves

-----------------------------------------------------------------------------
(* What the steps do to payments *)

\* The requests, but those that begin or end a payment.
OtherRequest(w) ==
    \/ \E s \in Subs :
           \/ \E kind \in {"deploy", "resume", "pause"} : BeginChange(w, kind, s)
           \/ Check(w, s) \/ Reread(w, s) \/ Activate(w, s) \/ Pause(w, s)
           \/ Cancel(w, s) \/ Connect(w, s)
    \/ \E todo \in SUBSET Subs : BeginCancel(w, todo)
    \/ \E u \in Users : BeginConnect(w, u)
    \/ BotFails(w)

\* They neither are payments nor become one, and leave the other requests alone.
LEMMA OtherJobs ==
    ASSUME IInv, NEW w \in Workers, OtherRequest(w)
    PROVE  /\ \A v \in Workers \ {w} : job'[v] = job[v]
           /\ \A s : ~Paying(w, s) /\ ~Paying(w, s)'
           /\ UNCHANGED <<invoice, checkout, charges, raced>>
<1> USE DEF IInv
<1>1. ASSUME NEW kind \in {"deploy", "resume", "pause", "cancel", "connect"}, NEW todo,
             Begin(w, kind, todo)
      PROVE  /\ \A v \in Workers \ {w} : job'[v] = job[v]
             /\ \A s : ~Paying(w, s) /\ ~Paying(w, s)'
  BY <1>1 DEF Begin, TypeOK, Paying, Is
<1>2. ASSUME End(w) PROVE (\A v \in Workers \ {w} : job'[v] = job[v]) /\ job'[w] = None
  BY <1>2 DEF End, TypeOK
<1>3. ASSUME NEW s \in Subs, Check(w, s)
      PROVE  /\ \A v \in Workers \ {w} : job'[v] = job[v]
             /\ \A x : ~Paying(w, x) /\ ~Paying(w, x)'
  <2>1. job[w] \in Jobs /\ job[w].kind \in {"deploy", "resume"}
    BY <1>3, JobType DEF Check, Is
  <2>2. CASE MayActivate(s)
    <3>1. job'[w].kind \in {"activate", "reread"}
      BY <1>3, <2>1, <2>2 DEF Check, TypeOK, Jobs
    <3>2. \A v \in Workers \ {w} : job'[v] = job[v]
      BY <1>3, <2>2 DEF Check, TypeOK
    <3> QED
      BY <2>1, <3>1, <3>2 DEF Paying, Is
  <2> QED
    BY <1>2, <1>3, <2>1, <2>2 DEF Check, Paying, Is
<1>4. ASSUME NEW s \in Subs, Reread(w, s)
      PROVE  /\ \A v \in Workers \ {w} : job'[v] = job[v]
             /\ \A x : ~Paying(w, x) /\ ~Paying(w, x)'
  <2>1. job[w] \in Jobs /\ job[w].kind = "reread"
    BY <1>4, JobType DEF Reread, Is
  <2>2. ASSUME Continue(w, "activate")
        PROVE  (\A v \in Workers \ {w} : job'[v] = job[v]) /\ job'[w].kind = "activate"
    BY <2>1, <2>2 DEF Continue, TypeOK, Jobs
  <2> QED
    BY <1>2, <1>4, <2>1, <2>2 DEF Reread, Paying, Is
<1>5. ASSUME NEW s \in Subs, Cancel(w, s) \/ Connect(w, s)
      PROVE  /\ \A v \in Workers \ {w} : job'[v] = job[v]
             /\ \A x : ~Paying(w, x) /\ ~Paying(w, x)'
  <2>1. job[w] \in Jobs /\ job[w].kind \in {"cancel", "connect"}
    BY <1>5, JobType DEF Cancel, Connect, Is
  <2> DEFINE left == [job[w] EXCEPT !.todo = @ \ {s}]
  <2>2. left.kind = job[w].kind
    BY <2>1 DEF Jobs
  <2>3. job' \in {[job EXCEPT ![w] = None], [job EXCEPT ![w] = left]}
    BY <1>5 DEF Cancel, Connect, Done
  <2> HIDE DEF left
  <2>4. \A v \in Workers \ {w} : job'[v] = job[v]
    BY <2>3 DEF TypeOK
  <2>5. job'[w] \in {None, left}
    BY <2>3 DEF TypeOK
  <2> QED
    BY <2>1, <2>2, <2>4, <2>5 DEF Paying, Is
<1>6. ASSUME \/ BotFails(w)
             \/ \E s \in Subs : Activate(w, s) \/ Pause(w, s)
      PROVE  /\ \A v \in Workers \ {w} : job'[v] = job[v]
             /\ \A x : ~Paying(w, x) /\ ~Paying(w, x)'
  BY <1>2, <1>6 DEF BotFails, Activate, Pause, Paying, Is
<1>7. UNCHANGED <<invoice, checkout, charges, raced>>
  BY DEF OtherRequest, BeginChange, Check, Reread, Activate, Pause, Cancel, Connect, BeginCancel,
         BeginConnect, BotFails
<1> QED
  BY <1>1, <1>3, <1>4, <1>5, <1>6, <1>7 DEF OtherRequest, BeginChange, BeginCancel, BeginConnect

\* A fee none of whose payments moves.
LEMMA ChargeKept ==
    ASSUME NEW s \in Subs, ChargeOK(s), charges'[s] = charges[s],
           s \in checkout' <=> s \in checkout,
           \A w \in Workers :
               (Paying(w, s)' <=> Paying(w, s)) /\ (Settling(w, s)' <=> Settling(w, s)),
           invoice'[s] = "NONE" => invoice[s] = "NONE",
           Payable(s)' <=> Payable(s)
    PROVE  ChargeOK(s)'
<1>1. BeingPaid(s)' <=> BeingPaid(s)
  BY DEF BeingPaid, Paying
<1> QED
  BY <1>1 DEF ChargeOK

\* A request left alone goes on paying and settling what it did.
LEMMA JobKept ==
    ASSUME NEW w \in Workers, job'[w] = job[w]
    PROVE  \A s : (Paying(w, s)' <=> Paying(w, s)) /\ (Settling(w, s)' <=> Settling(w, s))
BY DEF Paying, Settling, Is

\* Steps of requests and jobs that are not payments.
LEMMA InvoicesMove ==
    ASSUME IInv, UNCHANGED <<checkout, charges, raced>>,
           \A w \in Workers, s \in Subs :
               (Paying(w, s)' <=> Paying(w, s)) /\ (Settling(w, s)' <=> Settling(w, s)),
           \/ UNCHANGED invoice
           \/ OverdueFlip
           \/ FeeFlip
    PROVE  ChargesOK'
<1> SUFFICES ASSUME NEW s \in Subs, s \notin raced PROVE ChargeOK(s)'
  BY DEF ChargesOK
<1>1. ChargeOK(s)
  BY DEF IInv, ChargesOK
<1>2. (invoice'[s] = "NONE" => invoice[s] = "NONE") /\ (Payable(s)' <=> Payable(s))
  <2>1. CASE UNCHANGED invoice
    BY <2>1 DEF Payable
  <2>2. CASE OverdueFlip
    BY <2>2 DEF OverdueFlip, IInv, PaidOK, Payable
  <2>3. CASE FeeFlip
    BY <2>3 DEF FeeFlip, Payable
  <2> QED
    BY <2>1, <2>2, <2>3
<1> QED
  BY <1>1, <1>2, ChargeKept

\* A payment under way is of an invoice.
LEMMA PayingInvoice ==
    ASSUME IInv, NEW w \in Workers, NEW s \in Subs, Paying(w, s)
    PROVE  job[w] # None /\ job[w].todo = {s} /\ invoice[s] # "NONE"
BY DEF IInv, JobsOK, Paying, Is

\* A payment that begins takes a free worker.
LEMMA BegunPayment ==
    ASSUME IInv, NEW w \in Workers, NEW kind \in {"pay", "settle"}, NEW s \in Subs,
           Begin(w, kind, {s})
    PROVE  /\ job[w] = None
           /\ job'[w] # None /\ job'[w].kind = kind /\ job'[w].todo = {s}
<1>1. [kind |-> kind, todo |-> {s}, clear |-> TRUE] \in Jobs
  BY DEF Jobs, Kinds
<1> QED
  BY <1>1 DEF Begin, IInv, TypeOK

\* A payment begins: of a fee that is not being paid, or the fee has been raced.
LEMMA BeginPayment ==
    ASSUME IInv, NEW s \in Subs, Payable(s), NotePayment(s), UNCHANGED <<invoice, charges>>,
           \/ Checkout(s) /\ UNCHANGED job
           \/ \E w \in Workers : Begin(w, "pay", {s}) /\ UNCHANGED checkout
    PROVE  ChargesOK'
<1> SUFFICES ASSUME NEW x \in Subs, x \notin raced' PROVE ChargeOK(x)'
  BY DEF ChargesOK
<1>1. ChargeOK(x)
  BY DEF IInv, ChargesOK, NotePayment
<1>2. x = s => ~BeingPaid(x)
  BY DEF NotePayment
<1>3. CASE Checkout(s) /\ UNCHANGED job
  <2>1. \A w \in Workers :
            (Paying(w, x)' <=> Paying(w, x)) /\ (Settling(w, x)' <=> Settling(w, x))
    BY <1>3, JobKept
  <2>2. CASE x # s
    BY <1>1, <1>3, <2>1, <2>2, ChargeKept DEF Checkout, Payable
  <2>3. CASE x = s
    BY <1>1, <1>2, <1>3, <2>1, <2>3 DEF ChargeOK, Payable, BeingPaid, Paying
  <2> QED
    BY <2>2, <2>3
<1>4. ASSUME NEW w \in Workers, Begin(w, "pay", {s}), UNCHANGED checkout PROVE ChargeOK(x)'
  <2>1. ~Paying(w, x) /\ ~Settling(w, x) /\ ~Settling(w, x)' /\ (Paying(w, x)' <=> x = s)
    BY <1>4, BegunPayment DEF Paying, Settling, Is
  <2>2. \A v \in Workers \ {w} :
            (Paying(v, x)' <=> Paying(v, x)) /\ (Settling(v, x)' <=> Settling(v, x))
    BY <1>4, JobKept DEF Begin, IInv, TypeOK
  <2>3. CASE x # s
    BY <1>1, <1>4, <2>1, <2>2, <2>3, ChargeKept DEF Payable
  <2>4. CASE x = s
    BY <1>1, <1>2, <1>4, <2>1, <2>2, <2>4 DEF ChargeOK, Payable, BeingPaid, Paying, Settling
  <2> QED
    BY <2>3, <2>4
<1> QED
  BY <1>3, <1>4

\* A capture is of a fee that no other payment under way is of, unless they race.
LEMMA CaptureStep ==
    ASSUME IInv, NEW w \in Workers, NEW s \in Subs, Capture(w, s) PROVE ChargesOK'
<1> SUFFICES ASSUME NEW x \in Subs, x \notin raced PROVE ChargeOK(x)'
  BY DEF ChargesOK, Capture
<1>1. ChargeOK(x)
  BY DEF IInv, ChargesOK
<1>2. CASE x # s
  <2>1. \A v \in Workers :
            (Paying(v, x)' <=> Paying(v, x)) /\ (Settling(v, x)' <=> Settling(v, x))
    <3>1. CASE UNCHANGED job
      BY <3>1, JobKept
    <3>2. CASE Begin(w, "settle", {s})
      <4>1. ~Paying(w, x) /\ ~Settling(w, x) /\ ~Paying(w, x)' /\ ~Settling(w, x)'
        BY <1>2, <3>2, BegunPayment DEF Paying, Settling, Is
      <4> QED
        BY <3>2, <4>1, JobKept DEF Begin, IInv, TypeOK
    <3> QED
      BY <3>1, <3>2 DEF Capture
  <2> QED
    BY <1>1, <1>2, <2>1, ChargeKept DEF Capture, IInv, TypeOK, Payable
<1>3. CASE x = s
  <2>1. Payable(s) /\ \A v \in Workers : ~Paying(v, s) /\ ~Settling(v, s)
    BY <1>1, <1>3 DEF Capture, ChargeOK, BeingPaid, Paying, Settling
  <2>2. charges[s] = 0 /\ charges'[s] = 1
    BY <1>1, <1>3, <2>1 DEF ChargeOK, Capture, IInv, TypeOK
  <2>3. Begin(w, "settle", {s})
    BY <2>1 DEF Capture
  <2>4. Settling(w, s)' /\ Paying(w, s)'
    BY <2>3, BegunPayment DEF Paying, Settling, Is
  <2>5. \A v \in Workers \ {w} : ~Paying(v, s)' /\ ~Settling(v, s)'
    BY <2>1, <2>3, JobKept DEF Begin, IInv, TypeOK
  <2> QED
    BY <1>3, <2>1, <2>2, <2>4, <2>5 DEF Capture, ChargeOK, Payable
<1> QED
  BY <1>2, <1>3

\* A payment ends, with the invoice paid or not.
LEMMA EndPayment ==
    ASSUME IInv, NEW w \in Workers, Is(w, "pay") \/ Is(w, "settle"), End(w)
    PROVE  /\ \A x : ~Paying(w, x)' /\ ~Settling(w, x)'
           /\ \A v \in Workers \ {w}, x \in Subs :
                  (Paying(v, x)' <=> Paying(v, x)) /\ (Settling(v, x)' <=> Settling(v, x))
<1>1. job'[w] = None /\ \A v \in Workers \ {w} : job'[v] = job[v]
  BY DEF End, IInv, TypeOK
<1> QED
  BY <1>1, JobKept DEF Paying, Settling, Is

\* The invoice of a captured fee is settled, and its payment over, unless another raced.
LEMMA SettleStep ==
    ASSUME IInv, NEW w \in Workers, NEW s \in Subs, Settle(w, s) PROVE ChargesOK'
<1> SUFFICES ASSUME NEW x \in Subs, x \notin raced' PROVE ChargeOK(x)'
  BY DEF ChargesOK
<1>1. x \notin raced /\ ChargeOK(x)
  BY DEF Settle, IInv, ChargesOK
<1>2. Paying(w, s) /\ \A y \in Subs \ {s} : ~Paying(w, y) /\ ~Settling(w, y)
  BY PayingInvoice DEF Settle, Paying, Settling
<1>3. CASE x # s
  <2>1. \A v \in Workers :
            (Paying(v, x)' <=> Paying(v, x)) /\ (Settling(v, x)' <=> Settling(v, x))
    BY <1>2, <1>3, EndPayment DEF Settle
  <2> QED
    BY <1>1, <1>3, <2>1, ChargeKept DEF Settle, IInv, TypeOK, Payable
<1>4. CASE x = s
  <2>1. Payable(s) /\ s \notin checkout
    BY <1>1, <1>2, <1>4 DEF ChargeOK, BeingPaid, Paying
  <2>2. \A v \in Workers \ {w} : ~Paying(v, s)
    BY <1>1, <1>2, <1>4 DEF ChargeOK
  <2>3. charges'[s] <= 1
    <3>1. CASE Is(w, "pay")
      <4>1. \A v \in Workers : ~Settling(v, s)
        BY <2>2, <3>1 DEF Settling, Paying, Is
      <4> QED
        BY <1>1, <1>4, <2>1, <3>1, <4>1 DEF ChargeOK, Settle, IInv, TypeOK
    <3>2. CASE ~Is(w, "pay")
      BY <1>1, <1>4, <3>2 DEF ChargeOK, Settle
    <3> QED
      BY <3>1, <3>2
  <2>4. \A v \in Workers : ~Paying(v, s)'
    BY <2>2, EndPayment DEF Settle
  <2>5. invoice'[s] = "PAID" /\ s \notin checkout'
    BY <2>1 DEF Settle, IInv, TypeOK
  <2> QED
    BY <1>4, <2>3, <2>4, <2>5 DEF ChargeOK, BeingPaid, Paying, Payable
<1> QED
  BY <1>3, <1>4

\* A payment that fails charges nothing.
LEMMA PayFailsStep ==
    ASSUME IInv, NEW w \in Workers, PayFails(w) PROVE ChargesOK'
<1> SUFFICES ASSUME NEW s \in Subs, s \notin raced PROVE ChargeOK(s)'
  BY DEF ChargesOK, PayFails
<1>1. ChargeOK(s)
  BY DEF IInv, ChargesOK
<1>2. ~Settling(w, s)
  BY DEF PayFails, Settling, Is
<1>3. /\ \A v \in Workers : Settling(v, s)' <=> Settling(v, s)
      /\ \A v \in Workers : Paying(v, s)' => Paying(v, s)
  BY <1>2, EndPayment DEF PayFails
<1> QED
  BY <1>1, <1>3 DEF ChargeOK, BeingPaid, Paying, Payable, PayFails

\* A restart drops the payments under way, and marks the fees they were of as raced.
LEMMA RestartStep == ASSUME IInv, Restart PROVE ChargesOK'
<1> SUFFICES ASSUME NEW s \in Subs, s \notin raced' PROVE ChargeOK(s)'
  BY DEF ChargesOK
<1>1. s \notin raced /\ ChargeOK(s) /\ ~BeingPaid(s)
  BY DEF Restart, IInv, ChargesOK
<1>2. \A w \in Workers : ~Paying(w, s) /\ ~Settling(w, s) /\ ~Paying(w, s)' /\ ~Settling(w, s)'
  BY <1>1 DEF Restart, BeingPaid, Paying, Settling, Is
<1> QED
  BY <1>1, <1>2, ChargeKept DEF Restart, BeingPaid, Payable

\* A new subscription has been charged nothing for its invoice, if it has one.
LEMMA SubscribeStep ==
    ASSUME IInv, NEW s \in Subs, NEW mode \in {"FREE", "GATEWAY", "PAY_LATER"},
           Subscribe(s, mode)
    PROVE  ChargesOK'
<1> SUFFICES ASSUME NEW x \in Subs, x \notin raced PROVE ChargeOK(x)'
  BY DEF ChargesOK, Subscribe
<1>1. ChargeOK(x)
  BY DEF IInv, ChargesOK
<1>2. \A w \in Workers :
          (Paying(w, x)' <=> Paying(w, x)) /\ (Settling(w, x)' <=> Settling(w, x))
  BY JobKept DEF Subscribe
<1>3. CASE x # s
  BY <1>1, <1>2, <1>3, ChargeKept DEF Subscribe, IInv, TypeOK, Payable
<1>4. CASE x = s
  <2>1. invoice[s] = "NONE" /\ charges[s] = 0 /\ s \notin checkout
    BY <1>1, <1>4 DEF Subscribe, IInv, RowsOK, ChargeOK
  <2>2. \A w \in Workers : ~Paying(w, s) /\ ~Settling(w, s)
    BY <2>1, PayingInvoice DEF Paying, Settling
  <2> QED
    BY <1>2, <1>4, <2>1, <2>2 DEF Subscribe, ChargeOK, BeingPaid, Paying
<1> QED
  BY <1>3, <1>4

\* Every step keeps what is known of the charges.
LEMMA ChargesStep == ASSUME IInv, [Next]_vars PROVE ChargesOK'
<1>1. ASSUME UNCHANGED <<checkout, charges, raced, job>>,
             UNCHANGED invoice \/ OverdueFlip \/ FeeFlip
      PROVE  ChargesOK'
  BY <1>1, JobKept, InvoicesMove
<1>2. ASSUME NEW w \in Workers, OtherRequest(w) PROVE ChargesOK'
  <2>1. \A v \in Workers, s \in Subs :
            (Paying(v, s)' <=> Paying(v, s)) /\ (Settling(v, s)' <=> Settling(v, s))
    BY <1>2, OtherJobs, JobKept DEF Paying, Settling
  <2> QED
    BY <1>2, <2>1, OtherJobs, InvoicesMove
<1>3. ASSUME NEW s \in Subs, Checkout(s) PROVE ChargesOK'
  BY <1>3, BeginPayment DEF Checkout
<1>4. ASSUME NEW w \in Workers, NEW s \in Subs, BeginPay(w, s) PROVE ChargesOK'
  BY <1>4, BeginPayment DEF BeginPay
<1>5. ASSUME NEW s \in Subs,
             \/ CycleEnds(s) \/ OverdueHold(s) \/ FeeHold(s)
             \/ \E isActive \in BOOLEAN : AdminSwitch(s, isActive)
      PROVE  UNCHANGED <<checkout, charges, raced, job, invoice>>
  BY <1>5 DEF CycleEnds, OverdueHold, FeeHold, AdminSwitch
<1>6. /\ OverdueFlip \/ FeeFlip => UNCHANGED <<checkout, charges, raced, job>>
      /\ OverdueFind \/ FeeFind \/ UNCHANGED vars =>
             UNCHANGED <<checkout, charges, raced, job, invoice>>
  BY DEF OverdueFlip, FeeFlip, OverdueFind, FeeFind, vars
<1> QED
  BY <1>1, <1>2, <1>3, <1>4, <1>5, <1>6, SubscribeStep, CaptureStep, SettleStep, PayFailsStep,
     RestartStep DEF Next, Request, OtherRequest, OverdueCheck, FeeCheck

-----------------------------------------------------------------------------
(* The theorems *)

\* The invariant holds at first.
LEMMA Initially == Init => IInv
BY DEF Init, IInv, TypeOK, Status, Managed, InvoiceStatus, Idle, FlagFollowsStatus, RowsOK,
       JobsOK, CronOK, PaidOK, HeldOK, ChargesOK, ChargeOK, BeingPaid, Payable, Paying, Settling,
       Is

\* Every step keeps the invariant.
LEMMA Inductive == IInv /\ [Next]_vars => IInv'
BY TypeStep, RowsStep, JobsStep, CronStep, PaidStep, HeldStep, ChargesStep DEF IInv

\* The invariant holds in every state.
LEMMA Invariance == Spec => []IInv
BY Initially, Inductive, PTL DEF Spec

\* Every row, invoice, request and daily job keeps its type: no writer stores a status
\* that another does not know.
THEOREM TypeCorrect == Spec => []TypeOK
<1>1. IInv => TypeOK
  BY DEF IInv
<1> QED
  BY <1>1, Invariance, PTL

\* The copy engine's flag is off in every status but ACTIVE, whichever of the writers
\* of a row came last, for any number of requests and daily jobs.
THEOREM CopyFlagFollows == Spec => []FlagFollowsStatus
<1>1. IInv => FlagFollowsStatus
  BY DEF IInv
<1> QED
  BY <1>1, Invariance, PTL

\* A subscription with an OVERDUE invoice is ACTIVE only while the overdue job is about
\* to hold it, unless it was reactivated past the invoice check or forgotten by a restart.
THEOREM OverdueHeld == Spec => []OverdueIsHeld
<1>1. IInv => OverdueIsHeld
  <2>1. ASSUME IInv, NEW s \in cron["overdue"].todo PROVE SeenByCron(s)
    BY <2>1 DEF IInv, CronOK, SeenByCron
  <2> QED
    BY <2>1 DEF IInv, HeldOK, OverdueIsHeld
<1> QED
  BY <1>1, Invariance, PTL

\* Unless a daily job had read the row when the payment came, a paid fee has a PAID
\* invoice and a PAID invoice a paid fee.
THEOREM PaidAgrees == Spec => []PaidIsSettled
<1>1. IInv => PaidIsSettled
  BY DEF IInv, PaidOK, RowsOK, PaidIsSettled
<1> QED
  BY <1>1, Invariance, PTL

\* Nor is it held for funds: what the daily jobs write by id meets a paid subscription
\* only when they had read it before it was paid.
THEOREM PaidIsNotHeld == Spec => []PaidIsHeldOnlyIfRaced
<1>1. IInv => PaidIsHeldOnlyIfRaced
  BY DEF IInv, PaidOK, PaidIsHeldOnlyIfRaced
<1> QED
  BY <1>1, Invariance, PTL

\* A fee is charged at most once, whatever the order of wallet payments, checkouts and
\* captures, unless two of them overlapped or one met a daily job or a restart.
THEOREM ChargedOnce == Spec => []ChargedTwiceOnlyIfRaced
<1>1. IInv => ChargedTwiceOnlyIfRaced
  BY DEF IInv, ChargesOK, ChargeOK, ChargedTwiceOnlyIfRaced
<1> QED
  BY <1>1, Invariance, PTL
-----------------------------------------------------------------------------
(* The steps in the contract *)

\* A request works on rows that exist, and a daily job on rows whose 30 days are over.
RowsExist == \A w \in Workers : job[w] # None => \A s \in job[w].todo : sub[s].status # "NONE"
FoundOver == \A c \in {"overdue", "fee"} : cron[c].found \subseteq ended

KnownOK == RowsExist /\ FoundOver

\* A row is never forgotten.
LEMMA StatusStays ==
    ASSUME IInv, [Next]_vars, NEW s \in Subs, sub[s].status # "NONE"
    PROVE  sub'[s].status # "NONE"
<1> USE DEF IInv
<1>1. ASSUME NEW r \in Subs, NEW mode \in {"FREE", "GATEWAY", "PAY_LATER"}, Subscribe(r, mode)
      PROVE  sub'[s] = sub[s]
  BY <1>1 DEF Subscribe, TypeOK
<1>2. ASSUME NEW w \in Workers, NEW r \in Subs, Settle(w, r) PROVE sub'[s].status # "NONE"
  BY <1>2 DEF Settle, PaidRow, TypeOK
<1>3. ASSUME NEW r \in Subs, Rewritten(r) PROVE sub'[s].status # "NONE"
  BY <1>3 DEF Rewritten, Write, TypeOK
<1>4. ASSUME NEW r \in Subs, Held(r) PROVE sub'[s].status # "NONE"
  BY <1>4 DEF Held, HoldIfActive, Hold, TypeOK
<1>5. ASSUME NEW r \in Subs, CycleEnds(r) \/ Checkout(r) PROVE sub' = sub
  BY <1>5 DEF CycleEnds, Checkout
<1>6. ASSUME NEW w \in Workers, NEW r \in Subs, Capture(w, r) PROVE sub' = sub
  BY <1>6 DEF Capture
<1>7. OverdueFlip \/ FeeFlip \/ RowsKept => sub' = sub
  BY DEF OverdueFlip, FeeFlip, RowsKept
<1> QED
  BY <1>1, <1>2, <1>3, <1>4, <1>5, <1>6, <1>7, Moves, HeldBy, KeptBy

\* Requests begin with rows that exist.
LEMMA RowsExistStep == ASSUME IInv, KnownOK, [Next]_vars PROVE RowsExist'
<1> USE DEF IInv, KnownOK, RowsExist
<1>0. \A w \in Workers : job[w] # None => job[w].todo \subseteq Subs
  BY JobType DEF Jobs
<1>1. ASSUME UNCHANGED job PROVE RowsExist'
  BY <1>0, <1>1, StatusStays
<1>2. ASSUME NEW w \in Workers, NEW kind, NEW todo \in SUBSET Subs, Begin(w, kind, todo),
             \A s \in todo : sub[s].status # "NONE"
      PROVE  RowsExist'
  <2>1. job'[w].todo = todo /\ \A v \in Workers \ {w} : job'[v] = job[v]
    BY <1>2 DEF Begin, TypeOK
  <2> QED
    BY <1>0, <1>2, <2>1, StatusStays
<1>3. ASSUME NEW w \in Workers, End(w) PROVE RowsExist'
  BY <1>0, <1>3, StatusStays DEF End, TypeOK
<1>4. ASSUME NEW w \in Workers, job[w] # None,
             job'[w] # None => job'[w].todo \subseteq job[w].todo,
             \A v \in Workers \ {w} : job'[v] = job[v]
      PROVE  RowsExist'
  BY <1>0, <1>4, StatusStays
<1>5. ASSUME NEW w \in Workers, NEW s \in Subs, Cancel(w, s) \/ Connect(w, s) PROVE RowsExist'
  <2>1. job[w] \in Jobs /\ job[w] # None
    BY <1>5, JobType DEF Cancel, Connect, Is
  <2> DEFINE left == [job[w] EXCEPT !.todo = @ \ {s}]
  <2>2. left.todo \subseteq job[w].todo
    BY <2>1 DEF Jobs
  <2>3. job' \in {[job EXCEPT ![w] = None], [job EXCEPT ![w] = left]}
    BY <1>5 DEF Cancel, Connect, Done
  <2> HIDE DEF left
  <2> QED
    BY <1>4, <2>1, <2>2, <2>3 DEF TypeOK
<1>6. ASSUME NEW w \in Workers, NEW s \in Subs, Check(w, s) \/ Reread(w, s) PROVE RowsExist'
  <2>1. job[w] \in Jobs /\ job[w] # None
    BY <1>6, JobType DEF Check, Reread, Is
  <2>2. \A v \in Workers \ {w} : job'[v] = job[v]
    BY <1>6 DEF Check, Reread, Continue, End, TypeOK
  <2>3. job'[w] = None \/ job'[w].todo = job[w].todo
    BY <1>6, <2>1 DEF Check, Reread, Continue, End, TypeOK, Jobs
  <2> QED
    BY <1>4, <2>1, <2>2, <2>3
<1>7. ASSUME NEW w \in Workers, NEW s \in Subs,
             \/ \E kind \in {"deploy", "resume", "pause"} : BeginChange(w, kind, s)
             \/ BeginPay(w, s) \/ Capture(w, s)
      PROVE  RowsExist'
  <2>1. ASSUME NEW kind \in {"deploy", "resume", "pause"}, BeginChange(w, kind, s)
        PROVE  RowsExist'
    <3>1. sub[s].status # "NONE" /\ Begin(w, kind, {s})
      BY <2>1 DEF BeginChange, Managed
    <3> QED
      BY <1>2, <3>1
  <2>2. Payable(s) => sub[s].status # "NONE"
    BY DEF Payable, RowsOK
  <2>3. CASE BeginPay(w, s) \/ Capture(w, s)
    BY <1>1, <1>2, <2>2, <2>3 DEF BeginPay, Capture
  <2> QED
    BY <1>7, <2>1, <2>3
<1>8. ASSUME NEW w \in Workers, NEW todo \in SUBSET Subs, BeginCancel(w, todo)
      PROVE  RowsExist'
  <2>1. \A s \in todo : sub[s].status # "NONE"
    BY <1>8 DEF BeginCancel, Managed
  <2> QED
    BY <1>2, <1>8, <2>1 DEF BeginCancel
<1>9. ASSUME NEW w \in Workers, NEW u \in Users, BeginConnect(w, u) PROVE RowsExist'
  BY <1>2, <1>9 DEF BeginConnect
<1>10. ASSUME NEW w \in Workers,
              \/ BotFails(w) \/ PayFails(w)
              \/ \E s \in Subs : Activate(w, s) \/ Pause(w, s) \/ Settle(w, s)
       PROVE  RowsExist'
  BY <1>3, <1>10 DEF BotFails, PayFails, Activate, Pause, Settle
<1>11. ASSUME NEW s \in Subs,
              \/ \E mode \in {"FREE", "GATEWAY", "PAY_LATER"} : Subscribe(s, mode)
              \/ CycleEnds(s) \/ Checkout(s) \/ OverdueHold(s) \/ FeeHold(s)
              \/ \E isActive \in BOOLEAN : AdminSwitch(s, isActive)
       PROVE  UNCHANGED job
  BY <1>11 DEF Subscribe, CycleEnds, Checkout, OverdueHold, FeeHold, AdminSwitch
<1>12. OverdueFind \/ OverdueFlip \/ FeeFind \/ FeeFlip \/ UNCHANGED vars => UNCHANGED job
  BY DEF OverdueFind, OverdueFlip, FeeFind, FeeFlip, vars
<1>13. Restart => RowsExist'
  BY DEF Restart
<1> QED
  BY <1>1, <1>5, <1>6, <1>7, <1>8, <1>9, <1>10, <1>11, <1>12, <1>13
     DEF Next, Request, OverdueCheck, FeeCheck

\* A daily job finds rows whose 30 days are over.
LEMMA FoundOverStep == ASSUME IInv, KnownOK, [Next]_vars PROVE FoundOver'
<1> USE DEF IInv, KnownOK, FoundOver
<1>1. ASSUME UNCHANGED cron PROVE FoundOver'
  BY <1>1, InvoiceStays
<1>2. OverdueFind \/ FeeFind => FoundOver'
  BY DEF OverdueFind, FeeFind, Expired, TypeOK
<1>3. OverdueFlip \/ FeeFlip => FoundOver'
  <2>1. ASSUME OverdueFlip PROVE cron'["overdue"].found = cron["overdue"].found
    BY <2>1, RunType DEF OverdueFlip, TypeOK, Runs
  <2> QED
    BY <2>1, InvoiceStays DEF OverdueFlip, FeeFlip, Rest, Idle, TypeOK
<1>4. ASSUME NEW s \in Subs, OverdueHold(s) PROVE FoundOver'
  <2>1. cron["overdue"] \in Runs
    BY <1>4, RunType DEF OverdueHold
  <2>2. cron'["overdue"].found \subseteq cron["overdue"].found
    BY <1>4, <2>1 DEF OverdueHold, Rest, Idle, TypeOK, Runs
  <2> QED
    BY <1>4, <2>2, InvoiceStays DEF OverdueHold, TypeOK
<1>5. ASSUME NEW s \in Subs, FeeHold(s) PROVE FoundOver'
  <2>1. cron["fee"] \in Runs
    BY <1>5, RunType DEF FeeHold
  <2>2. cron'["fee"].found = cron["fee"].found
    BY <1>5, <2>1 DEF FeeHold, TypeOK, Runs
  <2> QED
    BY <1>5, <2>2, InvoiceStays DEF FeeHold, TypeOK
<1>6. Restart => FoundOver'
  BY DEF Restart, Idle
<1>7. ASSUME NEW s \in Subs, CycleEnds(s) \/ Checkout(s) \/ Rewritten(s) PROVE UNCHANGED cron
  BY <1>7 DEF CycleEnds, Checkout, Rewritten
<1>8. ASSUME NEW s \in Subs, NEW mode \in {"FREE", "GATEWAY", "PAY_LATER"}, Subscribe(s, mode)
      PROVE  UNCHANGED cron
  BY <1>8 DEF Subscribe
<1>9. ASSUME NEW w \in Workers, NEW s \in Subs, Capture(w, s) \/ Settle(w, s)
      PROVE  UNCHANGED cron
  BY <1>9 DEF Capture, Settle
<1> QED
  BY <1>1, <1>2, <1>3, <1>4, <1>5, <1>6, <1>7, <1>8, <1>9, Moves DEF Kept
\* A step that leaves the rows alone.
LEMMA KeptInContract ==
    ASSUME IInv', UNCHANGED <<sub, invoice, ended, charges>>, raced \subseteq raced'
    PROVE  Contract!Next
<1>1. raced' \in SUBSET Subs /\ raced' = raced \cup raced'
  BY DEF IInv, TypeOK
<1>2. Contract!Cross(raced')
  BY <1>1 DEF Contract!Cross, StatusOf, FeeOf
<1> QED
  BY <1>1, <1>2 DEF Contract!Next

\* A subscription that is made.
LEMMA SubscribeInContract ==
    ASSUME IInv, NEW s \in Subs, NEW mode \in {"FREE", "GATEWAY", "PAY_LATER"},
           Subscribe(s, mode)
    PROVE  Contract!Next
<1> USE DEF IInv
<1>1. StatusOf[s] = "NONE" /\ invoice[s] = "NONE" /\ sub[s].status = "NONE"
  BY DEF Subscribe, StatusOf, RowsOK
<1>2. PICK new \in {"ACTIVE", "PAUSED_DUE_TO_FUNDS"} :
          new = IF mode = "GATEWAY" THEN "PAUSED_DUE_TO_FUNDS" ELSE "ACTIVE"
  OBVIOUS
<1>3. sub'[s].status = new /\ \A r \in Subs \ {s} : sub'[r] = sub[r]
  BY <1>2 DEF Subscribe, TypeOK
<1>4. StatusOf' = [StatusOf EXCEPT ![s] = new]
  BY <1>3 DEF StatusOf
<1>5. CASE mode = "PAY_LATER"
  <2>1. invoice' = [invoice EXCEPT ![s] = "PENDING"]
    BY <1>5 DEF Subscribe
  <2>2. FeeOf' = [FeeOf EXCEPT ![s] = "DUE"]
    BY <2>1 DEF FeeOf, TypeOK
  <2>3. Contract!Offer(s)
    BY <1>1, <1>4, <2>2 DEF Contract!Offer, Subscribe
  <2> QED
    BY <2>3 DEF Contract!Next
<1>6. CASE mode # "PAY_LATER"
  <2>1. invoice' = invoice
    BY <1>1, <1>6 DEF Subscribe, TypeOK
  <2>2. FeeOf' = FeeOf
    BY <2>1 DEF FeeOf
  <2>3. Contract!Offer(s)
    BY <1>1, <1>4, <2>2 DEF Contract!Offer, Subscribe
  <2> QED
    BY <2>3 DEF Contract!Next
<1> QED
  BY <1>5, <1>6

\* A row that is rewritten.
LEMMA RewrittenInContract ==
    ASSUME IInv, NEW s \in Subs, Rewritten(s), sub[s].status # "NONE"
    PROVE  Contract!Next \/ UNCHANGED Contract!vars
<1> USE DEF IInv
<1>1. FeeOf' = FeeOf /\ UNCHANGED <<charges, ended, raced>>
  BY DEF Rewritten, FeeOf
<1>2. PICK status \in Status :
          /\ \E isActive \in BOOLEAN : Write(s, status, isActive)
          /\ status \in {"NONE", "PAUSED_DUE_TO_FUNDS"} => status = sub[s].status
  BY DEF Rewritten
<1>3. sub'[s].status = status /\ \A r \in Subs \ {s} : sub'[r] = sub[r]
  BY <1>2 DEF Write, TypeOK
<1>4. StatusOf' = [StatusOf EXCEPT ![s] = status]
  BY <1>3 DEF StatusOf
<1>5. CASE status = sub[s].status
  <2>1. StatusOf' = StatusOf
    BY <1>4, <1>5 DEF StatusOf
  <2> QED
    BY <1>1, <2>1 DEF Contract!vars
<1>6. CASE status # sub[s].status
  <2>1. status \in {"ACTIVE", "PAUSED_BY_USER", "CANCELLED"}
    BY <1>2, <1>6 DEF Status, Managed
  <2>2. Contract!Change(s)
    BY <1>1, <1>4, <2>1 DEF Contract!Change, StatusOf
  <2> QED
    BY <2>2 DEF Contract!Next
<1> QED
  BY <1>5, <1>6

\* The requests that rewrite a row rewrite one that exists.
LEMMA ChangeInContract ==
    ASSUME IInv, KnownOK, NEW s \in Subs,
           \/ \E w \in Workers : Activate(w, s) \/ Pause(w, s) \/ Cancel(w, s) \/ Connect(w, s)
           \/ \E isActive \in BOOLEAN : AdminSwitch(s, isActive)
    PROVE  Contract!Next \/ UNCHANGED Contract!vars
<1>1. sub[s].status # "NONE"
  BY DEF Activate, Pause, Cancel, Connect, AdminSwitch, Is, KnownOK, RowsExist
<1> QED
  BY <1>1, RewrittenBy, RewrittenInContract

\* The fee of a row in the contract.
LEMMA FeeIs ==
    ASSUME IInv, NEW s \in Subs
    PROVE  /\ FeeOf[s] = "NONE" <=> invoice[s] = "NONE"
           /\ FeeOf[s] = "PAID" <=> invoice[s] = "PAID"
           /\ FeeOf[s] = "DUE" <=> Payable(s)
BY DEF IInv, TypeOK, InvoiceStatus, FeeOf, Payable

\* The gateway takes the fee.
LEMMA CaptureInContract ==
    ASSUME IInv, NEW w \in Workers, NEW s \in Subs, Capture(w, s)
    PROVE  Contract!Next
<1> USE DEF IInv
<1>1. FeeOf[s] # "NONE"
  BY FeeIs DEF Capture, RowsOK
<1>2. ASSUME s \notin raced PROVE FeeOf[s] = "DUE" /\ charges[s] = 0
  <2>1. ChargeOK(s) /\ s \in checkout /\ BeingPaid(s)
    BY <1>2 DEF ChargesOK, Capture, BeingPaid
  <2>2. Payable(s) /\ \A v \in Workers : ~Settling(v, s)
    BY <2>1 DEF ChargeOK, Paying, Settling
  <2> QED
    BY <2>1, <2>2, FeeIs DEF ChargeOK
<1>3. StatusOf' = StatusOf /\ FeeOf' = FeeOf
  BY DEF Capture, StatusOf, FeeOf
<1>4. Contract!Take(s)
  BY <1>1, <1>2, <1>3 DEF Capture, Contract!Take, Contract!Untaken
<1> QED
  BY <1>4 DEF Contract!Next

\* A payment ends, from the wallet or after the gateway.
LEMMA SettleInContract ==
    ASSUME IInv, NEW w \in Workers, NEW s \in Subs, Settle(w, s)
    PROVE  Contract!Next
<1> USE DEF IInv
<1>1. Paying(w, s) /\ job[w] # None
  BY DEF Settle, Paying, Is
<1>2. FeeOf[s] # "NONE"
  BY <1>1, FeeIs DEF JobsOK, Paying, Is
<1>3. ASSUME s \notin raced
      PROVE  /\ FeeOf[s] = "DUE"
             /\ Is(w, "settle") => charges[s] = 1
             /\ Is(w, "pay") => charges[s] = 0
  <2>1. ChargeOK(s) /\ BeingPaid(s)
    BY <1>1, <1>3 DEF ChargesOK, BeingPaid, Paying
  <2>2. Payable(s)
    BY <2>1 DEF ChargeOK
  <2>3. Is(w, "settle") => Settling(w, s)
    BY <1>1 DEF Settling, Paying
  <2>4. \A v \in Workers : Settling(v, s) => v = w
    BY <1>1, <2>1 DEF ChargeOK, Settling, Paying
  <2>5. Is(w, "pay") => ~Settling(w, s)
    BY DEF Is, Settling
  <2> QED
    BY <2>1, <2>2, <2>3, <2>4, <2>5, FeeIs DEF ChargeOK
<1>4. FeeOf' = [FeeOf EXCEPT ![s] = "PAID"]
  BY DEF Settle, FeeOf, TypeOK
<1>5. StatusOf' = [StatusOf EXCEPT ![s] = "ACTIVE"]
  BY DEF Settle, PaidRow, StatusOf, TypeOK
<1>6. \/ Is(w, "settle") /\ ~Is(w, "pay") /\ charges' = charges
      \/ Is(w, "pay") /\ charges' = [charges EXCEPT ![s] = charges[s] + 1]
  BY <1>1 DEF Settle, Is, Paying
<1>7. raced' \in {raced, raced \cup {s}} /\ ended' = ended
  BY DEF Settle
<1>8. Contract!Settle(s)
  BY <1>2, <1>3, <1>4, <1>5, <1>6, <1>7
     DEF Contract!Settle, Contract!TakenAndDue, Contract!Untaken
<1> QED
  BY <1>8 DEF Contract!Next

\* A daily job holds a subscription.
LEMMA HoldInContract ==
    ASSUME IInv, KnownOK, NEW s \in Subs, OverdueHold(s) \/ FeeHold(s)
    PROVE  Contract!Next \/ UNCHANGED Contract!vars
<1> USE DEF IInv
<1>1. PICK c \in {"overdue", "fee"} : s \in cron[c].todo
  BY DEF OverdueHold, FeeHold
<1>2. s \in cron[c].found
  BY <1>1 DEF CronOK
<1>3. s \in ended /\ invoice[s] # "NONE"
  BY <1>2 DEF CronOK, KnownOK, FoundOver
<1>4. s \notin raced => FeeOf[s] = "DUE"
  <2>1. ASSUME s \notin raced PROVE Payable(s)
    <3>1. ~sub[s].feePaid
      BY <1>1, <2>1 DEF PaidOK
    <3> QED
      BY <1>3, <3>1 DEF RowsOK, Payable, TypeOK, InvoiceStatus
  <2> QED
    BY <2>1, FeeIs
<1>5. Held(s)
  BY HeldBy
<1>6. UNCHANGED <<charges, ended, raced>> /\ FeeOf' = FeeOf
  BY <1>5 DEF Held, FeeOf
<1>7. CASE sub[s].status = "ACTIVE"
  <2>1. /\ sub'[s].status = "PAUSED_DUE_TO_FUNDS"
        /\ \A r \in Subs \ {s} : sub'[r] = sub[r]
    BY <1>5, <1>7 DEF Held, HoldIfActive, Hold, TypeOK
  <2>2. StatusOf' = [StatusOf EXCEPT ![s] = "PAUSED_DUE_TO_FUNDS"]
    BY <2>1 DEF StatusOf
  <2>3. Contract!Hold(s)
    BY <1>3, <1>4, <1>6, <1>7, <2>2 DEF Contract!Hold, StatusOf
  <2> QED
    BY <2>3 DEF Contract!Next
<1>8. CASE sub[s].status # "ACTIVE"
  <2>1. sub' = sub
    BY <1>5, <1>8 DEF Held, HoldIfActive, TypeOK
  <2> QED
    BY <1>6, <2>1 DEF Contract!vars, StatusOf
<1> QED
  BY <1>7, <1>8

\* The overdue job marks what it had found: a fee that was paid since is raced.
LEMMA FlipInContract ==
    ASSUME IInv, OverdueFlip
    PROVE  Contract!Next
<1> USE DEF IInv
<1> DEFINE paid == { s \in cron["overdue"].found \cap Subs : invoice[s] = "PAID" }
<1>1. \A s \in paid : s \in raced /\ FeeOf[s] = "PAID"
  BY FeeIs DEF PaidOK, OverdueFlip, Payable
<1>2. \A s \in Subs : FeeOf'[s] = IF s \in paid THEN "DUE" ELSE FeeOf[s]
  BY DEF OverdueFlip, FeeOf, CronOK
<1>3. paid \in SUBSET Subs
  OBVIOUS
<1> HIDE DEF paid
<1>4. FeeOf' = [s \in Subs |-> IF s \in paid THEN "DUE" ELSE FeeOf[s]]
  BY <1>2 DEF FeeOf
<1>5. StatusOf' = StatusOf /\ UNCHANGED <<charges, ended, raced>>
  BY DEF OverdueFlip, StatusOf
<1>6. Contract!Reopen(paid)
  BY <1>1, <1>4, <1>5 DEF Contract!Reopen
<1> QED
  BY <1>3, <1>6 DEF Contract!Next

\* Every step is one of the contract, or none.
LEMMA NextInContract ==
    ASSUME IInv, IInv', KnownOK, [Next]_vars
    PROVE  Contract!Next \/ UNCHANGED Contract!vars
<1> USE DEF IInv
<1>1. ASSUME RowsKept PROVE Contract!Next
  BY <1>1, RacedStays, KeptInContract DEF RowsKept
<1>2. ASSUME NEW w \in Workers, NEW s \in Subs,
             \/ \E kind \in {"deploy", "resume", "pause"} : BeginChange(w, kind, s)
             \/ BeginPay(w, s) \/ Check(w, s) \/ Reread(w, s)
      PROVE  RowsKept
  BY <1>2 DEF BeginChange, BeginPay, Check, Reread, RowsKept
<1>3. ASSUME NEW w \in Workers,
             \/ \E todo \in SUBSET Subs : BeginCancel(w, todo)
             \/ \E u \in Users : BeginConnect(w, u)
             \/ BotFails(w) \/ PayFails(w)
      PROVE  RowsKept
  BY <1>3 DEF BeginCancel, BeginConnect, BotFails, PayFails, RowsKept
<1>4. ASSUME NEW s \in Subs, Checkout(s) PROVE Contract!Next
  BY <1>4, RacedStays, KeptInContract DEF Checkout
<1>5. OverdueFind \/ FeeFind \/ Restart \/ UNCHANGED vars => RowsKept
  BY DEF OverdueFind, FeeFind, Restart, vars, RowsKept
<1>6. ASSUME NEW s \in Subs, CycleEnds(s) PROVE Contract!Next
  <2>1. Contract!DaysEnd(s)
    BY <1>6, FeeIs DEF CycleEnds, Contract!DaysEnd, StatusOf, FeeOf
  <2> QED
    BY <2>1 DEF Contract!Next
<1>7. ASSUME FeeFlip PROVE UNCHANGED Contract!vars
  <2>1. \A s \in Subs : FeeOf'[s] = FeeOf[s]
    BY <1>7 DEF FeeFlip, FeeOf
  <2>2. FeeOf' = FeeOf
    BY <2>1 DEF FeeOf
  <2> QED
    BY <1>7, <2>2 DEF FeeFlip, Contract!vars, StatusOf
<1>8. ASSUME NEW s \in Subs,
             \/ \E w \in Workers : Activate(w, s) \/ Pause(w, s) \/ Cancel(w, s) \/ Connect(w, s)
             \/ \E isActive \in BOOLEAN : AdminSwitch(s, isActive)
      PROVE  Contract!Next \/ UNCHANGED Contract!vars
  BY <1>8, ChangeInContract
<1> QED
  BY <1>1, <1>2, <1>3, <1>4, <1>5, <1>6, <1>7, <1>8, SubscribeInContract, CaptureInContract,
     SettleInContract, HoldInContract, FlipInContract
     DEF Next, Request, OverdueCheck, FeeCheck

\* Requests and daily jobs that read first and write later have the effect of steps taken
\* at once: a fee is taken once and settled, and a subscription is held only for a fee
\* that is due, unless its payments crossed one another, a daily job or a restart.
THEOREM BillingImplementsContract == Spec => ImplementsContract
<1>1. Init => KnownOK
  BY DEF Init, KnownOK, RowsExist, FoundOver, Idle
<1>2. Init => Contract!Init
  BY DEF Init, Contract!Init, StatusOf, FeeOf
<1>3. IInv /\ KnownOK /\ [Next]_vars => KnownOK'
  BY RowsExistStep, FoundOverStep DEF KnownOK
<1>4. IInv /\ IInv' /\ KnownOK /\ [Next]_vars => [Contract!Next]_(Contract!vars)
  BY NextInContract
<1> QED
  BY Invariance, <1>1, <1>2, <1>3, <1>4, PTL DEF Spec, ImplementsContract, Contract!Spec
=============================================================================
