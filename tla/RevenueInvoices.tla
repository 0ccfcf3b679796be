-------------------------- MODULE RevenueInvoices --------------------------
(***************************************************************************)
(* The monthly revenue invoices of one customer and what runs over them:   *)
(* structureRevenueService.ts (an invoice's computation, the recompute     *)
(* chain, the monthly passes), billingCronService.ts (the hourly final     *)
(* invoice and late ledger jobs), deltaLedgerService.ts (the rows they     *)
(* count) and structurePnlService.ts (the structures made of them).        *)
(*                                                                         *)
(* A row of the exchange's ledger closes one structure; its contribution   *)
(* to the lifetime profit is a small integer.  An invoice keeps the mark   *)
(* before and after its month; what is billed is after - before.  The      *)
(* profit share, exchange rates, simulated rows and the alerts about late  *)
(* data in a frozen month are left out; a missing share is a free failure. *)
(*                                                                         *)
(* Atomicity.  Nothing here runs in a transaction except a change of       *)
(* status.  A job reads the invoice of its month, then the profit to date, *)
(* then the mark of the month before, and writes the row later by id, with *)
(* status ACCRUED: each read is a step, and so is the write.  Jobs overlap *)
(* with each other, since each is guarded only against itself.  Two        *)
(* overlapping changes of status are the subject of CommissionLedger; here *)
(* a change is one step.  The customer has no partner, whose commission    *)
(* rows would refuse a second issue.                                       *)
(***************************************************************************)
EXTENDS Integers, FiniteSetsExt

CONSTANTS
    NPeriods,     \* months, in order
    NRows,        \* ledger rows, in the order their structures close
    MonthOf, AmountOf,
    Workers,      \* passes and chains that run at the same time
    Final,        \* the slot of the final-invoice job, beside the workers
    None,
    Cancellations, \* bound: months in which the customer may cancel
    Kinds,        \* bound: the kinds of passes and chains explored
    MaxJobs,      \* bound: passes and chains explored, beside final-invoice jobs
    MaxRestarts

ASSUME SizesAssumption ==
    NPeriods \in Nat \ {0} /\ {NRows, MaxJobs, MaxRestarts} \subseteq Nat
ASSUME SlotAssumption == Final \notin Workers
ASSUME CancellationsAssumption == Cancellations \subseteq 1..NPeriods

Periods == 1..NPeriods
Rows == 1..NRows
Slots == Workers \cup {Final}

ASSUME RowAssumption == MonthOf \in [Rows -> Periods] /\ AmountOf \in [Rows -> Int]

VARIABLES
    month,       \* the current month
    ledger,      \* rows stored as DeltaLedgerEntry
    structures,  \* rows counted in StructurePnl
    invoice,     \* invoice[p]: the MonthlyRevenueInvoice row, or None
    pending,     \* pendingFinalInvoicePeriod of the user, or None
    flagged,     \* deltaLedgerRecomputeRequired
    sweep,       \* the row the deep sweep has stored and not yet looked at, or None
    job,         \* job[s]: what slot s is doing
    begun,       \* passes and chains begun
    restarts,
    \* history
    raced,       \* periods issued or voided while a job had them as open
    late,        \* rows swept into an invoiced month, not yet recomputed
    excused,     \* late rows whose flag or refresh was cut off
    alerted,     \* final invoices given up with an alert since they were scheduled
    lost         \* final invoices nobody makes or reports: their schedule went to another

ledgerVars == <<ledger, structures>>
lateVars == <<flagged, sweep, late, excused>>
finalVars == <<pending, alerted, lost>>
bounds == <<begun, restarts>>
vars == <<month, ledgerVars, lateVars, invoice, finalVars, job, bounds, raced>>

Status == {"ACCRUED", "INVOICED", "PAID", "VOID"}
Invoice == [status : Status, before : Int, after : Int, final : BOOLEAN]

Glimpse == [frozen : BOOLEAN, after : Int]

Passes == {"final", "compute", "issue"}
Chains == {"late", "chain"}

Job == [op : Passes \cup Chains,
        pc : {"profit", "mark", "rebuild", "write", "end"},
        period : Periods \cup {None},            \* the month, or the next one of a chain
        seen : [Periods -> Glimpse \cup {None}], \* the invoices it has read
        profit : Int \cup {None},                \* cumulativeRealizedPnl, once read
        carry : Int \cup {None},                 \* hwmCarry, or hwmBefore once read
        counted : SUBSET Rows]                   \* structures when a chain began

ASSUME NoneAssumption == None \notin Invoice \cup Job \cup Glimpse \cup Int

TypeOK ==
    /\ month \in Periods
    /\ ledger \subseteq Rows /\ structures \subseteq ledger
    /\ invoice \in [Periods -> Invoice \cup {None}]
    /\ pending \in Periods \cup {None}
    /\ flagged \in BOOLEAN /\ sweep \in Rows \cup {None}
    /\ job \in [Slots -> Job \cup {None}]
    /\ begun \in 0..MaxJobs /\ restarts \in 0..MaxRestarts
    /\ raced \subseteq Periods /\ alerted \subseteq Periods /\ lost \subseteq Periods
    /\ late \subseteq Rows /\ excused \subseteq Rows

NothingSeen == [p \in Periods |-> None]

Init ==
    /\ month = 1
    /\ ledger = {} /\ structures = {}
    /\ invoice = NothingSeen
    /\ pending = None /\ flagged = FALSE /\ sweep = None
    /\ job = [s \in Slots |-> None]
    /\ begun = 0 /\ restarts = 0
    /\ raced = {} /\ late = {} /\ excused = {} /\ alerted = {} /\ lost = {}

-----------------------------------------------------------------------------
(* Helpers *)

Fresh(op, pc, p) ==
    [op |-> op, pc |-> pc, period |-> p, seen |-> NothingSeen,
     profit |-> None, carry |-> None, counted |-> {}]
Begin(s, j) == job[s] = None /\ job' = [job EXCEPT ![s] = j]
BeginWork(w, j) == j.op \in Kinds /\ begun < MaxJobs /\ Begin(w, j) /\ begun' = begun + 1
Runs(s, ops) == job[s] # None /\ job[s].op \in ops
At(s, ops, pc) == Runs(s, ops) /\ job[s].pc = pc
End(s) == job' = [job EXCEPT ![s] = None]

\* Deviation, for the mutation of Frozen: a PAID invoice is computed again.
FrozenUnlessPaid(row) == row # None /\ row.status \in {"INVOICED", "VOID"}

\* isInvoiceFrozen
Frozen(row) == row # None /\ row.status \in {"INVOICED", "PAID", "VOID"}

Larger(a, b) == IF a >= b THEN a ELSE b
Profit(rows) == MapThenSumSet(LAMBDA r : AmountOf[r], rows)

\* lifetimeCumulativeRealizedToDate
Cumulative(p) == Profit({r \in structures : MonthOf[r] <= p})

\* The peak of the lifetime profit over structures, one by one.
Peak(rows) == Max({0} \cup {Profit({q \in rows : q <= r}) : r \in rows})

\* runningHwmBeforeMonthStart
RunningMark(p) == Peak({r \in structures : MonthOf[r] < p})

\* Deviation, for the mutation of PriorMark: the stored mark is not consulted.
PriorMarkRebuilt(p) == RunningMark(p)

\* resolveHwmBeforeForPeriod, of a month whose predecessor has an invoice.
PriorMark(p) == Larger(0, invoice[p - 1].after)

\* The row a computation writes: the figures it has read, always ACCRUED.
Accrue(p, before, profit) ==
    [status |-> "ACCRUED", before |-> before, after |-> Larger(before, profit),
     final |-> IF invoice[p] = None THEN FALSE ELSE invoice[p].final]

GlimpseOf(p) ==
    IF invoice[p] = None THEN None
    ELSE [frozen |-> Frozen(invoice[p]), after |-> invoice[p].after]

\* A job read p as missing or open.
OpenWhenRead(s, p) == job[s].seen[p] # None => ~job[s].seen[p].frozen

\* Jobs that have read p as open and may still write it: a pass its own month, a chain
\* every month from the one it has come to.
HoldsOpen(s, p) ==
    /\ job[s] # None /\ job[s].pc # "end" /\ OpenWhenRead(s, p)
    /\ job[s].period = p \/ (job[s].op \in Chains /\ job[s].period < p)

\* Jobs about to write the month after p that had read p as missing or open.
Relies(s, p) ==
    /\ At(s, Passes \cup Chains, "write")
    /\ job[s].period = p + 1 /\ OpenWhenRead(s, p)

\* Jobs that have read p as missing or open and are to write a later month: a pass once it
\* has looked for the mark, a chain from its beginning until it is past the next month.
HasRead(s, p) ==
    /\ job[s] # None /\ OpenWhenRead(s, p)
    /\ \/ /\ job[s].op \in Passes /\ job[s].pc \in {"rebuild", "write"}
          /\ job[s].period = p + 1
       \/ /\ job[s].op \in Chains /\ job[s].pc # "end"
          /\ job[s].period <= p + 1

\* A row read as missing is created, and the unique key refuses a second one.
Refused(exists, p) == ~exists /\ invoice[p] # None
Save(exists, p, row) == ~Refused(exists, p) /\ invoice' = [invoice EXCEPT ![p] = row]

LateJobRuns == \E w \in Workers : Runs(w, {"late"})

\* The final-invoice job is at work on month p.
Making(p) == Runs(Final, {"final"}) /\ job[Final].period = p

-----------------------------------------------------------------------------
(* Time and the ledger *)

NextMonth ==
    /\ month < NPeriods
    /\ month' = month + 1
    /\ UNCHANGED <<ledgerVars, lateVars, invoice, finalVars, job, bounds, raced>>

\* A row of the five-minute sync, or of the sync a job begins with.
LedgerSync(r) ==
    /\ r \in Rows \ ledger /\ MonthOf[r] <= month
    /\ ledger' = ledger \cup {r}
    /\ UNCHANGED <<month, structures, lateVars, invoice, finalVars, job, bounds, raced>>

\* The deep sweep stores a row, then looks for the invoice of its month and flags the user.
SweepInsert(r) ==
    /\ sweep = None
    /\ r \in Rows \ ledger /\ MonthOf[r] <= month
    /\ ledger' = ledger \cup {r}
    /\ sweep' = r
    /\ late' = IF invoice[MonthOf[r]] = None THEN late ELSE late \cup {r}
    /\ UNCHANGED <<month, structures, flagged, excused, invoice, finalVars, job, bounds, raced>>

\* Deviation, for the mutation of SweepFlag: only a frozen invoice is thought to need it.
SweepFlagFrozenOnly ==
    /\ sweep # None
    /\ flagged' = (flagged \/ Frozen(invoice[MonthOf[sweep]]))
    /\ sweep' = None
    /\ UNCHANGED <<month, late, excused, ledgerVars, invoice, finalVars, job, bounds, raced>>

\* flagLateRowIfInvoicedPeriod.  A late job under way may not count the row and will
\* clear the flag all the same.
SweepFlag ==
    /\ sweep # None
    /\ IF invoice[MonthOf[sweep]] = None
       THEN UNCHANGED <<flagged, late, excused>>
       ELSE /\ flagged' = TRUE
            /\ late' = late \cup {sweep}
            /\ excused' = IF LateJobRuns THEN excused \cup {sweep} ELSE excused
    /\ sweep' = None
    /\ UNCHANGED <<month, ledgerVars, invoice, finalVars, job, bounds, raced>>

\* By a job of its own, or at the start of a job below.  Those begin with a sync and a
\* recomputation that catch their errors: both may have happened by then, or not.
RecomputeStructures ==
    /\ structures' = ledger
    /\ UNCHANGED <<month, ledger, lateVars, invoice, finalVars, job, bounds, raced>>

-----------------------------------------------------------------------------
(* computeMonthlyRevenueInvoiceForUser and the jobs that call it *)

\* A monthly pass over month p, from the cron or from an admin, leaves a frozen invoice.
MonthlyRead(w, p, op) ==
    /\ p <= month /\ ~Frozen(invoice[p])
    /\ BeginWork(w, [Fresh(op, "profit", p) EXCEPT !.seen[p] = GlimpseOf(p)])
    /\ UNCHANGED <<month, ledgerVars, lateVars, invoice, finalVars, restarts, raced>>

\* Hourly, a day after the cancellation: the pending month and its invoice are read.
FinalRead ==
    /\ pending # None
    /\ Begin(Final, IF Frozen(invoice[pending])
                    THEN Fresh("final", "end", pending)
                    ELSE [Fresh("final", "profit", pending) EXCEPT
                             !.seen[pending] = GlimpseOf(pending)])
    /\ UNCHANGED <<month, ledgerVars, lateVars, invoice, finalVars, bounds, raced>>

\* A pass ends, or goes on to issue the invoice or mark it as final.
Written(s) ==
    IF job[s].op = "compute"
    THEN End(s)
    ELSE job' = [job EXCEPT ![s] = Fresh(job[s].op, "end", job[s].period)]

\* With a missing profit share the row stays.
KeepRow(s) ==
    /\ At(s, Passes, "write") /\ job[s].seen[job[s].period] # None
    /\ Written(s)
    /\ UNCHANGED <<month, ledgerVars, lateVars, invoice, finalVars, bounds, raced>>

\* A missing share with no row to keep, a creation refused, a query that fails: the month
\* is skipped; a final invoice is given up with an alert, and whatever is pending by now
\* is cleared with it.
ComputeFails(s) ==
    /\ Runs(s, Passes) /\ (job[s].pc # "end" \/ s = Final)
    /\ End(s)
    /\ IF s = Final
       THEN /\ pending' = None
            /\ alerted' = alerted \cup {job[s].period}
            /\ lost' = lost \cup ({pending} \ {None, job[s].period})
       ELSE UNCHANGED finalVars
    /\ UNCHANGED <<month, ledgerVars, lateVars, invoice, bounds, raced>>

\* Deviation, for the mutation of FinalEnd: the pending columns are cleared, not the flag set.
FinalEndUnmarked ==
    /\ At(Final, {"final"}, "end")
    /\ pending' = None
    /\ lost' = lost \cup ({pending} \ {None, job[Final].period})
    /\ End(Final)
    /\ UNCHANGED <<month, ledgerVars, lateVars, invoice, alerted, bounds, raced>>

\* isFinal is set by id and the pending columns are cleared, whatever they hold by now.
FinalEnd ==
    /\ At(Final, {"final"}, "end")
    /\ invoice' = [invoice EXCEPT ![job[Final].period].final = TRUE]
    /\ pending' = None
    /\ lost' = lost \cup ({pending} \ {None, job[Final].period})
    /\ End(Final)
    /\ UNCHANGED <<month, ledgerVars, lateVars, alerted, bounds, raced>>

\* schedulePendingFinalInvoice: a cancellation in the current month.  The columns hold one
\* month; another one's schedule is gone, unless the job has it in hand.
Schedule ==
    /\ month \in Cancellations
    /\ pending' = month
    /\ alerted' = alerted \ {month}
    /\ lost' = (lost \ {month}) \cup {p \in Periods \ {month} : p = pending /\ ~Making(p)}
    /\ UNCHANGED <<month, ledgerVars, lateVars, invoice, job, bounds, raced>>

-----------------------------------------------------------------------------
(* recomputeInvoiceChain: of the late ledger job, or of an admin *)

\* The invoices and the months that closed a structure are read once.
ChainRead(w, op, closed) ==
    /\ BeginWork(w, [Fresh(op, "profit", 1) EXCEPT
                    !.counted = closed, !.seen = [p \in Periods |-> GlimpseOf(p)]])
    /\ UNCHANGED <<month, ledger, invoice, finalVars, restarts, raced>>

AdminChain(w) == ChainRead(w, "chain", structures) /\ UNCHANGED <<structures, lateVars>>

\* The hourly job for flagged users: if its recomputation of the structures fails, it goes
\* on with those there are.
LateJob(w) ==
    /\ flagged /\ \A v \in Workers : ~Runs(v, {"late"})
    /\ \/ structures' = ledger /\ UNCHANGED excused
       \/ UNCHANGED structures /\ excused' = excused \cup (late \ structures)
    /\ ChainRead(w, "late", structures')
    /\ UNCHANGED <<flagged, sweep, late>>

Listed(j, p) == j.seen[p] # None \/ \E r \in j.counted : MonthOf[r] = p

\* On to the next month with this mark.
Carry(w, mark) ==
    LET j == job[w]
    IN  IF j.period = NPeriods
        THEN job' = [job EXCEPT ![w] = [j EXCEPT !.pc = "end", !.period = None,
                                                 !.profit = None, !.carry = None]]
        ELSE job' = [job EXCEPT ![w] = [j EXCEPT !.pc = "profit", !.period = j.period + 1,
                                                 !.profit = None, !.carry = mark]]

\* The mark a month leaves that is not computed: passed over, frozen, or without a share.
KeptMark(old, carry) == IF old = None THEN carry ELSE Larger(0, old.after)

Pass(w) ==
    /\ At(w, Chains, "profit")
    /\ Carry(w, KeptMark(job[w].seen[job[w].period], job[w].carry))
    /\ UNCHANGED <<month, ledgerVars, lateVars, invoice, finalVars, bounds, raced>>

\* A query fails or a creation is refused: the months that are left stay as they are, and
\* so does the flag.
ChainFails(w) ==
    /\ Runs(w, Chains)
    /\ End(w)
    /\ UNCHANGED <<month, ledgerVars, lateVars, invoice, finalVars, bounds, raced>>

\* The late job clears the flag; an admin's chain leaves it.
ChainEnd(w) ==
    /\ At(w, Chains, "end")
    /\ late' = late \ job[w].counted
    /\ excused' = excused \ job[w].counted
    /\ flagged' = IF job[w].op = "late" THEN FALSE ELSE flagged
    /\ End(w)
    /\ UNCHANGED <<month, ledgerVars, sweep, invoice, finalVars, bounds, raced>>

-----------------------------------------------------------------------------
(* computeMonthlyInvoiceMetrics and the write, of a pass or of a month of a chain *)

\* A chain computes the months it has found open; the mark it carries is not read again.
ReadProfit(s) ==
    /\ At(s, Passes \cup Chains, "profit")
    /\ OpenWhenRead(s, job[s].period)
    /\ job[s].op \in Chains => Listed(job[s], job[s].period)
    /\ job' = [job EXCEPT ![s] = [@ EXCEPT
                  !.profit = Cumulative(job[s].period),
                  !.pc = IF job[s].carry = None THEN "mark" ELSE "write"]]
    /\ UNCHANGED <<month, ledgerVars, lateVars, invoice, finalVars, bounds, raced>>

\* The invoice of the month before is looked up.
ReadMark(s) ==
    /\ At(s, Passes \cup Chains, "mark")
    /\ LET p == job[s].period
       IN  IF p > 1 /\ invoice[p - 1] # None
           THEN job' = [job EXCEPT ![s] = [@ EXCEPT !.seen[p - 1] = GlimpseOf(p - 1),
                                                    !.carry = PriorMark(p),
                                                    !.pc = "write"]]
           ELSE job' = [job EXCEPT ![s].pc = "rebuild"]
    /\ UNCHANGED <<month, ledgerVars, lateVars, invoice, finalVars, bounds, raced>>

\* There is none: the mark is rebuilt from the structures.
RebuildMark(s) ==
    /\ At(s, Passes \cup Chains, "rebuild")
    /\ job' = [job EXCEPT ![s] = [@ EXCEPT !.carry = RunningMark(job[s].period),
                                           !.pc = "write"]]
    /\ UNCHANGED <<month, ledgerVars, lateVars, invoice, finalVars, bounds, raced>>

\* The row is created, or written by the id that was read.
Write(s) ==
    /\ At(s, Passes \cup Chains, "write")
    /\ LET p == job[s].period
           row == Accrue(p, job[s].carry, job[s].profit)
       IN  /\ Save(job[s].seen[p] # None, p, row)
           /\ IF job[s].op \in Chains THEN Carry(s, row.after) ELSE Written(s)
    /\ UNCHANGED <<month, ledgerVars, lateVars, finalVars, bounds, raced>>

Computes(s) == ReadProfit(s) \/ ReadMark(s) \/ RebuildMark(s) \/ Write(s)

-----------------------------------------------------------------------------
(* Changes of status and payments *)

\* VALID_TRANSITIONS
ValidTransition(from, to) ==
    \/ from = "ACCRUED"  /\ to \in {"INVOICED", "VOID"}
    \/ from = "INVOICED" /\ to \in {"PAID", "VOID"}

\* transitionMonthlyRevenueInvoiceStatus reads the status again and writes it.
SetStatus(p, to) ==
    /\ invoice[p] # None /\ ValidTransition(invoice[p].status, to)
    /\ invoice' = [invoice EXCEPT ![p].status = to]
    /\ raced' = IF ~Frozen(invoice[p]) /\ \E s \in Slots : HoldsOpen(s, p)
                THEN raced \cup {p} ELSE raced

\* The end of an issuing pass.
Issue(w) ==
    /\ At(w, {"issue"}, "end")
    /\ \/ SetStatus(job[w].period, "INVOICED")
       \/ Frozen(invoice[job[w].period]) /\ UNCHANGED <<invoice, raced>>
    /\ End(w)
    /\ UNCHANGED <<month, ledgerVars, lateVars, finalVars, bounds>>

\* postInvoiceStatus
AdminStatus(p, to) ==
    /\ SetStatus(p, to)
    /\ UNCHANGED <<month, ledgerVars, lateVars, finalVars, job, bounds>>

\* Everything in memory is lost.
Restart ==
    /\ restarts < MaxRestarts
    /\ restarts' = restarts + 1
    /\ job' = [s \in Slots |-> None]
    /\ sweep' = None
    /\ excused' = excused \cup ({sweep} \ {None})
    /\ lost' = lost \cup {p \in Periods \ {pending} : Making(p)}
    /\ UNCHANGED <<month, begun, ledgerVars, flagged, late, invoice, pending, alerted, raced>>

-----------------------------------------------------------------------------

\* The steps of the final-invoice job.
FinalJob ==
    \/ FinalRead
    \/ Computes(Final)
    \/ KeepRow(Final)
    \/ ComputeFails(Final)
    \/ FinalEnd

Next ==
    \/ NextMonth
    \/ \E r \in Rows : LedgerSync(r)
    \/ \E r \in Rows : SweepInsert(r)
    \/ SweepFlag
    \/ RecomputeStructures
    \/ Schedule
    \/ FinalJob
    \/ \E w \in Workers :
          \/ \E p \in Periods, op \in {"compute", "issue"} : MonthlyRead(w, p, op)
          \/ LateJob(w)
          \/ AdminChain(w)
          \/ Computes(w)
          \/ KeepRow(w)
          \/ ComputeFails(w)
          \/ Issue(w)
          \/ Pass(w)
          \/ ChainFails(w)
          \/ ChainEnd(w)
    \/ \E p \in Periods, to \in Status : AdminStatus(p, to)
    \/ Restart

Spec == Init /\ [][Next]_vars

\* The final-invoice job is started every hour, and each of its queries ends.
FairSpec == Spec /\ WF_vars(FinalJob)

-----------------------------------------------------------------------------
(* Properties *)

SameFigures(old, new) == old.before = new.before /\ old.after = new.after

\* An issued, paid or void invoice is final: no job computes it again or opens it, unless
\* it was made final under a job that had already read it as open.
IsFinal(row) == row # None /\ row.status # "ACCRUED"
FrozenStaysFrozen ==
    [][\A p \in Periods :
          IsFinal(invoice[p]) /\ p \notin raced =>
             IsFinal(invoice'[p]) /\ SameFigures(invoice[p], invoice'[p])]_vars

\* The mark of an issued month is carried into the next: the job that computes that one,
\* a pass or a chain, starts no lower, unless it had looked at the month before it was issued.
MarkCarriedOn ==
    [][\A p \in Periods \ {NPeriods}, s \in Slots :
          /\ Frozen(invoice[p]) /\ p \notin raced
          /\ job'[s] # job[s] /\ ~Relies(s, p)
          /\ invoice'[p + 1] # None
          /\ invoice[p + 1] = None \/ ~SameFigures(invoice[p + 1], invoice'[p + 1])
          => invoice'[p + 1].before >= invoice[p].after]_vars

\* A row the deep sweep stores in a month that has an invoice stays flagged until a chain
\* has counted it; what is lost is a flag raised or a refresh failed during the late job,
\* and a row whose sweep died before the flag.
LateRowsCounted == flagged \/ late \subseteq excused \cup {sweep}

\* A cancelled customer's final invoice is made or reported as failed, through overlapping
\* computations, refused creations and restarts.  It is lost without a word only to the
\* cancellation of another month, which takes its columns or is wiped with them.
FinalInvoiceSettled ==
    \A p \in Periods :
        pending = p ~> \/ invoice[p] # None /\ invoice[p].final
                       \/ p \in alerted
                       \/ p \in lost

\* What the customer is told: charged only on profit above the previous best.  No best can
\* exceed the sum of all winning structures.
Billed(p) == invoice[p] # None /\ invoice[p].status \in {"INVOICED", "PAID"}
NeverPaysTwice ==
    MapThenSumSet(LAMBDA p : invoice[p].after - invoice[p].before, {p \in Periods : Billed(p)})
        <= Profit({r \in structures : AmountOf[r] > 0})
-----------------------------------------------------------------------------
(* Refinement *)

StateOf == [p \in Periods |-> IF invoice[p] = None THEN "NONE" ELSE invoice[p].status]
BeforeOf == [p \in Periods |-> IF invoice[p] = None THEN 0 ELSE invoice[p].before]
AfterOf == [p \in Periods |-> IF invoice[p] = None THEN 0 ELSE invoice[p].after]
Relied == {p \in Periods : \E s \in Slots : HasRead(s, p)}

Contract == INSTANCE InvoiceContract WITH
    Months <- NPeriods,
    state <- StateOf,
    before <- BeforeOf,
    after <- AfterOf,
    crossed <- raced,
    relied <- Relied

\* The passes, the chain and the two hourly jobs, each of which writes by id what it read
\* earlier, act on the invoices as if they computed at once, except on months that were
\* issued between the read and the write.
ImplementsContract == Contract!Spec
=============================================================================
