---------------------------- MODULE RevenueProofs ----------------------------
(***************************************************************************)
(* Theorems about the revenue share, in two parts.                         *)
(*                                                                         *)
(* The months of one customer (RevenueInvoices), for any months, ledger    *)
(* rows and jobs: the figures stay numbers and the jobs in shape, an       *)
(* issued invoice is never computed again, its mark is carried into the    *)
(* next month, and a late row stays flagged until a chain has counted it.  *)
(* The invariant says what a job still knows of what it read: a month it   *)
(* read as open and may write is not final unless it raced, the mark of a  *)
(* month it read as frozen is that month's still, and a late job misses    *)
(* only rows that are excused.  With it the months implement               *)
(* InvoiceContract.                                                        *)
(*                                                                         *)
(* The payment of an issued invoice (RevenuePayments, the instance P), for *)
(* any requests and orders: one charge unless payments overlap, and no     *)
(* debit without a paid invoice.                                           *)
(***************************************************************************)
EXTENDS RevenueInvoices, SumLemmas

\* What a job is at: the month it is to write, which it found open, and what it has read.
Shape(j) ==
    /\ j.op \in Passes \/ j.pc # "end" => j.period \in Periods
    /\ j.op \in Passes /\ (j.pc = "end" \/ j.seen[j.period] # None) => invoice[j.period] # None
    /\ j.pc \in {"mark", "rebuild", "write"} =>
           j.profit \in Int /\ (j.seen[j.period] # None => ~j.seen[j.period].frozen)
    /\ j.pc \in {"mark", "rebuild"} => j.carry = None
    /\ j.pc = "write" => j.carry \in Int
    /\ j.op \in Passes /\ j.pc = "profit" => j.carry = None

\* What a job read of a frozen month holds still, and that mark is the one it carries on.
AtWork(s) == job[s] # None /\ job[s].pc # "end"
SeenFrozen(s, p) == job[s].seen[p] # None /\ job[s].seen[p].frozen
MarkHolds(s, p) ==
    /\ p \notin raced => IsFinal(invoice[p]) /\ invoice[p].after = job[s].seen[p].after
    /\ job[s].period = p + 1 => job[s].carry \in Int /\ job[s].carry >= job[s].seen[p].after

\* What a job has read is worth acting on: it holds no final month open, unless that raced.
JobOK(s) == job[s] # None =>
    /\ Shape(job[s])
    /\ \A p \in Periods : IsFinal(invoice[p]) /\ p \notin raced => ~HoldsOpen(s, p)
    /\ \A p \in Periods : AtWork(s) /\ SeenFrozen(s, p) => MarkHolds(s, p)

JobsOK == \A s \in Slots : JobOK(s)

\* Late rows are stored; the one in the sweep's hand has an invoice; a late job counts all
\* of them that are not excused.
LateInv ==
    /\ late \subseteq ledger /\ sweep \in ledger \cup {None}
    /\ sweep \in late => invoice[MonthOf[sweep]] # None
    /\ LateRowsCounted
    /\ \A w \in Workers : job[w] # None /\ job[w].op = "late" =>
           late \ job[w].counted \subseteq excused \cup {sweep}

IInv == TypeOK /\ JobsOK /\ LateInv

-----------------------------------------------------------------------------
(* Figures *)

\* None is no row, job, glimpse, month or mark.
LEMMA NoneIsNothing ==
    /\ None \notin Invoice /\ None \notin Job /\ None \notin Glimpse /\ None \notin Int
    /\ None \notin Periods /\ None \notin Rows
BY NoneAssumption, SizesAssumption DEF Periods, Rows

\* The profit of any rows is a number.
LEMMA ProfitInt ==
    ASSUME NEW S, S \subseteq Rows
    PROVE  Profit(S) \in Int /\ IsFiniteSet(S)
<1>1. IsFiniteSet(S)
  <2>1. 1 \in Int /\ NRows \in Int
    BY SizesAssumption
  <2>2. IsFiniteSet(Rows)
    BY <2>1, FS_Interval DEF Rows
  <2> QED
    BY <2>2, FS_Subset
<1>2. Profit(S) = SumOf(AmountOf, S)
  BY DEF Profit, SumOf
<1>3. IntOn(AmountOf, S)
  BY RowAssumption DEF IntOn
<1> QED
  BY <1>1, <1>2, <1>3, SumInt

\* So is their peak.
LEMMA PeakInt ==
    ASSUME NEW S, S \subseteq Rows
    PROVE  Peak(S) \in Int
<1> DEFINE f == [r \in S |-> Profit({q \in S : q <= r})]
           V == {0} \cup {f[r] : r \in S}
<1>1. IsFiniteSet(S) /\ IntOn(f, S)
  <2>1. ASSUME NEW r \in S
        PROVE  f[r] \in Int
    <3>1. {q \in S : q <= r} \subseteq Rows
      OBVIOUS
    <3> QED
      BY <3>1, ProfitInt
  <2> QED
    BY <2>1, ProfitInt DEF IntOn
<1>2. {Profit({q \in S : q <= r}) : r \in S} = {f[r] : r \in S}
  OBVIOUS
<1>3. Peak(S) = Max(V)
  BY <1>2 DEF Peak
<1> HIDE DEF f
<1>4. V \subseteq Int
  BY <1>1 DEF IntOn
<1>5. \E m \in V : \A y \in V : m >= y
  BY <1>1, GreatestValue
<1> HIDE DEF V
<1> QED
  BY <1>3, <1>4, <1>5 DEF Max

\* The profit and the mark a computation reads, and the row it writes.
LEMMA Marks ==
    ASSUME TypeOK, NEW p \in Periods
    PROVE  /\ Cumulative(p) \in Int /\ RunningMark(p) \in Int
           /\ \A before, profit \in Int :
                 /\ Accrue(p, before, profit) \in Invoice /\ Accrue(p, before, profit) # None
                 /\ Accrue(p, before, profit).status = "ACCRUED"
                 /\ Accrue(p, before, profit).before = before
                 /\ Accrue(p, before, profit).after \in Int
                 /\ before <= Accrue(p, before, profit).after
<1>1. structures \subseteq Rows
  BY DEF TypeOK
<1>2. Cumulative(p) \in Int
  BY <1>1, ProfitInt DEF Cumulative
<1>3. RunningMark(p) \in Int
  BY <1>1, PeakInt DEF RunningMark
<1>4. ASSUME NEW before \in Int, NEW profit \in Int
      PROVE  /\ Accrue(p, before, profit) \in Invoice
             /\ Accrue(p, before, profit).status = "ACCRUED"
             /\ Accrue(p, before, profit).before = before
             /\ Accrue(p, before, profit).after \in Int
             /\ before <= Accrue(p, before, profit).after
  <2>1. Larger(before, profit) \in Int /\ before <= Larger(before, profit)
    BY DEF Larger
  <2>2. invoice[p] # None => invoice[p].final \in BOOLEAN
    BY DEF TypeOK, Invoice
  <2> QED
    BY <2>1, <2>2 DEF Accrue, Invoice, Status
<1> QED
  BY <1>2, <1>3, <1>4, NoneIsNothing

\* What a job reads of an invoice.
LEMMA Glimpsed ==
    ASSUME TypeOK, NEW p \in Periods
    PROVE  /\ GlimpseOf(p) \in Glimpse \cup {None}
           /\ GlimpseOf(p) # None <=> invoice[p] # None
           /\ invoice[p] # None => /\ GlimpseOf(p).frozen = Frozen(invoice[p])
                                  /\ GlimpseOf(p).after = invoice[p].after
                                  /\ invoice[p].after \in Int
<1>1. CASE invoice[p] = None
  BY <1>1 DEF GlimpseOf
<1>2. CASE invoice[p] # None
  <2>1. invoice[p].after \in Int /\ Frozen(invoice[p]) \in BOOLEAN
    BY <1>2 DEF TypeOK, Invoice, Frozen
  <2>2. GlimpseOf(p) = [frozen |-> Frozen(invoice[p]), after |-> invoice[p].after]
    BY <1>2 DEF GlimpseOf
  <2>3. GlimpseOf(p) \in Glimpse
    BY <2>1, <2>2 DEF Glimpse
  <2> QED
    BY <1>2, <2>1, <2>2, <2>3, NoneIsNothing
<1> QED
  BY <1>1, <1>2

-----------------------------------------------------------------------------
(* What a step may do to the invoices *)

\* No row disappears, no final one is reopened or computed again unless it raced, and one
\* that becomes final was held open by nobody or is marked.
Kept(p) ==
    /\ invoice[p] # None => invoice'[p] # None
    /\ IsFinal(invoice[p]) /\ p \notin raced =>
           IsFinal(invoice'[p]) /\ SameFigures(invoice[p], invoice'[p])
    /\ ~IsFinal(invoice[p]) /\ IsFinal(invoice'[p]) /\ p \notin raced' =>
           \A s \in Slots : ~HoldsOpen(s, p)

InvoicesKept ==
    /\ invoice' \in [Periods -> Invoice \cup {None}]
    /\ raced \subseteq raced' /\ raced' \subseteq Periods
    /\ \A p \in Periods : Kept(p)

\* The code's two tests of a final invoice are the same.
LEMMA FinalIsFrozen ==
    ASSUME TypeOK, NEW p \in Periods
    PROVE  IsFinal(invoice[p]) <=> Frozen(invoice[p])
BY DEF TypeOK, Invoice, Status, IsFinal, Frozen

\* A step that writes no invoice.
LEMMA InvoicesAlone ==
    ASSUME TypeOK, UNCHANGED <<invoice, raced>>
    PROVE  InvoicesKept
BY DEF TypeOK, InvoicesKept, Kept, SameFigures

\* A job that writes a month it holds open.
LEMMA ComputedKept ==
    ASSUME TypeOK, JobsOK, NEW s \in Slots, NEW p \in Periods, HoldsOpen(s, p),
           NEW row \in Invoice, row.status = "ACCRUED",
           invoice' = [invoice EXCEPT ![p] = row], raced' = raced
    PROVE  InvoicesKept
<1>1. row # None /\ ~IsFinal(row)
  BY NoneIsNothing DEF IsFinal
<1>2. ~(IsFinal(invoice[p]) /\ p \notin raced)
  BY DEF JobsOK, JobOK, HoldsOpen
<1>3. invoice' \in [Periods -> Invoice \cup {None}]
  BY DEF TypeOK
<1>4. invoice'[p] = row /\ \A q \in Periods : q # p => invoice'[q] = invoice[q]
  BY DEF TypeOK
<1>5. \A q \in Periods : Kept(q)
  BY <1>1, <1>2, <1>4 DEF Kept, SameFigures
<1> QED
  BY <1>3, <1>5 DEF InvoicesKept, TypeOK

\* A change of status.
LEMMA StatusKept ==
    ASSUME TypeOK, NEW p \in Periods, NEW to \in Status, SetStatus(p, to)
    PROVE  InvoicesKept
<1> DEFINE row == [invoice[p] EXCEPT !.status = to]
<1>1. invoice[p] \in Invoice /\ invoice[p] # None /\ to # "ACCRUED"
  BY DEF TypeOK, SetStatus, ValidTransition
<1>2. /\ row \in Invoice /\ row.status = to
      /\ row.before = invoice[p].before /\ row.after = invoice[p].after
  BY <1>1 DEF Invoice
<1>3. row # None /\ IsFinal(row)
  BY <1>1, <1>2, NoneIsNothing DEF IsFinal
<1>4. /\ invoice' \in [Periods -> Invoice \cup {None}]
      /\ invoice'[p] = row /\ \A q \in Periods : q # p => invoice'[q] = invoice[q]
  BY <1>2 DEF SetStatus, TypeOK
<1> HIDE DEF row
<1>5. raced \subseteq raced' /\ raced' \subseteq Periods
  BY DEF SetStatus, TypeOK
<1>6. ~IsFinal(invoice[p]) /\ p \notin raced' => \A s \in Slots : ~HoldsOpen(s, p)
  BY FinalIsFrozen DEF SetStatus
<1>7. \A q \in Periods : Kept(q)
  BY <1>1, <1>2, <1>3, <1>4, <1>6 DEF Kept, SameFigures
<1> QED
  BY <1>4, <1>5, <1>7 DEF InvoicesKept

\* A final invoice's mark.
LEMMA MarkedKept ==
    ASSUME TypeOK, NEW p \in Periods, invoice[p] # None,
           invoice' = [invoice EXCEPT ![p].final = TRUE], raced' = raced
    PROVE  InvoicesKept
<1> DEFINE row == [invoice[p] EXCEPT !.final = TRUE]
<1>1. invoice[p] \in Invoice
  BY DEF TypeOK
<1>2. /\ row \in Invoice /\ row.status = invoice[p].status
      /\ row.before = invoice[p].before /\ row.after = invoice[p].after
  BY <1>1 DEF Invoice
<1>3. row # None
  BY <1>2, NoneIsNothing
<1>4. /\ invoice' \in [Periods -> Invoice \cup {None}]
      /\ invoice'[p] = row /\ \A q \in Periods : q # p => invoice'[q] = invoice[q]
  BY <1>2 DEF TypeOK
<1> HIDE DEF row
<1>5. \A q \in Periods : Kept(q)
  BY <1>2, <1>3, <1>4 DEF Kept, SameFigures, IsFinal
<1> QED
  BY <1>4, <1>5 DEF InvoicesKept, TypeOK

-----------------------------------------------------------------------------
(* Jobs *)

\* A month that is final after a step, and did not race, was held open by a job only if
\* that job has read it since.
LEMMA StillNotHeld ==
    ASSUME JobsOK, InvoicesKept, NEW s \in Slots, job[s] # None,
           NEW p \in Periods, IsFinal(invoice'[p]), p \notin raced'
    PROVE  ~HoldsOpen(s, p)
<1>1. p \notin raced /\ Kept(p)
  BY DEF InvoicesKept
<1>2. CASE IsFinal(invoice[p])
  BY <1>1, <1>2 DEF JobsOK, JobOK
<1>3. CASE ~IsFinal(invoice[p])
  BY <1>1, <1>3 DEF Kept
<1> QED
  BY <1>2, <1>3

\* What a job read of a frozen month still holds of it after a step.
LEMMA StillHolds ==
    ASSUME JobsOK, InvoicesKept, NEW s \in Slots, AtWork(s),
           NEW p \in Periods, SeenFrozen(s, p), p \notin raced'
    PROVE  IsFinal(invoice'[p]) /\ invoice'[p].after = job[s].seen[p].after
<1>1. p \notin raced /\ Kept(p) /\ job[s] # None
  BY DEF InvoicesKept, AtWork
<1>2. IsFinal(invoice[p]) /\ invoice[p].after = job[s].seen[p].after
  BY <1>1 DEF JobsOK, JobOK, MarkHolds
<1> QED
  BY <1>1, <1>2 DEF Kept, SameFigures

\* A job the step does not touch, and a slot that is empty, stay as they should be.
LEMMA OtherJob ==
    ASSUME JobsOK, InvoicesKept, NEW s \in Slots, job'[s] = job[s] \/ job'[s] = None
    PROVE  JobOK(s)'
<1> SUFFICES ASSUME job'[s] = job[s], job[s] # None PROVE JobOK(s)'
  BY DEF JobOK
<1>1. Shape(job[s])'
  <2>1. Shape(job[s])
    BY DEF JobsOK, JobOK
  <2>2. \A p \in Periods : invoice[p] # None => invoice'[p] # None
    BY DEF InvoicesKept, Kept
  <2> QED
    BY <2>1, <2>2 DEF Shape
<1>2. ASSUME NEW p \in Periods, IsFinal(invoice'[p]), p \notin raced'
      PROVE  ~HoldsOpen(s, p)'
  <2>1. ~HoldsOpen(s, p)
    BY <1>2, StillNotHeld
  <2> QED
    BY <2>1 DEF HoldsOpen, OpenWhenRead
<1>3. ASSUME NEW p \in Periods, AtWork(s)', SeenFrozen(s, p)'
      PROVE  MarkHolds(s, p)'
  <2>1. AtWork(s) /\ SeenFrozen(s, p)
    BY <1>3 DEF AtWork, SeenFrozen
  <2>2. MarkHolds(s, p)
    BY <2>1 DEF JobsOK, JobOK
  <2>3. p \notin raced' => IsFinal(invoice'[p]) /\ invoice'[p].after = job[s].seen[p].after
    BY <2>1, StillHolds
  <2> QED
    BY <2>2, <2>3 DEF MarkHolds
<1> QED
  BY <1>1, <1>2, <1>3 DEF JobOK

\* A step that writes one slot.
LEMMA SlotWritten ==
    ASSUME TypeOK, JobsOK, InvoicesKept, NEW s \in Slots, NEW j \in Job \cup {None},
           job' = [job EXCEPT ![s] = j], j = None \/ JobOK(s)'
    PROVE  JobsOK' /\ job' \in [Slots -> Job \cup {None}]
<1>1. job' \in [Slots -> Job \cup {None}]
  BY DEF TypeOK
<1>2. job'[s] = j /\ \A r \in Slots : r # s => job'[r] = job[r]
  BY DEF TypeOK
<1>3. JobsOK'
  <2> SUFFICES ASSUME NEW r \in Slots PROVE JobOK(r)'
    BY DEF JobsOK
  <2>1. CASE r # s
    BY <1>2, <2>1, OtherJob
  <2>2. CASE r = s
    BY <1>2, <2>2, OtherJob
  <2> QED
    BY <2>1, <2>2
<1> QED
  BY <1>1, <1>3

\* A step that ends one job, and one that touches none.
LEMMA SlotEnded ==
    ASSUME TypeOK, JobsOK, InvoicesKept, NEW s \in Slots, End(s)
    PROVE  JobsOK' /\ job' \in [Slots -> Job \cup {None}]
BY SlotWritten DEF End

\* A step that changes no job keeps what the jobs remember.
LEMMA SlotsAlone ==
    ASSUME TypeOK, JobsOK, InvoicesKept, job' = job
    PROVE  JobsOK' /\ job' \in [Slots -> Job \cup {None}]
<1>1. \A s \in Slots : JobOK(s)'
  BY OtherJob
<1> QED
  BY <1>1 DEF JobsOK, TypeOK

\* A job at work goes on, a chain perhaps to its next month: the months it has yet to come
\* to are as it read them, and what it read of a frozen one holds.
LEMMA MovesOn ==
    ASSUME TypeOK, JobsOK, InvoicesKept, NEW s \in Slots, AtWork(s),
           NEW j \in Job, job' = [job EXCEPT ![s] = j], j.op = job[s].op, j.pc # "end",
           \/ j.period = job[s].period
           \/ j.op \in Chains /\ j.period = job[s].period + 1,
           \A q \in Periods : q >= j.period => j.seen[q] = job[s].seen[q],
           Shape(job[s])', \A q \in Periods : SeenFrozen(s, q)' => MarkHolds(s, q)'
    PROVE  /\ JobsOK' /\ job' \in [Slots -> Job \cup {None}]
           /\ job'[s] = j /\ j # None /\ \A r \in Slots \ {s} : job'[r] = job[r]
<1>1. job'[s] = j /\ j # None /\ \A r \in Slots \ {s} : job'[r] = job[r]
  BY NoneIsNothing DEF TypeOK
<1>2. job[s] # None /\ job[s].pc # "end" /\ job[s].period \in Periods
  BY DEF AtWork, JobsOK, JobOK, Shape
<1>3. ASSUME NEW q \in Periods, IsFinal(invoice'[q]), q \notin raced'
      PROVE  ~HoldsOpen(s, q)'
  <2>1. ~HoldsOpen(s, q)
    BY <1>2, <1>3, StillNotHeld
  <2> SUFFICES ASSUME HoldsOpen(s, q)' PROVE HoldsOpen(s, q)
    BY <2>1
  <2>2. job[s].period \in Int /\ q \in Int
    BY <1>2 DEF Periods
  <2>3. q >= j.period /\ (j.period = q \/ (j.op \in Chains /\ j.period < q))
    BY <1>1, <1>2, <2>2 DEF HoldsOpen
  <2>4. OpenWhenRead(s, q)
    BY <1>1, <2>3 DEF HoldsOpen, OpenWhenRead
  <2>5. job[s].period = q \/ (job[s].op \in Chains /\ job[s].period < q)
    BY <2>2, <2>3
  <2> QED
    BY <1>2, <2>4, <2>5 DEF HoldsOpen
<1>4. JobOK(s)'
  BY <1>1, <1>3 DEF JobOK
<1> QED
  BY <1>1, <1>4, SlotWritten

\* A computation begins over a month that is not frozen.
LEMMA ComputationBegins ==
    ASSUME TypeOK, JobsOK, UNCHANGED <<invoice, raced>>, NEW s \in Slots, NEW p \in Periods,
           NEW op \in Passes, ~Frozen(invoice[p]),
           Begin(s, [Fresh(op, "profit", p) EXCEPT !.seen[p] = GlimpseOf(p)])
    PROVE  /\ JobsOK' /\ job' \in [Slots -> Job \cup {None}]
           /\ job'[s] # None /\ job'[s].op = op /\ \A r \in Slots \ {s} : job'[r] = job[r]
<1> DEFINE seen == [NothingSeen EXCEPT ![p] = GlimpseOf(p)]
           j == [op |-> op, pc |-> "profit", period |-> p, seen |-> seen,
                 profit |-> None, carry |-> None, counted |-> {}]
<1>1. InvoicesKept
  BY InvoicesAlone
<1>2. job' = [job EXCEPT ![s] = j]
  <2>1. [Fresh(op, "profit", p) EXCEPT !.seen[p] = GlimpseOf(p)] = j
    BY DEF Fresh
  <2> HIDE DEF j
  <2> QED
    BY <2>1 DEF Begin
<1>3. seen \in [Periods -> Glimpse \cup {None}]
  BY Glimpsed DEF NothingSeen
<1>4. seen[p] = GlimpseOf(p) /\ \A q \in Periods \ {p} : seen[q] = None
  BY DEF NothingSeen
<1>5. \A q \in Periods : seen[q] # None => ~seen[q].frozen
  BY <1>4, Glimpsed
<1> HIDE DEF seen
<1>6. j \in Job
  BY <1>3 DEF Job
<1>7. /\ j.op = op /\ j.pc = "profit" /\ j.period = p /\ j.seen = seen
      /\ j.carry = None
      /\ job'[s] = j /\ j # None /\ \A r \in Slots \ {s} : job'[r] = job[r]
  BY <1>2, <1>6, NoneIsNothing DEF TypeOK
<1> HIDE DEF j
<1>8. JobOK(s)'
  <2>1. Shape(job[s])'
    BY <1>4, <1>7, Glimpsed DEF Shape
  <2>2. \A q \in Periods : ~SeenFrozen(s, q)'
    BY <1>5, <1>7 DEF SeenFrozen
  <2>3. ASSUME NEW q \in Periods, IsFinal(invoice[q]) PROVE ~HoldsOpen(s, q)'
    <3>1. q # p
      BY <2>3, FinalIsFrozen
    <3> QED
      BY <1>7, <3>1 DEF HoldsOpen, Passes, Chains
  <2> QED
    BY <2>1, <2>2, <2>3 DEF JobOK
<1> QED
  BY <1>1, <1>2, <1>6, <1>7, <1>8, SlotWritten

\* A pass has its month's row and goes on to issue it or mark it as final.
LEMMA AtItsEnd ==
    ASSUME TypeOK, JobsOK, InvoicesKept, NEW s \in Slots, NEW p \in Periods, NEW op \in Passes,
           invoice'[p] # None, job' = [job EXCEPT ![s] = Fresh(op, "end", p)]
    PROVE  /\ JobsOK' /\ job' \in [Slots -> Job \cup {None}]
           /\ job'[s] # None /\ job'[s].op = op /\ \A r \in Slots \ {s} : job'[r] = job[r]
<1> DEFINE j == Fresh(op, "end", p)
<1>1. j \in Job /\ j.op = op /\ j.pc = "end" /\ j.period = p
  BY DEF Fresh, Job, NothingSeen
<1> HIDE DEF j
<1>2. job'[s] = j /\ j # None /\ \A r \in Slots \ {s} : job'[r] = job[r]
  BY <1>1, NoneIsNothing DEF TypeOK, j
<1>3. JobOK(s)'
  BY <1>1, <1>2 DEF JobOK, Shape, HoldsOpen, AtWork
<1> QED
  BY <1>1, <1>2, <1>3, SlotWritten DEF j

\* The final-invoice job reads the pending month.
LEMMA FinalReadStep ==
    ASSUME TypeOK, JobsOK, FinalRead
    PROVE  /\ JobsOK' /\ job' \in [Slots -> Job \cup {None}]
           /\ \A r \in Slots \ {Final} : job'[r] = job[r]
<1>1. /\ Final \in Slots /\ pending \in Periods /\ UNCHANGED <<invoice, raced>>
      /\ InvoicesKept /\ "final" \in Passes
  BY InvoicesAlone DEF FinalRead, Slots, TypeOK, Passes
<1>2. CASE Frozen(invoice[pending])
  <2>1. invoice'[pending] # None
    BY <1>1, <1>2 DEF Frozen
  <2>2. job' = [job EXCEPT ![Final] = Fresh("final", "end", pending)]
    BY <1>2 DEF FinalRead, Begin
  <2> QED
    BY <1>1, <2>1, <2>2, AtItsEnd
<1>3. CASE ~Frozen(invoice[pending])
  <2>1. Begin(Final, [Fresh("final", "profit", pending) EXCEPT !.seen[pending] = GlimpseOf(pending)])
    BY <1>3 DEF FinalRead
  <2> QED
    BY <1>1, <1>3, <2>1, ComputationBegins
<1> QED
  BY <1>2, <1>3

\* A chain reads the invoices: those it finds frozen are final, the others are not.
LEMMA ChainBegins ==
    ASSUME TypeOK, JobsOK, UNCHANGED <<invoice, raced>>, NEW w \in Workers,
           NEW op \in Chains, NEW closed \in SUBSET Rows, ChainRead(w, op, closed)
    PROVE  /\ JobsOK' /\ job' \in [Slots -> Job \cup {None}]
           /\ job'[w].op = op /\ job'[w].counted = closed
           /\ \A s \in Slots \ {w} : job'[s] = job[s]
<1> DEFINE seen == [p \in Periods |-> GlimpseOf(p)]
           j == [Fresh(op, "profit", 1) EXCEPT !.counted = closed, !.seen = seen]
<1>1. InvoicesKept /\ w \in Slots /\ 1 \in Periods
  BY InvoicesAlone, SizesAssumption DEF Slots, Periods
<1>2. job' = [job EXCEPT ![w] = j]
  BY DEF ChainRead, BeginWork, Begin
<1>3. seen \in [Periods -> Glimpse \cup {None}] /\ \A p \in Periods : seen[p] = GlimpseOf(p)
  BY Glimpsed
<1> HIDE DEF seen
<1>4. /\ j \in Job
      /\ j.op = op /\ j.pc = "profit" /\ j.period = 1 /\ j.seen = seen /\ j.counted = closed
  <2>1. Fresh(op, "profit", 1) \in Job
    BY <1>1 DEF Fresh, Job, NothingSeen
  <2> QED
    BY <1>3, <2>1 DEF Job, Fresh
<1> HIDE DEF j
<1>5. job'[w] = j /\ j # None /\ \A s \in Slots \ {w} : job'[s] = job[s]
  BY <1>1, <1>2, <1>4, NoneIsNothing DEF TypeOK
<1>6. JobOK(w)'
  <2>1. Shape(job[w])'
    BY <1>1, <1>4, <1>5 DEF Shape, Passes, Chains
  <2>2. ASSUME NEW q \in Periods, IsFinal(invoice[q]) PROVE ~HoldsOpen(w, q)'
    <3>1. seen[q] # None /\ seen[q].frozen
      BY <1>3, <2>2, FinalIsFrozen, Glimpsed DEF Frozen
    <3> QED
      BY <1>4, <1>5, <3>1 DEF HoldsOpen, OpenWhenRead
  <2>3. ASSUME NEW q \in Periods, SeenFrozen(w, q)' PROVE MarkHolds(w, q)'
    <3>1. seen[q] # None /\ seen[q].frozen
      BY <1>4, <1>5, <2>3 DEF SeenFrozen
    <3>2. IsFinal(invoice[q]) /\ seen[q].after = invoice[q].after /\ q + 1 # 1
      BY <1>3, <3>1, FinalIsFrozen, Glimpsed, SizesAssumption DEF Periods
    <3> QED
      BY <1>4, <1>5, <3>2 DEF MarkHolds
  <2> QED
    BY <2>1, <2>2, <2>3 DEF JobOK
<1> QED
  BY <1>1, <1>2, <1>4, <1>5, <1>6, SlotWritten

\* A chain goes on to the next month with a mark no lower than that of the frozen month it
\* leaves, or has walked them all.
LEMMA CarriedOn ==
    ASSUME TypeOK, JobsOK, InvoicesKept, NEW w \in Slots, AtWork(w), job[w].op \in Chains,
           NEW mark \in Int \cup {None}, Carry(w, mark),
           SeenFrozen(w, job[w].period) =>
               mark \in Int /\ mark >= job[w].seen[job[w].period].after
    PROVE  /\ JobsOK' /\ job' \in [Slots -> Job \cup {None}]
           /\ job'[w] # None /\ job'[w].op = job[w].op /\ job'[w].counted = job[w].counted
           /\ \A s \in Slots \ {w} : job'[s] = job[s]
<1> DEFINE p == job[w].period
<1>1. job[w] \in Job /\ job[w] # None /\ job[w].op \notin Passes /\ p \in Periods
  BY DEF AtWork, TypeOK, JobsOK, JobOK, Shape, Passes, Chains
<1>2. CASE p = NPeriods
  <2> DEFINE j == [job[w] EXCEPT !.pc = "end", !.period = None, !.profit = None, !.carry = None]
  <2>1. job' = [job EXCEPT ![w] = j]
    BY <1>2 DEF Carry
  <2>2. /\ j \in Job /\ j.op = job[w].op /\ j.pc = "end" /\ j.counted = job[w].counted
    BY <1>1 DEF Job
  <2> HIDE DEF j
  <2>3. j # None /\ job'[w] = j /\ \A s \in Slots \ {w} : job'[s] = job[s]
    BY <1>1, <2>1, <2>2, NoneIsNothing DEF TypeOK
  <2>4. JobOK(w)'
    BY <1>1, <2>2, <2>3 DEF JobOK, Shape, HoldsOpen, AtWork
  <2>5. JobsOK' /\ job' \in [Slots -> Job \cup {None}]
    BY <2>1, <2>2, <2>4, SlotWritten
  <2> QED
    BY <2>2, <2>3, <2>5
<1>3. CASE p # NPeriods
  <2> DEFINE j == [job[w] EXCEPT !.pc = "profit", !.period = p + 1, !.profit = None,
                                 !.carry = mark]
  <2>1. job' = [job EXCEPT ![w] = j]
    BY <1>3 DEF Carry
  <2>2. p + 1 \in Periods
    BY <1>1, <1>3, SizesAssumption DEF Periods
  <2>3. /\ j \in Job /\ j.op = job[w].op /\ j.pc = "profit" /\ j.period = p + 1
        /\ j.seen = job[w].seen /\ j.carry = mark /\ j.counted = job[w].counted
    BY <1>1, <2>2 DEF Job
  <2> HIDE DEF j
  <2>4. job'[w] = j
    BY <2>1 DEF TypeOK
  <2>5. Shape(job[w])'
    BY <1>1, <2>2, <2>3, <2>4 DEF Shape, Passes, Chains
  <2>6. ASSUME NEW q \in Periods, SeenFrozen(w, q)'
        PROVE  MarkHolds(w, q)'
    <3>1. SeenFrozen(w, q)
      BY <2>3, <2>4, <2>6 DEF SeenFrozen
    <3>2. q \notin raced' => IsFinal(invoice'[q]) /\ invoice'[q].after = job[w].seen[q].after
      BY <3>1, StillHolds
    <3>3. p + 1 = q + 1 => p = q
      BY <1>1 DEF Periods
    <3>4. p + 1 = q + 1 => mark \in Int /\ mark >= job[w].seen[q].after
      BY <3>1, <3>3
    <3> HIDE DEF p
    <3> QED
      BY <2>3, <2>4, <3>2, <3>4 DEF MarkHolds
  <2>7. /\ JobsOK' /\ job' \in [Slots -> Job \cup {None}]
        /\ j # None /\ \A s \in Slots \ {w} : job'[s] = job[s]
    <3> HIDE DEF p
    <3>1. j.period = job[w].period + 1 /\ j.op \in Chains
      BY <2>3 DEF p
    <3> QED
      BY <2>1, <2>3, <2>5, <2>6, <3>1, MovesOn
  <2> QED
    BY <2>3, <2>4, <2>7
<1> QED
  BY <1>2, <1>3

\* A chain leaves a month as it read it.
LEMMA PassStep ==
    ASSUME TypeOK, JobsOK, NEW w \in Workers, Pass(w)
    PROVE  /\ InvoicesKept
           /\ JobsOK' /\ job' \in [Slots -> Job \cup {None}]
           /\ job'[w] # None /\ job'[w].op = job[w].op /\ job'[w].counted = job[w].counted
           /\ \A s \in Slots \ {w} : job'[s] = job[s]
<1> PICK j : j = job[w]
  OBVIOUS
<1> PICK p : p = j.period
  OBVIOUS
<1>1. /\ w \in Slots /\ j \in Job /\ j # None /\ JobOK(w) /\ j.op \in Chains /\ AtWork(w)
  BY DEF Slots, Pass, At, Runs, AtWork, TypeOK, JobsOK
<1>2. p \in Periods /\ j.carry \in Int \cup {None} /\ j.seen[p] \in Glimpse \cup {None}
  BY <1>1 DEF JobOK, Shape, AtWork, Job
<1>3. InvoicesKept
  BY InvoicesAlone DEF Pass
<1>4. /\ KeptMark(j.seen[p], j.carry) \in Int \cup {None}
      /\ SeenFrozen(w, p) => /\ KeptMark(j.seen[p], j.carry) \in Int
                             /\ KeptMark(j.seen[p], j.carry) >= j.seen[p].after
  BY <1>2 DEF KeptMark, Larger, Glimpse, SeenFrozen
<1> QED
  BY <1>1, <1>2, <1>3, <1>4, CarriedOn DEF Pass

\* A job reads the profit to date of the month it found open.
LEMMA ReadProfitStep ==
    ASSUME TypeOK, JobsOK, NEW s \in Slots, ReadProfit(s)
    PROVE  /\ JobsOK' /\ job' \in [Slots -> Job \cup {None}]
           /\ job'[s] # None /\ job'[s].op = job[s].op /\ job'[s].counted = job[s].counted
           /\ \A r \in Slots \ {s} : job'[r] = job[r]
<1> DEFINE p == job[s].period
           j == [job[s] EXCEPT !.profit = Cumulative(p),
                               !.pc = IF job[s].carry = None THEN "mark" ELSE "write"]
<1>1. /\ job[s] \in Job /\ job[s] # None /\ Shape(job[s]) /\ AtWork(s) /\ p \in Periods
      /\ OpenWhenRead(s, p) /\ InvoicesKept /\ invoice' = invoice
  BY InvoicesAlone DEF ReadProfit, At, Runs, AtWork, TypeOK, JobsOK, JobOK, Shape
<1>2. job' = [job EXCEPT ![s] = j]
  BY DEF ReadProfit, TypeOK
<1>3. /\ j \in Job /\ j.op = job[s].op /\ j.period = p /\ j.seen = job[s].seen
      /\ j.profit \in Int /\ j.carry = job[s].carry /\ j.counted = job[s].counted
      /\ j.pc \in {"mark", "write"}
      /\ (j.pc = "mark" => j.carry = None) /\ (j.pc = "write" => j.carry \in Int)
  BY <1>1, Marks DEF Job
<1> HIDE DEF j
<1>4. job'[s] = j
  BY <1>2 DEF TypeOK
<1>5. Shape(job[s])'
  BY <1>1, <1>3, <1>4 DEF Shape, OpenWhenRead
<1>6. ASSUME NEW q \in Periods, SeenFrozen(s, q)' PROVE MarkHolds(s, q)'
  <2>1. SeenFrozen(s, q) /\ MarkHolds(s, q)
    BY <1>1, <1>3, <1>4, <1>6 DEF SeenFrozen, JobsOK, JobOK
  <2> QED
    BY <1>1, <1>3, <1>4, <2>1 DEF MarkHolds, ReadProfit
<1> QED
  <2> HIDE DEF p
  <2>1. j.period = job[s].period /\ j.pc # "end"
    BY <1>3 DEF p
  <2> QED
    BY <1>1, <1>2, <1>3, <1>4, <1>5, <1>6, <2>1, MovesOn

\* A job looks the month before up: if it is final, its mark is the one carried.
LEMMA ReadMarkStep ==
    ASSUME TypeOK, JobsOK, NEW s \in Slots, ReadMark(s)
    PROVE  /\ JobsOK' /\ job' \in [Slots -> Job \cup {None}]
           /\ job'[s] # None /\ job'[s].op = job[s].op /\ job'[s].counted = job[s].counted
           /\ \A r \in Slots \ {s} : job'[r] = job[r]
<1> DEFINE p == job[s].period
<1>1. /\ job[s] \in Job /\ job[s] # None /\ Shape(job[s]) /\ AtWork(s) /\ p \in Periods
      /\ job[s].pc = "mark" /\ InvoicesKept /\ invoice' = invoice /\ raced' = raced
  BY InvoicesAlone DEF ReadMark, At, Runs, AtWork, TypeOK, JobsOK, JobOK, Shape
<1>2. CASE p > 1 /\ invoice[p - 1] # None
  <2> DEFINE b == p - 1
             seen == [job[s].seen EXCEPT ![b] = GlimpseOf(b)]
             j == [job[s] EXCEPT !.seen = seen, !.carry = PriorMark(p), !.pc = "write"]
  <2>1. b \in Periods /\ b + 1 = p /\ ~(b >= p) /\ b # p
    BY <1>1, <1>2, SizesAssumption DEF Periods
  <2>2. /\ GlimpseOf(b) \in Glimpse /\ GlimpseOf(b) # None
        /\ GlimpseOf(b).frozen = Frozen(invoice[b]) /\ GlimpseOf(b).after = invoice[b].after
        /\ invoice[b].after \in Int
    BY <1>2, <2>1, Glimpsed
  <2>3. PriorMark(p) \in Int /\ PriorMark(p) >= invoice[b].after
    BY <2>2 DEF PriorMark, Larger
  <2>4. job' = [job EXCEPT ![s] = j]
    BY <1>2 DEF ReadMark, TypeOK
  <2>5. /\ seen \in [Periods -> Glimpse \cup {None}] /\ seen[b] = GlimpseOf(b)
        /\ \A q \in Periods : q # b => seen[q] = job[s].seen[q]
    BY <1>1, <2>1, <2>2 DEF Job
  <2> HIDE DEF seen
  <2>6. /\ j \in Job /\ j.op = job[s].op /\ j.period = p /\ j.seen = seen /\ j.pc = "write"
        /\ j.profit = job[s].profit /\ j.carry = PriorMark(p) /\ j.counted = job[s].counted
    BY <1>1, <2>3, <2>5 DEF Job
  <2> HIDE DEF j
  <2>7. job'[s] = j
    BY <2>4 DEF TypeOK
  <2>8. Shape(job[s])'
    <3>1. j.seen[p] = job[s].seen[p]
      BY <1>1, <2>1, <2>5, <2>6
    <3> QED
      BY <1>1, <2>3, <2>6, <2>7, <3>1 DEF Shape
  <2>9. ASSUME NEW q \in Periods, SeenFrozen(s, q)' PROVE MarkHolds(s, q)'
    <3>1. CASE q = b
      <4>1. IsFinal(invoice[b])
        BY <2>1, <2>2, <2>5, <2>6, <2>7, <2>9, <3>1, FinalIsFrozen DEF SeenFrozen
      <4> QED
        BY <1>1, <2>2, <2>3, <2>5, <2>6, <2>7, <3>1, <4>1 DEF MarkHolds
    <3>2. CASE q # b
      <4>1. j.seen[q] = job[s].seen[q] /\ q + 1 # p
        BY <1>1, <2>5, <2>6, <3>2 DEF Periods
      <4>2. SeenFrozen(s, q) /\ MarkHolds(s, q)
        BY <1>1, <2>7, <2>9, <4>1 DEF SeenFrozen, JobsOK, JobOK
      <4> QED
        BY <1>1, <2>6, <2>7, <4>1, <4>2 DEF MarkHolds
    <3> QED
      BY <3>1, <3>2
  <2>10. \A q \in Periods : q >= j.period => j.seen[q] = job[s].seen[q]
    BY <2>1, <2>5, <2>6
  <2> QED
    <3> HIDE DEF p
    <3>1. j.period = job[s].period /\ j.pc # "end"
      BY <2>6 DEF p
    <3> QED
      BY <1>1, <2>4, <2>6, <2>7, <2>8, <2>9, <2>10, <3>1, MovesOn
<1>3. CASE ~(p > 1 /\ invoice[p - 1] # None)
  <2> DEFINE j == [job[s] EXCEPT !.pc = "rebuild"]
  <2>1. job' = [job EXCEPT ![s] = j]
    BY <1>3 DEF ReadMark, TypeOK
  <2>2. /\ j \in Job /\ j.op = job[s].op /\ j.period = job[s].period /\ j.seen = job[s].seen
        /\ j.pc = "rebuild"
        /\ j.profit = job[s].profit /\ j.carry = job[s].carry /\ j.counted = job[s].counted
    BY <1>1 DEF Job
  <2> HIDE DEF j
  <2>3. job'[s] = j
    BY <2>1 DEF TypeOK
  <2>4. Shape(job[s])'
    BY <1>1, <2>2, <2>3 DEF Shape
  <2>5. ASSUME NEW q \in Periods, SeenFrozen(s, q)' PROVE MarkHolds(s, q)'
    <3>1. SeenFrozen(s, q) /\ MarkHolds(s, q)
      BY <1>1, <2>2, <2>3, <2>5 DEF SeenFrozen, JobsOK, JobOK
    <3> QED
      BY <1>1, <2>2, <2>3, <3>1 DEF MarkHolds
  <2> QED
    BY <1>1, <2>1, <2>2, <2>3, <2>4, <2>5, MovesOn
<1> QED
  BY <1>2, <1>3

\* A job rebuilds the mark from the structures.
LEMMA RebuildMarkStep ==
    ASSUME TypeOK, JobsOK, NEW s \in Slots, RebuildMark(s)
    PROVE  /\ JobsOK' /\ job' \in [Slots -> Job \cup {None}]
           /\ job'[s] # None /\ job'[s].op = job[s].op /\ job'[s].counted = job[s].counted
           /\ \A r \in Slots \ {s} : job'[r] = job[r]
<1> DEFINE p == job[s].period
           j == [job[s] EXCEPT !.carry = RunningMark(p), !.pc = "write"]
<1>1. /\ job[s] \in Job /\ job[s] # None /\ Shape(job[s]) /\ AtWork(s) /\ p \in Periods
      /\ job[s].pc = "rebuild" /\ job[s].carry \notin Int
      /\ InvoicesKept /\ invoice' = invoice /\ raced' = raced
  BY InvoicesAlone, NoneIsNothing
  DEF RebuildMark, At, Runs, AtWork, TypeOK, JobsOK, JobOK, Shape
<1>2. job' = [job EXCEPT ![s] = j]
  BY DEF RebuildMark, TypeOK
<1>3. /\ j \in Job /\ j.op = job[s].op /\ j.period = p /\ j.seen = job[s].seen /\ j.pc = "write"
      /\ j.profit = job[s].profit /\ j.carry \in Int /\ j.counted = job[s].counted
  BY <1>1, Marks DEF Job
<1> HIDE DEF j
<1>4. job'[s] = j
  BY <1>2 DEF TypeOK
<1>5. Shape(job[s])'
  BY <1>1, <1>3, <1>4 DEF Shape
<1>6. ASSUME NEW q \in Periods, SeenFrozen(s, q)' PROVE MarkHolds(s, q)'
  <2>1. SeenFrozen(s, q) /\ MarkHolds(s, q)
    BY <1>1, <1>3, <1>4, <1>6 DEF SeenFrozen, JobsOK, JobOK
  <2>2. p # q + 1
    BY <1>1, <2>1 DEF MarkHolds
  <2> QED
    BY <1>1, <1>3, <1>4, <2>1, <2>2 DEF MarkHolds
<1> QED
  <2> HIDE DEF p
  <2>1. j.period = job[s].period /\ j.pc # "end"
    BY <1>3 DEF p
  <2> QED
    BY <1>1, <1>2, <1>3, <1>4, <1>5, <1>6, <2>1, MovesOn

\* A pass that has written or kept its row ends or goes on.
LEMMA WrittenStep ==
    ASSUME TypeOK, JobsOK, InvoicesKept, NEW s \in Slots, job[s] # None, job[s].op \in Passes,
           Written(s), invoice'[job[s].period] # None
    PROVE  /\ JobsOK' /\ job' \in [Slots -> Job \cup {None}]
           /\ job'[s] # None => job'[s].op = job[s].op
           /\ \A r \in Slots \ {s} : job'[r] = job[r]
<1>1. job[s].period \in Periods
  BY DEF JobsOK, JobOK, Shape
<1>2. CASE End(s)
  <2>1. job'[s] = None /\ \A r \in Slots \ {s} : job'[r] = job[r]
    BY <1>2 DEF End, TypeOK
  <2> QED
    BY <1>2, <2>1, SlotEnded
<1>3. CASE job' = [job EXCEPT ![s] = Fresh(job[s].op, "end", job[s].period)]
  BY <1>1, <1>3, AtItsEnd
<1> QED
  BY <1>2, <1>3 DEF Written

\* With a missing share the row is kept.
LEMMA KeepRowStep ==
    ASSUME TypeOK, JobsOK, NEW s \in Slots, KeepRow(s)
    PROVE  /\ InvoicesKept /\ JobsOK' /\ job' \in [Slots -> Job \cup {None}]
           /\ job'[s] # None => job'[s].op = job[s].op
           /\ \A r \in Slots \ {s} : job'[r] = job[r]
           /\ job[s].op \in Passes
<1>1. InvoicesKept /\ job[s] # None /\ job[s].op \in Passes
  BY InvoicesAlone DEF KeepRow, At, Runs
<1>2. invoice'[job[s].period] # None
  BY <1>1 DEF KeepRow, JobsOK, JobOK, Shape
<1> QED
  BY <1>1, <1>2, WrittenStep DEF KeepRow

\* A job writes the month it holds open, from what it has read, and no other.
LEMMA WritesOne ==
    ASSUME TypeOK, JobsOK, NEW s \in Slots, Write(s)
    PROVE  LET p == job[s].period
               row == Accrue(p, job[s].carry, job[s].profit)
           IN  /\ p \in Periods /\ job[s].carry \in Int /\ job[s].profit \in Int
               /\ HoldsOpen(s, p)
               /\ invoice' = [invoice EXCEPT ![p] = row] /\ raced' = raced
               /\ invoice'[p] = row /\ \A q \in Periods : q # p => invoice'[q] = invoice[q]
<1>1. job[s] # None /\ job[s].pc = "write" /\ Shape(job[s])
  BY DEF Write, At, Runs, JobsOK, JobOK
<1>2. job[s].period \in Periods /\ job[s].carry \in Int /\ job[s].profit \in Int
  BY <1>1 DEF Shape
<1>3. HoldsOpen(s, job[s].period)
  BY <1>1, <1>2 DEF HoldsOpen, OpenWhenRead, Shape
<1>4. /\ raced' = raced
      /\ invoice' = [invoice EXCEPT ![job[s].period] =
                        Accrue(job[s].period, job[s].carry, job[s].profit)]
  BY DEF Write, Save
<1> QED
  BY <1>2, <1>3, <1>4 DEF TypeOK

\* The write keeps the invoices and the jobs.
LEMMA WriteStep ==
    ASSUME TypeOK, JobsOK, NEW s \in Slots, Write(s)
    PROVE  /\ InvoicesKept /\ JobsOK' /\ job' \in [Slots -> Job \cup {None}]
           /\ job'[s] # None => /\ job'[s].op = job[s].op
                                /\ job[s].op \in Chains => job'[s].counted = job[s].counted
           /\ \A r \in Slots \ {s} : job'[r] = job[r]
<1> PICK p : p = job[s].period
  OBVIOUS
<1> PICK row : row = Accrue(p, job[s].carry, job[s].profit)
  OBVIOUS
<1>1. /\ p \in Periods /\ job[s].carry \in Int /\ job[s].profit \in Int /\ HoldsOpen(s, p)
      /\ invoice' = [invoice EXCEPT ![p] = row] /\ raced' = raced /\ invoice'[p] = row
  BY WritesOne
<1>2. row \in Invoice /\ row # None /\ row.status = "ACCRUED" /\ row.after \in Int
  BY <1>1, Marks
<1>3. InvoicesKept
  BY <1>1, <1>2, ComputedKept
<1>4. /\ job[s] # None /\ job[s].op \in Passes \cup Chains /\ job[s].pc = "write" /\ AtWork(s)
      /\ OpenWhenRead(s, p)
  BY <1>1 DEF Write, At, Runs, AtWork, HoldsOpen
<1>5. CASE job[s].op \in Chains
  <2>1. Carry(s, row.after) /\ ~SeenFrozen(s, p)
    BY <1>4, <1>5 DEF Write, OpenWhenRead, SeenFrozen
  <2> QED
    BY <1>2, <1>3, <1>4, <1>5, <2>1, CarriedOn
<1>6. CASE job[s].op \notin Chains
  <2>1. Written(s) /\ job[s].op \in Passes
    BY <1>4, <1>6 DEF Write
  <2> QED
    BY <1>1, <1>2, <1>3, <1>4, <1>6, <2>1, WrittenStep
<1> QED
  BY <1>5, <1>6

\* A step of a computation, read or write.
LEMMA ComputesStep ==
    ASSUME TypeOK, JobsOK, NEW s \in Slots, Computes(s)
    PROVE  /\ InvoicesKept /\ JobsOK' /\ job' \in [Slots -> Job \cup {None}]
           /\ job[s] # None
           /\ job'[s] # None => /\ job'[s].op = job[s].op
                                /\ job[s].op \in Chains => job'[s].counted = job[s].counted
           /\ \A r \in Slots \ {s} : job'[r] = job[r]
<1>1. job[s] # None
  BY DEF Computes, ReadProfit, ReadMark, RebuildMark, Write, At, Runs
<1>2. CASE ReadProfit(s) \/ ReadMark(s) \/ RebuildMark(s)
  <2>1. InvoicesKept
    BY <1>2, InvoicesAlone DEF ReadProfit, ReadMark, RebuildMark
  <2> QED
    BY <1>1, <1>2, <2>1, ReadProfitStep, ReadMarkStep, RebuildMarkStep
<1>3. CASE Write(s)
  BY <1>1, <1>3, WriteStep
<1> QED
  BY <1>2, <1>3 DEF Computes

\* A job gives its month up; a final invoice is marked by the id of the row it found or made.
LEMMA ComputeFailsStep ==
    ASSUME TypeOK, JobsOK, NEW s \in Slots, ComputeFails(s)
    PROVE  /\ InvoicesKept
           /\ JobsOK' /\ job' \in [Slots -> Job \cup {None}]
           /\ job[s].period \in Periods
<1>1. InvoicesKept
  BY InvoicesAlone DEF ComputeFails
<1>2. job[s].period \in Periods
  BY DEF ComputeFails, Runs, JobsOK, JobOK, Shape
<1> QED
  BY <1>1, <1>2, SlotEnded DEF ComputeFails

\* The final job ends with its invoice final, and frees its slot.
LEMMA FinalEndStep ==
    ASSUME TypeOK, JobsOK, FinalEnd
    PROVE  InvoicesKept /\ JobsOK' /\ job' \in [Slots -> Job \cup {None}]
<1>1. Final \in Slots
  BY DEF Slots
<1>2. job[Final].period \in Periods /\ invoice[job[Final].period] # None
  BY <1>1 DEF FinalEnd, At, Runs, Passes, JobsOK, JobOK, Shape
<1>3. InvoicesKept
  BY <1>2, MarkedKept DEF FinalEnd
<1> QED
  BY <1>1, <1>3, SlotEnded DEF FinalEnd

\* The end of an issuing pass issues the month it wrote, or finds it frozen.
LEMMA IssueStep ==
    ASSUME TypeOK, JobsOK, NEW w \in Workers, Issue(w)
    PROVE  InvoicesKept /\ JobsOK' /\ job' \in [Slots -> Job \cup {None}]
<1>1. w \in Slots
  BY DEF Slots
<1>2. job[w].period \in Periods
  BY <1>1 DEF Issue, At, Runs, Passes, JobsOK, JobOK, Shape
<1>3. InvoicesKept
  BY <1>2, StatusKept, InvoicesAlone DEF Issue, Status
<1> QED
  BY <1>1, <1>3, SlotEnded DEF Issue

-----------------------------------------------------------------------------
(* Late rows *)

\* A step that leaves late rows alone and starts no late job.
LEMMA LateStays ==
    ASSUME TypeOK, LateInv, InvoicesKept, UNCHANGED lateVars, ledger \subseteq ledger',
           \A w \in Workers : job'[w] # None /\ job'[w].op = "late" =>
               /\ job[w] # None /\ job[w].op = "late"
               /\ job'[w].counted = job[w].counted
    PROVE  LateInv'
<1>1. sweep \in late => invoice'[MonthOf[sweep]] # None
  BY RowAssumption DEF LateInv, TypeOK, InvoicesKept, Kept
<1> QED
  BY <1>1 DEF LateInv, LateRowsCounted, lateVars

\* So does one that ends a job and starts none.
LEMMA LateAfterEnd ==
    ASSUME TypeOK, LateInv, InvoicesKept, UNCHANGED lateVars, ledger \subseteq ledger',
           NEW s \in Slots, End(s)
    PROVE  LateInv'
<1>1. job'[s] = None /\ \A r \in Slots \ {s} : job'[r] = job[r]
  BY DEF End, TypeOK
<1> QED
  BY <1>1, LateStays DEF Slots

\* The sweep stores a row: it is late if its month has an invoice.
LEMMA SweepInsertStep ==
    ASSUME TypeOK, LateInv, NEW r \in Rows, SweepInsert(r)
    PROVE  LateInv' /\ late' \subseteq Rows
<1>1. sweep = None /\ sweep \notin late /\ sweep' = r /\ r \in ledger'
  BY NoneIsNothing DEF SweepInsert, TypeOK
<1>2. late' \subseteq late \cup {r} /\ late' \subseteq ledger'
  BY <1>1 DEF SweepInsert, LateInv
<1>3. r \in late' => invoice[MonthOf[r]] # None
  BY DEF SweepInsert, LateInv
<1>4. LateRowsCounted'
  BY <1>1, <1>2 DEF SweepInsert, LateInv, LateRowsCounted
<1>5. ASSUME NEW w \in Workers, job[w] # None, job[w].op = "late"
      PROVE  late' \ job[w].counted \subseteq excused \cup {r}
  BY <1>1, <1>2, <1>5 DEF LateInv
<1>6. late' \subseteq Rows
  BY <1>2 DEF TypeOK
<1> QED
  BY <1>1, <1>2, <1>3, <1>4, <1>5, <1>6 DEF SweepInsert, LateInv

\* The sweep raises the flag; a late job under way will clear it.
LEMMA SweepFlagStep ==
    ASSUME TypeOK, JobsOK, LateInv, SweepFlag
    PROVE  LateInv' /\ late' \subseteq Rows /\ excused' \subseteq Rows
<1>1. sweep # None /\ sweep \in ledger /\ sweep \in Rows /\ sweep' = None
  BY DEF SweepFlag, TypeOK, LateInv
<1>2. UNCHANGED <<ledger, job, invoice>>
  BY DEF SweepFlag, ledgerVars
<1>3. CASE invoice[MonthOf[sweep]] = None
  <2>1. UNCHANGED <<flagged, late, excused>> /\ sweep \notin late
    BY <1>3 DEF SweepFlag, LateInv
  <2>2. sweep' \notin late'
    BY <1>1, <2>1, NoneIsNothing DEF TypeOK
  <2> QED
    BY <1>1, <1>2, <2>1, <2>2 DEF LateInv, LateRowsCounted, TypeOK
<1>4. CASE invoice[MonthOf[sweep]] # None
  <2>1. /\ flagged' = TRUE /\ late' = late \cup {sweep}
        /\ excused' = IF LateJobRuns THEN excused \cup {sweep} ELSE excused
    BY <1>4 DEF SweepFlag
  <2>2. sweep' \notin late'
    BY <1>1, <2>1, NoneIsNothing DEF TypeOK
  <2>3. ASSUME NEW w \in Workers, job[w] # None, job[w].op = "late"
        PROVE  late' \ job[w].counted \subseteq excused'
    <3>1. excused' = excused \cup {sweep}
      BY <2>1, <2>3 DEF LateJobRuns, Runs
    <3> QED
      BY <2>1, <2>3, <3>1 DEF LateInv
  <2>4. late' \subseteq Rows /\ late' \subseteq ledger' /\ excused' \subseteq Rows
    BY <1>1, <1>2, <2>1 DEF TypeOK, LateInv
  <2> QED
    BY <1>1, <1>2, <2>1, <2>2, <2>3, <2>4 DEF LateInv, LateRowsCounted
<1> QED
  BY <1>3, <1>4

\* A late job begins: it counts every row stored, or those it misses are excused.
LEMMA LateJobStep ==
    ASSUME TypeOK, JobsOK, LateInv, NEW w \in Workers, LateJob(w)
    PROVE  /\ JobsOK' /\ job' \in [Slots -> Job \cup {None}]
           /\ LateInv'
           /\ structures' \subseteq ledger /\ excused' \subseteq Rows
<1>1. /\ structures' \subseteq ledger /\ excused \subseteq excused' /\ excused' \subseteq Rows
      /\ late \ structures' \subseteq excused'
  BY DEF LateJob, TypeOK, LateInv
<1>2. UNCHANGED <<invoice, raced, ledger, flagged, sweep, late>> /\ flagged
  BY DEF LateJob, ChainRead
<1>3. structures' \in SUBSET Rows /\ ChainRead(w, "late", structures')
  BY <1>1 DEF LateJob, TypeOK
<1>4. /\ JobsOK' /\ job' \in [Slots -> Job \cup {None}]
      /\ job'[w].counted = structures'
      /\ \A s \in Slots \ {w} : job'[s] = job[s]
  <2> PICK closed : closed = structures'
    OBVIOUS
  <2>1. closed \in SUBSET Rows /\ ChainRead(w, "late", closed) /\ "late" \in Chains
    BY <1>3 DEF Chains
  <2> QED
    BY <1>2, <2>1, ChainBegins
<1>5. ASSUME NEW v \in Workers, job'[v] # None, job'[v].op = "late"
      PROVE  late' \ job'[v].counted \subseteq excused' \cup {sweep'}
  <2>1. v = w
    BY <1>4, <1>5 DEF LateJob, Runs, Slots
  <2> QED
    BY <1>1, <1>2, <1>4, <2>1
<1>6. LateInv'
  BY <1>2, <1>5 DEF LateInv, LateRowsCounted
<1> QED
  BY <1>1, <1>4, <1>6

\* A chain ends: the rows it counted are late no longer, and a late job clears the flag.
LEMMA ChainEndStep ==
    ASSUME TypeOK, JobsOK, LateInv, NEW w \in Workers, ChainEnd(w)
    PROVE  LateInv'
<1>1. w \in Slots /\ job[w] # None /\ job'[w] = None
  BY DEF Slots, ChainEnd, At, Runs, End, TypeOK
<1>2. /\ late' = late \ job[w].counted /\ excused' = excused \ job[w].counted
      /\ flagged' = IF job[w].op = "late" THEN FALSE ELSE flagged
      /\ UNCHANGED <<sweep, ledger, invoice>>
  BY DEF ChainEnd, ledgerVars
<1>3. LateRowsCounted'
  <2>1. CASE job[w].op = "late"
    <3>1. late \ job[w].counted \subseteq excused \cup {sweep}
      BY <1>1, <2>1 DEF LateInv
    <3> QED
      BY <1>2, <3>1 DEF LateRowsCounted
  <2>2. CASE job[w].op # "late"
    BY <1>2, <2>2 DEF LateInv, LateRowsCounted
  <2> QED
    BY <2>1, <2>2
<1>4. ASSUME NEW v \in Workers, job'[v] # None, job'[v].op = "late"
      PROVE  late' \ job'[v].counted \subseteq excused' \cup {sweep'}
  <2>1. v # w /\ job'[v] = job[v]
    BY <1>1, <1>4 DEF ChainEnd, End, TypeOK, Slots
  <2>2. late \ job[v].counted \subseteq excused \cup {sweep}
    BY <1>4, <2>1 DEF LateInv
  <2> QED
    BY <1>2, <2>1, <2>2
<1> QED
  BY <1>2, <1>3, <1>4 DEF LateInv

\* A restart loses the flag the sweep was about to raise.
LEMMA RestartStep ==
    ASSUME TypeOK, LateInv, Restart
    PROVE  /\ InvoicesKept
           /\ JobsOK' /\ job' \in [Slots -> Job \cup {None}]
           /\ LateInv' /\ excused' \subseteq Rows
<1>1. InvoicesKept
  BY InvoicesAlone DEF Restart
<1>2. \A s \in Slots : job'[s] = None
  BY DEF Restart
<1>3. JobsOK'
  BY <1>2 DEF JobsOK, JobOK
<1>4. late' \subseteq excused' \/ flagged'
  BY NoneIsNothing DEF Restart, LateInv, LateRowsCounted, TypeOK, ledgerVars
<1>5. sweep' = None /\ None \notin late' /\ late' \subseteq ledger' /\ excused' \subseteq Rows
  BY NoneIsNothing DEF Restart, LateInv, TypeOK, ledgerVars
<1>6. LateInv'
  BY <1>2, <1>4, <1>5 DEF LateInv, LateRowsCounted, Slots
<1> QED
  BY <1>1, <1>3, <1>5, <1>6 DEF Restart

-----------------------------------------------------------------------------
(* The invariant *)

\* The invariant holds at first.
LEMMA InitIInv ==
    Init => IInv
<1> SUFFICES ASSUME Init PROVE IInv
  OBVIOUS
<1>1. 1 \in Periods /\ 0 \in 0..MaxJobs /\ 0 \in 0..MaxRestarts
  BY SizesAssumption DEF Periods
<1>2. TypeOK
  BY <1>1 DEF Init, TypeOK, NothingSeen
<1>3. JobsOK
  BY DEF Init, JobsOK, JobOK
<1>4. LateInv
  BY DEF Init, LateInv, LateRowsCounted, Slots
<1> QED
  BY <1>2, <1>3, <1>4 DEF IInv

\* The parts of the state no job, invoice or late row is in.
Calendar ==
    /\ month \in Periods /\ ledger \subseteq Rows /\ structures \subseteq ledger
    /\ pending \in Periods \cup {None} /\ flagged \in BOOLEAN
    /\ begun \in 0..MaxJobs /\ restarts \in 0..MaxRestarts
    /\ alerted \subseteq Periods /\ lost \subseteq Periods /\ late \subseteq Rows /\ excused \subseteq Rows

\* What is left to show of a step once its invoices, jobs and late rows are dealt with.
LEMMA StepOK ==
    ASSUME InvoicesKept, JobsOK', job' \in [Slots -> Job \cup {None}], LateInv', Calendar'
    PROVE  IInv' /\ InvoicesKept
BY DEF IInv, TypeOK, InvoicesKept, Calendar, LateInv

\* Every step keeps the invariant, and the invoices.
LEMMA NextIInv ==
    ASSUME IInv, [Next]_vars
    PROVE  IInv' /\ InvoicesKept
<1> USE DEF IInv
<1>a. Calendar
  BY DEF TypeOK, Calendar
<1>b. Workers \subseteq Slots /\ Final \in Slots
  BY DEF Slots
<1>1. CASE UNCHANGED vars
  <2>1. InvoicesKept
    BY <1>1, InvoicesAlone DEF vars
  <2>2. JobsOK' /\ job' \in [Slots -> Job \cup {None}]
    BY <1>1, <2>1, SlotsAlone DEF vars
  <2>3. LateInv'
    BY <1>1, <2>1, LateStays DEF vars, ledgerVars
  <2>4. Calendar'
    BY <1>1, <1>a DEF vars, ledgerVars, lateVars, finalVars, bounds, Calendar
  <2> QED
    BY <2>1, <2>2, <2>3, <2>4, StepOK
<1>2. CASE NextMonth
  <2>1. InvoicesKept
    BY <1>2, InvoicesAlone DEF NextMonth
  <2>2. JobsOK' /\ job' \in [Slots -> Job \cup {None}]
    BY <1>2, <2>1, SlotsAlone DEF NextMonth
  <2>3. LateInv'
    BY <1>2, <2>1, LateStays DEF NextMonth, ledgerVars
  <2>4. month' \in Periods
    BY <1>2, <1>a, SizesAssumption DEF NextMonth, Calendar, Periods
  <2>5. Calendar'
    BY <1>2, <1>a, <2>4 DEF NextMonth, ledgerVars, lateVars, finalVars, bounds, Calendar
  <2> QED
    BY <2>1, <2>2, <2>3, <2>5, StepOK
<1>3. ASSUME NEW r \in Rows, LedgerSync(r)
      PROVE  IInv' /\ InvoicesKept
  <2>1. InvoicesKept
    BY <1>3, InvoicesAlone DEF LedgerSync
  <2>2. JobsOK' /\ job' \in [Slots -> Job \cup {None}]
    BY <1>3, <2>1, SlotsAlone DEF LedgerSync
  <2>3. LateInv'
    BY <1>3, <2>1, LateStays DEF LedgerSync
  <2>4. Calendar'
    BY <1>3, <1>a DEF LedgerSync, lateVars, finalVars, bounds, Calendar
  <2> QED
    BY <2>1, <2>2, <2>3, <2>4, StepOK
<1>4. ASSUME NEW r \in Rows, SweepInsert(r)
      PROVE  IInv' /\ InvoicesKept
  <2>1. InvoicesKept
    BY <1>4, InvoicesAlone DEF SweepInsert
  <2>2. JobsOK' /\ job' \in [Slots -> Job \cup {None}]
    BY <1>4, <2>1, SlotsAlone DEF SweepInsert
  <2>3. LateInv' /\ late' \subseteq Rows
    BY <1>4, SweepInsertStep
  <2>4. Calendar'
    BY <1>4, <1>a, <2>3 DEF SweepInsert, finalVars, bounds, Calendar
  <2> QED
    BY <2>1, <2>2, <2>3, <2>4, StepOK
<1>5. CASE SweepFlag
  <2>1. InvoicesKept
    BY <1>5, InvoicesAlone DEF SweepFlag
  <2>2. JobsOK' /\ job' \in [Slots -> Job \cup {None}]
    BY <1>5, <2>1, SlotsAlone DEF SweepFlag
  <2>3. LateInv' /\ late' \subseteq Rows /\ excused' \subseteq Rows
    BY <1>5, SweepFlagStep
  <2>4. flagged' \in BOOLEAN
    BY <1>5, <1>a DEF SweepFlag, Calendar
  <2>5. Calendar'
    BY <1>5, <1>a, <2>3, <2>4 DEF SweepFlag, ledgerVars, finalVars, bounds, Calendar
  <2> QED
    BY <2>1, <2>2, <2>3, <2>5, StepOK
<1>6. CASE RecomputeStructures
  <2>1. InvoicesKept
    BY <1>6, InvoicesAlone DEF RecomputeStructures
  <2>2. JobsOK' /\ job' \in [Slots -> Job \cup {None}]
    BY <1>6, <2>1, SlotsAlone DEF RecomputeStructures
  <2>3. LateInv'
    BY <1>6, <2>1, LateStays DEF RecomputeStructures
  <2>4. Calendar'
    BY <1>6, <1>a DEF RecomputeStructures, lateVars, finalVars, bounds, Calendar
  <2> QED
    BY <2>1, <2>2, <2>3, <2>4, StepOK
<1>7. CASE Schedule
  <2>1. InvoicesKept
    BY <1>7, InvoicesAlone DEF Schedule
  <2>2. JobsOK' /\ job' \in [Slots -> Job \cup {None}]
    BY <1>7, <2>1, SlotsAlone DEF Schedule
  <2>3. LateInv'
    BY <1>7, <2>1, LateStays DEF Schedule, ledgerVars
  <2>4. pending' \in Periods /\ alerted' \subseteq Periods /\ lost' \subseteq Periods
    BY <1>7, <1>a DEF Schedule, Calendar
  <2>5. Calendar'
    BY <1>7, <1>a, <2>4 DEF Schedule, ledgerVars, lateVars, bounds, Calendar
  <2> QED
    BY <2>1, <2>2, <2>3, <2>5, StepOK
<1>8. CASE FinalRead
  <2>1. InvoicesKept
    BY <1>8, InvoicesAlone DEF FinalRead
  <2>3. /\ JobsOK' /\ job' \in [Slots -> Job \cup {None}]
        /\ \A w \in Workers : job'[w] = job[w]
    BY <1>8, <1>b, FinalReadStep, SlotAssumption
  <2>4. LateInv'
    BY <1>8, <2>1, <2>3, LateStays DEF FinalRead, ledgerVars
  <2>5. Calendar'
    BY <1>8, <1>a DEF FinalRead, ledgerVars, lateVars, finalVars, bounds, Calendar
  <2> QED
    BY <2>1, <2>3, <2>4, <2>5, StepOK
<1>9. ASSUME NEW s \in Slots, Computes(s)
      PROVE  IInv' /\ InvoicesKept
  <2>1. /\ InvoicesKept /\ JobsOK' /\ job' \in [Slots -> Job \cup {None}]
        /\ job[s] # None
        /\ job'[s] # None => /\ job'[s].op = job[s].op
                             /\ job[s].op \in Chains => job'[s].counted = job[s].counted
        /\ \A r \in Slots \ {s} : job'[r] = job[r]
    BY <1>9, ComputesStep
  <2>2. UNCHANGED <<month, ledgerVars, lateVars, finalVars, bounds>>
    BY <1>9 DEF Computes, ReadProfit, ReadMark, RebuildMark, Write
  <2>3. LateInv'
    BY <1>b, <2>1, <2>2, LateStays DEF ledgerVars, Chains
  <2>4. Calendar'
    BY <1>a, <2>2 DEF ledgerVars, lateVars, finalVars, bounds, Calendar
  <2> QED
    BY <2>1, <2>3, <2>4, StepOK
<1>10. ASSUME NEW s \in Slots, ComputeFails(s)
       PROVE  IInv' /\ InvoicesKept
  <2>1. /\ InvoicesKept
        /\ JobsOK' /\ job' \in [Slots -> Job \cup {None}]
        /\ job[s].period \in Periods
    BY <1>10, ComputeFailsStep
  <2>2. LateInv'
    BY <1>10, <2>1, LateAfterEnd DEF ComputeFails, ledgerVars
  <2>3. pending' \in Periods \cup {None} /\ alerted' \subseteq Periods /\ lost' \subseteq Periods
    BY <1>10, <1>a, <2>1 DEF ComputeFails, finalVars, Calendar
  <2>4. Calendar'
    BY <1>10, <1>a, <2>3 DEF ComputeFails, ledgerVars, lateVars, bounds, Calendar
  <2> QED
    BY <2>1, <2>2, <2>4, StepOK
<1>11. CASE FinalEnd
  <2>1. InvoicesKept /\ JobsOK' /\ job' \in [Slots -> Job \cup {None}]
    BY <1>11, FinalEndStep
  <2>2. LateInv'
    BY <1>11, <1>b, <2>1, LateAfterEnd DEF FinalEnd, ledgerVars
  <2>3. pending' = None /\ lost' \subseteq Periods
    BY <1>11, <1>a DEF FinalEnd, Calendar
  <2>4. Calendar'
    BY <1>11, <1>a, <2>3 DEF FinalEnd, ledgerVars, lateVars, bounds, Calendar
  <2> QED
    BY <2>1, <2>2, <2>4, StepOK
<1>12. ASSUME NEW w \in Workers, NEW p \in Periods, NEW op \in {"compute", "issue"},
              MonthlyRead(w, p, op)
       PROVE  IInv' /\ InvoicesKept
  <2>1. InvoicesKept
    BY <1>12, InvoicesAlone DEF MonthlyRead
  <2>2. /\ JobsOK' /\ job' \in [Slots -> Job \cup {None}]
        /\ job'[w].op = op /\ \A s \in Slots \ {w} : job'[s] = job[s]
    BY <1>12, <1>b, ComputationBegins DEF MonthlyRead, BeginWork, Passes
  <2>3. LateInv'
    BY <1>12, <1>b, <2>1, <2>2, LateStays DEF MonthlyRead, ledgerVars
  <2>4. begun' \in 0..MaxJobs
    BY <1>12, <1>a, SizesAssumption DEF MonthlyRead, BeginWork, Calendar
  <2>5. Calendar'
    BY <1>12, <1>a, <2>4 DEF MonthlyRead, ledgerVars, lateVars, finalVars, Calendar
  <2> QED
    BY <2>1, <2>2, <2>3, <2>5, StepOK
<1>13. ASSUME NEW w \in Workers, Issue(w)
       PROVE  IInv' /\ InvoicesKept
  <2>1. InvoicesKept /\ JobsOK' /\ job' \in [Slots -> Job \cup {None}]
    BY <1>13, IssueStep
  <2>2. LateInv'
    BY <1>13, <1>b, <2>1, LateAfterEnd DEF Issue, ledgerVars
  <2>3. Calendar'
    BY <1>13, <1>a DEF Issue, ledgerVars, lateVars, finalVars, bounds, Calendar
  <2> QED
    BY <2>1, <2>2, <2>3, StepOK
<1>14. ASSUME NEW w \in Workers, LateJob(w)
       PROVE  IInv' /\ InvoicesKept
  <2>1. InvoicesKept
    BY <1>14, InvoicesAlone DEF LateJob, ChainRead
  <2>2. /\ JobsOK' /\ job' \in [Slots -> Job \cup {None}]
        /\ LateInv' /\ structures' \subseteq ledger /\ excused' \subseteq Rows
    BY <1>14, LateJobStep
  <2>3. begun' \in 0..MaxJobs
    BY <1>14, <1>a, SizesAssumption DEF LateJob, ChainRead, BeginWork, Calendar
  <2>4. Calendar'
    BY <1>14, <1>a, <2>2, <2>3 DEF LateJob, ChainRead, finalVars, Calendar
  <2> QED
    BY <2>1, <2>2, <2>4, StepOK
<1>15. ASSUME NEW w \in Workers, AdminChain(w)
       PROVE  IInv' /\ InvoicesKept
  <2>1. InvoicesKept
    BY <1>15, InvoicesAlone DEF AdminChain, ChainRead
  <2>2. /\ JobsOK' /\ job' \in [Slots -> Job \cup {None}]
        /\ job'[w].op = "chain"
        /\ \A s \in Slots \ {w} : job'[s] = job[s]
    <3>1. structures \in SUBSET Rows /\ ChainRead(w, "chain", structures) /\ "chain" \in Chains
      BY <1>15 DEF AdminChain, TypeOK, Chains
    <3>2. UNCHANGED <<invoice, raced>>
      BY <3>1 DEF ChainRead
    <3> QED
      BY <3>1, <3>2, ChainBegins
  <2>4. LateInv'
    BY <1>15, <1>b, <2>1, <2>2, LateStays DEF AdminChain, ChainRead
  <2>5. begun' \in 0..MaxJobs
    BY <1>15, <1>a, SizesAssumption DEF AdminChain, ChainRead, BeginWork, Calendar
  <2>6. Calendar'
    BY <1>15, <1>a, <2>5 DEF AdminChain, ChainRead, lateVars, finalVars, Calendar
  <2> QED
    BY <2>1, <2>2, <2>4, <2>6, StepOK
<1>16. ASSUME NEW w \in Workers, Pass(w)
       PROVE  IInv' /\ InvoicesKept
  <2>1. /\ InvoicesKept
        /\ JobsOK' /\ job' \in [Slots -> Job \cup {None}]
        /\ job'[w].op = job[w].op /\ job'[w].counted = job[w].counted
        /\ \A s \in Slots \ {w} : job'[s] = job[s]
    BY <1>16, PassStep
  <2>2. job[w] # None
    BY <1>16 DEF Pass, At, Runs
  <2>3. LateInv'
    BY <1>16, <1>b, <2>1, <2>2, LateStays DEF Pass, ledgerVars
  <2>4. Calendar'
    BY <1>16, <1>a DEF Pass, ledgerVars, lateVars, finalVars, bounds, Calendar
  <2> QED
    BY <2>1, <2>3, <2>4, StepOK
<1>17. ASSUME NEW w \in Workers, ChainEnd(w)
       PROVE  IInv' /\ InvoicesKept
  <2>1. InvoicesKept
    BY <1>17, InvoicesAlone DEF ChainEnd
  <2>2. JobsOK' /\ job' \in [Slots -> Job \cup {None}]
    BY <1>17, <1>b, <2>1, SlotEnded DEF ChainEnd
  <2>3. LateInv'
    BY <1>17, ChainEndStep
  <2>4. Calendar'
    BY <1>17, <1>a DEF ChainEnd, ledgerVars, finalVars, bounds, Calendar
  <2> QED
    BY <2>1, <2>2, <2>3, <2>4, StepOK
<1>18. ASSUME NEW p \in Periods, NEW to \in Status, AdminStatus(p, to)
       PROVE  IInv' /\ InvoicesKept
  <2>1. InvoicesKept
    BY <1>18, StatusKept DEF AdminStatus
  <2>2. JobsOK' /\ job' \in [Slots -> Job \cup {None}]
    BY <1>18, <2>1, SlotsAlone DEF AdminStatus
  <2>3. LateInv'
    BY <1>18, <2>1, LateStays DEF AdminStatus, ledgerVars
  <2>4. Calendar'
    BY <1>18, <1>a DEF AdminStatus, ledgerVars, lateVars, finalVars, bounds, Calendar
  <2> QED
    BY <2>1, <2>2, <2>3, <2>4, StepOK
<1>19. CASE Restart
  <2>1. /\ InvoicesKept
        /\ JobsOK' /\ job' \in [Slots -> Job \cup {None}]
        /\ LateInv' /\ excused' \subseteq Rows
    BY <1>19, RestartStep
  <2>2. restarts' \in 0..MaxRestarts
    BY <1>19, <1>a, SizesAssumption DEF Restart, Calendar
  <2>3. Calendar'
    BY <1>19, <1>a, <2>1, <2>2 DEF Restart, ledgerVars, Calendar
  <2> QED
    BY <2>1, <2>3, StepOK
<1>20. ASSUME NEW s \in Slots, KeepRow(s)
       PROVE  IInv' /\ InvoicesKept
  <2>1. /\ InvoicesKept /\ JobsOK' /\ job' \in [Slots -> Job \cup {None}]
        /\ job'[s] # None => job'[s].op = job[s].op
        /\ \A r \in Slots \ {s} : job'[r] = job[r]
        /\ job[s].op # "late"
    BY <1>20, KeepRowStep DEF Passes
  <2>2. LateInv'
    BY <1>20, <1>b, <2>1, LateStays DEF KeepRow, ledgerVars
  <2>3. Calendar'
    BY <1>20, <1>a DEF KeepRow, ledgerVars, lateVars, finalVars, bounds, Calendar
  <2> QED
    BY <2>1, <2>2, <2>3, StepOK
<1>21. ASSUME NEW w \in Workers, ChainFails(w)
       PROVE  IInv' /\ InvoicesKept
  <2>1. InvoicesKept
    BY <1>21, InvoicesAlone DEF ChainFails
  <2>2. JobsOK' /\ job' \in [Slots -> Job \cup {None}]
    BY <1>21, <1>b, <2>1, SlotEnded DEF ChainFails
  <2>3. LateInv'
    BY <1>21, <1>b, <2>1, LateAfterEnd DEF ChainFails, ledgerVars
  <2>4. Calendar'
    BY <1>21, <1>a DEF ChainFails, ledgerVars, lateVars, finalVars, bounds, Calendar
  <2> QED
    BY <2>1, <2>2, <2>3, <2>4, StepOK
<1> QED
  BY <1>b, <1>1, <1>2, <1>3, <1>4, <1>5, <1>6, <1>7, <1>8, <1>9, <1>10, <1>11, <1>12,
     <1>13, <1>14, <1>15, <1>16, <1>17, <1>18, <1>19, <1>20, <1>21 DEF Next, FinalJob

\* The invariant holds in every state.
LEMMA Invariance ==
    Spec => []IInv
<1> QED
  BY InitIInv, NextIInv, PTL DEF Spec

-----------------------------------------------------------------------------
(* Where the figures of an invoice come from *)

\* A step that leaves the figures of the invoices there are.
NoNewFigures ==
    \A q \in Periods : invoice'[q] # None =>
        invoice[q] # None /\ SameFigures(invoice[q], invoice'[q])

\* A change of status or a final mark computes nothing.
LEMMA StatusComputesNothing ==
    ASSUME TypeOK, NEW p \in Periods, NEW to, SetStatus(p, to)
    PROVE  NoNewFigures
<1>1. invoice[p] \in Invoice /\ invoice[p] # None
  BY DEF SetStatus, TypeOK
<1> QED
  BY <1>1 DEF SetStatus, NoNewFigures, SameFigures, TypeOK, Invoice

\* The end of the final job writes no new figures.
LEMMA MarkComputesNothing ==
    ASSUME TypeOK, JobsOK, FinalEnd
    PROVE  NoNewFigures
<1> PICK p : p = job[Final].period
  OBVIOUS
<1>1. p \in Periods /\ invoice[p] # None
  BY DEF FinalEnd, At, Runs, Passes, JobsOK, JobOK, Shape, Slots
<1>2. invoice[p] \in Invoice /\ invoice' = [invoice EXCEPT ![p].final = TRUE]
  BY <1>1 DEF FinalEnd, TypeOK
<1> QED
  BY <1>1, <1>2 DEF NoNewFigures, SameFigures, TypeOK, Invoice

\* Whatever the step, figures that are new were written by a job that had come to that month.
LEMMA NewFiguresWritten ==
    ASSUME IInv, Next, NEW q \in Periods, invoice'[q] # None,
           invoice[q] = None \/ ~SameFigures(invoice[q], invoice'[q])
    PROVE  \E t \in Slots : Write(t) /\ job[t].period = q
<1> USE DEF IInv
<1>1. ASSUME UNCHANGED invoice PROVE NoNewFigures
  BY <1>1 DEF NoNewFigures, SameFigures
<1>2. ASSUME NEW t \in Slots, Write(t), ~NoNewFigures PROVE job[t].period = q
  BY <1>2, WritesOne DEF SameFigures
<1>3. CASE FinalEnd
  BY <1>3, MarkComputesNothing DEF NoNewFigures
<1>4. ASSUME NEW p \in Periods, NEW to \in Status, AdminStatus(p, to)
      PROVE  NoNewFigures
  BY <1>4, StatusComputesNothing DEF AdminStatus
<1>5. ASSUME NEW w \in Workers, Issue(w)
      PROVE  NoNewFigures
  <2>1. w \in Slots /\ job[w].period \in Periods
    BY <1>5 DEF Issue, At, Runs, Passes, JobsOK, JobOK, Shape, Slots
  <2> QED
    BY <1>1, <1>5, <2>1, StatusComputesNothing DEF Issue
<1>6. \/ UNCHANGED invoice
      \/ \E t \in Slots : Write(t)
      \/ \E w \in Workers : Issue(w)
      \/ FinalEnd
      \/ \E p \in Periods, to \in Status : AdminStatus(p, to)
  BY DEF Next, NextMonth, LedgerSync, SweepInsert, SweepFlag, RecomputeStructures, Schedule,
         FinalJob, FinalRead, Computes, ReadProfit, ReadMark, RebuildMark, KeepRow,
         ComputeFails, MonthlyRead, LateJob, AdminChain, ChainRead, Pass, ChainFails,
         ChainEnd, Restart, Slots
<1>7. ~NoNewFigures
  BY DEF NoNewFigures
<1> QED
  BY <1>1, <1>2, <1>3, <1>4, <1>5, <1>6, <1>7

\* An issued month's mark is where the next one starts, for a job that has seen it issued.
LEMMA CarriedIntoNext ==
    ASSUME IInv, NEW p \in Periods \ {NPeriods}, Frozen(invoice[p]), p \notin raced,
           NEW t \in Slots, Write(t), job[t].period = p + 1, ~Relies(t, p)
    PROVE  invoice'[p + 1].before >= invoice[p].after
<1>1. job[t] # None /\ job[t].pc = "write" /\ AtWork(t) /\ SeenFrozen(t, p)
  BY DEF Write, Relies, At, Runs, AtWork, OpenWhenRead, SeenFrozen
<1>2. MarkHolds(t, p)
  BY <1>1 DEF IInv, JobsOK, JobOK
<1>3. job[t].carry >= invoice[p].after
  BY <1>2 DEF MarkHolds
<1>4. invoice'[p + 1].before = job[t].carry
  BY WritesOne, Marks DEF IInv
<1> QED
  BY <1>3, <1>4

-----------------------------------------------------------------------------
(* Theorems *)

\* Months, figures and jobs keep their types: a mark stays a number however it is carried,
\* and the structures stay among the ledger's rows.
THEOREM Types ==
    Spec => []TypeOK
<1>1. IInv => TypeOK
  BY DEF IInv
<1> QED
  BY <1>1, Invariance, PTL

\* isInvoiceFrozen is honoured by every writer: an issued, paid or void invoice keeps its
\* figures and is never opened again, unless it was issued under a job that holds it open.
THEOREM FrozenStays ==
    Spec => FrozenStaysFrozen
<1>1. IInv /\ [Next]_vars =>
          [\A p \in Periods :
              IsFinal(invoice[p]) /\ p \notin raced =>
                 IsFinal(invoice'[p]) /\ SameFigures(invoice[p], invoice'[p])]_vars
  BY NextIInv DEF InvoicesKept, Kept
<1> QED
  BY <1>1, Invariance, PTL DEF Spec, FrozenStaysFrozen

\* resolveHwmBeforeForPeriod and hwmCarry: a job that computes a month having seen the one
\* before it issued starts no lower than the mark that one left.
THEOREM MarkIsCarried ==
    Spec => MarkCarriedOn
<1>1. IInv /\ [Next]_vars =>
          [\A p \in Periods \ {NPeriods}, s \in Slots :
              /\ Frozen(invoice[p]) /\ p \notin raced
              /\ job'[s] # job[s] /\ ~Relies(s, p)
              /\ invoice'[p + 1] # None
              /\ invoice[p + 1] = None \/ ~SameFigures(invoice[p + 1], invoice'[p + 1])
              => invoice'[p + 1].before >= invoice[p].after]_vars
  <2> SUFFICES ASSUME IInv, Next, NEW p \in Periods \ {NPeriods}, NEW s \in Slots,
                      Frozen(invoice[p]), p \notin raced, job'[s] # job[s], ~Relies(s, p),
                      invoice'[p + 1] # None,
                      invoice[p + 1] = None \/ ~SameFigures(invoice[p + 1], invoice'[p + 1])
               PROVE  invoice'[p + 1].before >= invoice[p].after
    OBVIOUS
  <2>1. p + 1 \in Periods
    BY SizesAssumption DEF Periods
  <2>2. PICK t \in Slots : Write(t) /\ job[t].period = p + 1
    BY <2>1, NewFiguresWritten
  <2>3. s = t
    BY <2>2, WriteStep DEF IInv
  <2> QED
    BY <2>2, <2>3, CarriedIntoNext
<1> QED
  BY <1>1, Invariance, PTL DEF Spec, MarkCarriedOn

\* flagLateRowIfInvoicedPeriod and the late job: a row swept into an invoiced month is
\* flagged until a chain has counted it, or is one of those a failure is the reason for.
THEOREM LateRowsStayFlagged ==
    Spec => []LateRowsCounted
<1>1. IInv => LateRowsCounted
  BY DEF IInv, LateInv
<1> QED
  BY <1>1, Invariance, PTL

-----------------------------------------------------------------------------
(* Refinement *)

\* The contract's state of the invoices.
LEMMA Mapped ==
    ASSUME TypeOK
    PROVE  /\ DOMAIN StateOf = Periods /\ {BeforeOf, AfterOf} \subseteq [Periods -> Int]
           /\ \A p \in Periods : IsFinal(invoice[p]) <=> Contract!Issued(p)
           /\ \A p \in Periods : Contract!Issued(p) => AfterOf[p] = invoice[p].after
<1>1. \A p \in Periods : invoice[p] # None => invoice[p] \in Invoice
  BY DEF TypeOK
<1>2. {BeforeOf, AfterOf} \subseteq [Periods -> Int]
  BY <1>1 DEF BeforeOf, AfterOf, Invoice
<1>3. ASSUME NEW p \in Periods
      PROVE  /\ IsFinal(invoice[p]) <=> Contract!Issued(p)
             /\ Contract!Issued(p) => AfterOf[p] = invoice[p].after
  BY <1>1, <1>3 DEF IsFinal, Contract!Issued, StateOf, AfterOf, Invoice, Status
<1> QED
  BY <1>2, <1>3 DEF StateOf

\* A slot in which nothing changes, or no month issued by now comes to be relied on.
Steady(s) == \A p \in Periods : HasRead(s, p)' => HasRead(s, p) \/ ~Contract!Issued(p)

\* What is relied on by steady slots.
LEMMA SteadyReads ==
    ASSUME \A s \in Slots : Steady(s)
    PROVE  Contract!Reads
BY DEF Steady, Contract!Reads, Relied, Periods

\* A slot that keeps its job is steady.
LEMMA KeepsSteady ==
    ASSUME NEW s \in Slots, job'[s] = job[s]
    PROVE  Steady(s)
BY DEF Steady, HasRead, OpenWhenRead

\* What a job sees of a month that is issued is frozen.
LEMMA GlimpseFrozen ==
    ASSUME TypeOK, NEW p \in Periods, Contract!Issued(p)
    PROVE  GlimpseOf(p) # None /\ GlimpseOf(p).frozen
<1>1. invoice[p] # None /\ Frozen(invoice[p])
  BY Mapped, FinalIsFrozen DEF IsFinal
<1> QED
  BY <1>1, Glimpsed

\* A chain that goes on is past one month more.
LEMMA CarrySteady ==
    ASSUME TypeOK, JobsOK, NEW s \in Slots, AtWork(s), job[s].op \in Chains,
           NEW mark, Carry(s, mark)
    PROVE  Steady(s)
<1>1. job[s] \in Job /\ job[s] # None /\ job[s].pc # "end" /\ job[s].period \in Periods
  BY DEF AtWork, TypeOK, JobsOK, JobOK, Shape
<1>2. CASE job[s].period = NPeriods
  <2>1. job'[s].pc = "end"
    BY <1>1, <1>2 DEF Carry, TypeOK, Job
  <2> QED
    BY <2>1 DEF Steady, HasRead
<1>3. CASE job[s].period # NPeriods
  <2>1. /\ job'[s].op = job[s].op /\ job'[s].seen = job[s].seen
        /\ job'[s].period = job[s].period + 1
    BY <1>1, <1>3 DEF Carry, TypeOK, Job
  <2>2. ASSUME NEW p \in Periods, HasRead(s, p)' PROVE HasRead(s, p)
    <3>1. job[s].period <= p + 1
      BY <1>1, <2>1, <2>2 DEF HasRead, Passes, Chains, Periods
    <3> QED
      BY <1>1, <2>1, <2>2, <3>1 DEF HasRead, OpenWhenRead
  <2> QED
    BY <2>2 DEF Steady
<1> QED
  BY <1>2, <1>3

\* A computation looks at the month before, which is the only one it comes to rely on.
LEMMA ComputesSteady ==
    ASSUME TypeOK, JobsOK, NEW s \in Slots, Computes(s)
    PROVE  Steady(s)
<1> PICK j : j = job[s]
  OBVIOUS
<1>1. /\ j \in Job /\ j # None /\ Shape(j) /\ AtWork(s) /\ j.period \in Periods
      /\ j.op \in Passes \cup Chains /\ j.pc # "end"
  BY DEF Computes, ReadProfit, ReadMark, RebuildMark, Write, At, Runs, AtWork,
         TypeOK, JobsOK, JobOK, Shape
<1>2. CASE ReadProfit(s)
  <2>1. /\ job'[s].op = j.op /\ job'[s].seen = j.seen /\ job'[s].period = j.period
        /\ job'[s].pc = IF j.carry = None THEN "mark" ELSE "write"
        /\ j.op \in Passes => j.carry = None
    BY <1>1, <1>2 DEF ReadProfit, At, TypeOK, Job, Shape
  <2> QED
    BY <1>1, <2>1 DEF Steady, HasRead, OpenWhenRead
<1>3. CASE ReadMark(s)
  <2>1. CASE j.period > 1 /\ invoice[j.period - 1] # None
    <3> DEFINE seen == [j.seen EXCEPT ![j.period - 1] = GlimpseOf(j.period - 1)]
               new == [j EXCEPT !.seen = seen, !.carry = PriorMark(j.period), !.pc = "write"]
    <3>0. job' = [job EXCEPT ![s] = new]
      BY <1>3, <2>1 DEF ReadMark, TypeOK
    <3>1. /\ job'[s].op = j.op /\ job'[s].period = j.period
          /\ job'[s].seen = [j.seen EXCEPT ![j.period - 1] = GlimpseOf(j.period - 1)]
      <4> HIDE DEF seen
      <4>1. new.op = j.op /\ new.period = j.period /\ new.seen = seen
        BY <1>1 DEF Job
      <4> HIDE DEF new
      <4>2. job'[s] = new
        BY <3>0 DEF TypeOK
      <4> QED
        BY <4>1, <4>2 DEF seen
    <3> HIDE DEF seen, new
    <3>2. ASSUME NEW p \in Periods, HasRead(s, p)', Contract!Issued(p) PROVE HasRead(s, p)
      <4>1. p # j.period - 1
        <5> SUFFICES ASSUME p = j.period - 1 PROVE FALSE
          OBVIOUS
        <5>1. job'[s].seen[p] = GlimpseOf(p)
          BY <1>1, <3>1 DEF Job
        <5> QED
          BY <3>2, <5>1, GlimpseFrozen DEF HasRead, OpenWhenRead
      <4>2. j.period # p + 1
        BY <1>1, <4>1 DEF Periods
      <4>3. job'[s].seen[p] = j.seen[p]
        BY <1>1, <3>1, <4>1 DEF Job
      <4> QED
        BY <1>1, <3>1, <3>2, <4>2, <4>3 DEF HasRead, OpenWhenRead
    <3> QED
      BY <3>2 DEF Steady
  <2>2. CASE ~(j.period > 1 /\ invoice[j.period - 1] # None)
    <3>1. /\ job'[s].op = j.op /\ job'[s].seen = j.seen /\ job'[s].period = j.period
      BY <1>1, <1>3, <2>2 DEF ReadMark, TypeOK, Job
    <3>2. ASSUME NEW p \in Periods, Contract!Issued(p) PROVE j.period # p + 1
      <4>1. invoice[p] # None
        BY <3>2, Mapped DEF IsFinal
      <4> QED
        BY <1>1, <2>2, <4>1 DEF Periods
    <3> QED
      BY <1>1, <3>1, <3>2 DEF Steady, HasRead, OpenWhenRead
  <2> QED
    BY <2>1, <2>2
<1>4. CASE RebuildMark(s)
  <2>1. /\ job'[s].op = j.op /\ job'[s].seen = j.seen /\ job'[s].period = j.period
        /\ j.pc = "rebuild"
    BY <1>1, <1>4 DEF RebuildMark, At, TypeOK, Job
  <2> QED
    BY <1>1, <2>1 DEF Steady, HasRead, OpenWhenRead
<1>5. CASE Write(s)
  <2>1. CASE j.op \in Chains
    BY <1>1, <1>5, <2>1, CarrySteady DEF Write
  <2>2. CASE j.op \notin Chains
    <3>1. job'[s] = None \/ job'[s].pc = "end"
      BY <1>5, <2>2 DEF Write, Written, End, Fresh, TypeOK
    <3> QED
      BY <3>1 DEF Steady, HasRead
  <2> QED
    BY <2>1, <2>2
<1> QED
  BY <1>2, <1>3, <1>4, <1>5 DEF Computes

\* A step of the job in a slot is steady there: what it reads now it reads open or frozen.
LEMMA StepSteady ==
    ASSUME IInv, Next, NEW s \in Slots, job'[s] # job[s]
    PROVE  Steady(s)
<1> USE DEF IInv
<1>1. CASE job'[s] = None \/ job'[s].pc = "end"
  BY <1>1 DEF Steady, HasRead
<1>2. CASE job'[s].op \in Passes /\ job'[s].pc = "profit"
  BY <1>2 DEF Steady, HasRead, Passes, Chains
<1>3. CASE \A p \in Periods : job'[s].seen[p] = GlimpseOf(p)
  BY <1>3, GlimpseFrozen DEF Steady, HasRead, OpenWhenRead
<1>4. ASSUME NEW t \in Slots, Computes(t) \/ KeepRow(t)
      PROVE  Steady(s)
  <2>1. \A r \in Slots \ {t} : job'[r] = job[r]
    BY <1>4, ComputesStep, KeepRowStep
  <2> QED
    BY <1>1, <1>4, <2>1, ComputesSteady DEF KeepRow, Written, End, Fresh, TypeOK
<1>5. ASSUME NEW w \in Workers, Pass(w)
      PROVE  Steady(s)
  <2>1. s = w
    BY <1>5, PassStep
  <2> QED
    BY <1>5, <2>1, CarrySteady DEF Pass, At, Runs, AtWork, Chains
<1>6. ASSUME NEW t \in Slots, End(t)
      PROVE  Steady(s)
  BY <1>1, <1>6 DEF End, TypeOK
<1>7. ASSUME NEW w \in Workers, NEW q \in Periods, NEW op \in {"compute", "issue"},
             MonthlyRead(w, q, op)
      PROVE  Steady(s)
  BY <1>2, <1>7 DEF MonthlyRead, BeginWork, Begin, Fresh, TypeOK, Passes
<1>8. CASE FinalRead
  BY <1>1, <1>2, <1>8 DEF FinalRead, Begin, Fresh, TypeOK, Passes
<1>9. ASSUME NEW w \in Workers, LateJob(w) \/ AdminChain(w)
      PROVE  Steady(s)
  <2>1. PICK op, closed : op \in Chains /\ ChainRead(w, op, closed)
    BY <1>9 DEF LateJob, AdminChain, Chains
  <2> DEFINE seen == [p \in Periods |-> GlimpseOf(p)]
             new == [Fresh(op, "profit", 1) EXCEPT !.counted = closed, !.seen = seen]
  <2>2. job' = [job EXCEPT ![w] = new]
    BY <2>1 DEF ChainRead, BeginWork, Begin
  <2>3. new.seen = seen
    <3> HIDE DEF seen
    <3> QED
      BY DEF Fresh
  <2> HIDE DEF new
  <2>4. s = w /\ job'[s] = new
    BY <2>2 DEF TypeOK
  <2> QED
    BY <1>3, <2>3, <2>4
<1>10. CASE Restart
  BY <1>1, <1>10 DEF Restart
<1> QED
  BY <1>4, <1>5, <1>6, <1>7, <1>8, <1>9, <1>10
     DEF Next, NextMonth, LedgerSync, SweepInsert, SweepFlag, RecomputeStructures, Schedule,
         FinalJob, AdminStatus, ComputeFails, FinalEnd, Issue, ChainFails, ChainEnd, Slots

\* The jobs of every step are steady.
LEMMA NextReads ==
    ASSUME IInv, Next
    PROVE  Contract!Reads
BY SteadyReads, KeepsSteady, StepSteady

\* A step that writes no invoice changes at most what is relied on.
LEMMA AloneRefines ==
    ASSUME UNCHANGED <<invoice, raced>>, Contract!Reads
    PROVE  Contract!Next
<1>1. UNCHANGED <<StateOf, BeforeOf, AfterOf>>
  BY DEF StateOf, BeforeOf, AfterOf
<1> QED
  BY <1>1 DEF Contract!Next

\* A write is a computation at once: it starts where a month that binds it ended.
LEMMA WriteRefines ==
    ASSUME IInv, IInv', NEW s \in Slots, Write(s), Contract!Reads
    PROVE  Contract!Next
<1> USE DEF IInv
<1> PICK p : p = job[s].period
  OBVIOUS
<1> PICK row : row = Accrue(p, job[s].carry, job[s].profit)
  OBVIOUS
<1>1. /\ p \in Periods /\ job[s].carry \in Int /\ job[s].profit \in Int /\ HoldsOpen(s, p)
      /\ raced' = raced /\ invoice'[p] = row /\ \A q \in Periods : q # p => invoice'[q] = invoice[q]
  BY WritesOne
<1>2. row # None /\ row.status = "ACCRUED" /\ row.before <= row.after
  BY <1>1, Marks
<1>3. Contract!Issued(p) => p \in raced
  BY <1>1, Mapped DEF JobsOK, JobOK, HoldsOpen
<1>4. StateOf' = [StateOf EXCEPT ![p] = "ACCRUED"]
  BY <1>1, <1>2 DEF StateOf
<1>5. \A q \in Periods \ {p} : BeforeOf'[q] = BeforeOf[q] /\ AfterOf'[q] = AfterOf[q]
  BY <1>1 DEF BeforeOf, AfterOf
<1>6. {BeforeOf', AfterOf'} \subseteq [Periods -> Int]
  BY <1>1, <1>2 DEF BeforeOf, AfterOf, TypeOK, Invoice
<1>7. BeforeOf'[p] <= AfterOf'[p]
  BY <1>1, <1>2 DEF BeforeOf, AfterOf
<1>8. ASSUME p > 1, Contract!Binding(p - 1)
      PROVE  AfterOf[p - 1] <= BeforeOf'[p]
  <2> PICK q : q = p - 1
    OBVIOUS
  <2>1. q \in Periods \ {NPeriods} /\ q + 1 = p
    BY <1>1, <1>8, SizesAssumption DEF Periods
  <2>2. Frozen(invoice[q]) /\ q \notin raced /\ AfterOf[q] = invoice[q].after
    BY <1>8, <2>1, Mapped, FinalIsFrozen DEF Contract!Binding
  <2>3. ~Relies(s, q)
    BY <1>8, <2>1 DEF Contract!Binding, Relied, Relies, HasRead, At, Runs, Periods
  <2>4. invoice'[q + 1].before >= invoice[q].after
    BY <2>1, <2>2, <2>3, CarriedIntoNext
  <2>5. BeforeOf'[p] = invoice'[p].before
    BY <1>1, <1>2 DEF BeforeOf
  <2>6. BeforeOf'[p] \in Int /\ AfterOf[q] \in Int
    BY <1>1, <1>6, <2>1, Mapped
  <2> QED
    BY <2>1, <2>2, <2>4, <2>5, <2>6
<1>9. Contract!Compute(p)
  BY <1>1, <1>3, <1>4, <1>5, <1>6, <1>7, <1>8 DEF Contract!Compute, Periods
<1> QED
  BY <1>1, <1>9 DEF Contract!Next, Periods

\* A change of status is that of the contract, and crosses no month that was final.
LEMMA StatusRefines ==
    ASSUME TypeOK, NEW p \in Periods, NEW to \in Status, SetStatus(p, to), Relied' = Relied
    PROVE  Contract!Next
<1>1. /\ invoice[p] \in Invoice /\ invoice[p] # None
      /\ ValidTransition(invoice[p].status, to)
      /\ invoice' = [invoice EXCEPT ![p].status = to]
  BY DEF SetStatus, TypeOK
<1> DEFINE row == [invoice[p] EXCEPT !.status = to]
<1>2. /\ row \in Invoice /\ row.status = to
      /\ row.before = invoice[p].before /\ row.after = invoice[p].after
  BY <1>1 DEF Invoice
<1>3. /\ row # None /\ invoice'[p] = row
      /\ \A q \in Periods : q # p => invoice'[q] = invoice[q]
  BY <1>1, <1>2, NoneIsNothing DEF TypeOK
<1> HIDE DEF row
<1>4. UNCHANGED <<BeforeOf, AfterOf>>
  <2>1. \A q \in Periods :
            /\ invoice'[q] = None <=> invoice[q] = None
            /\ invoice'[q].before = invoice[q].before /\ invoice'[q].after = invoice[q].after
    BY <1>1, <1>2, <1>3
  <2> QED
    BY <2>1 DEF BeforeOf, AfterOf
<1>5. StateOf[p] = invoice[p].status /\ StateOf' = [StateOf EXCEPT ![p] = to]
  <2>1. invoice[p] # None /\ invoice'[p] # None /\ invoice'[p].status = to
    BY <1>1, <1>2, <1>3
  <2>2. \A q \in Periods : q # p => invoice'[q] = invoice[q]
    BY <1>3
  <2> QED
    BY <2>1, <2>2 DEF StateOf
<1>6. CASE invoice[p].status = "ACCRUED" /\ to \in {"INVOICED", "VOID"}
  <2>1. raced' \in {raced, raced \cup {p}}
    BY DEF SetStatus
  <2>2. Contract!Issue(p)
    BY <1>4, <1>5, <1>6, <2>1 DEF Contract!Issue
  <2> QED
    BY <2>2 DEF Contract!Next, Periods
<1>7. CASE invoice[p].status = "INVOICED" /\ to \in {"PAID", "VOID"}
  <2>1. raced' = raced
    BY <1>1, <1>7 DEF SetStatus, Frozen
  <2>2. Contract!Settle(p)
    BY <1>4, <1>5, <1>7, <2>1 DEF Contract!Settle
  <2> QED
    BY <2>2 DEF Contract!Next, Periods
<1> QED
  BY <1>1, <1>6, <1>7 DEF ValidTransition

\* A slot that ends without a month to write leaves what is relied on.
LEMMA ReliedStays ==
    ASSUME TypeOK, NEW s \in Slots, job[s] # None, job[s].pc = "end", End(s)
    PROVE  Relied' = Relied
<1>1. job'[s] = None /\ \A r \in Slots \ {s} : job'[r] = job[r]
  BY DEF End, TypeOK
<1> QED
  BY <1>1 DEF Relied, HasRead, OpenWhenRead

\* The last write of the final-invoice job marks the row and changes no figure.
LEMMA FinalMarkRefines ==
    ASSUME IInv, FinalEnd, Contract!Reads
    PROVE  Contract!Next
<1> PICK p : p = job[Final].period
  OBVIOUS
<1>1. p \in Periods /\ invoice[p] # None /\ invoice[p] \in Invoice
  BY DEF FinalEnd, At, Runs, Passes, IInv, JobsOK, JobOK, Shape, Slots, TypeOK
<1> DEFINE row == [invoice[p] EXCEPT !.final = TRUE]
<1>2. /\ row \in Invoice /\ row.status = invoice[p].status
      /\ row.before = invoice[p].before /\ row.after = invoice[p].after
  BY <1>1 DEF Invoice
<1>3. /\ row # None /\ invoice'[p] = row
      /\ \A q \in Periods : q # p => invoice'[q] = invoice[q]
  BY <1>1, <1>2, NoneIsNothing DEF FinalEnd, IInv, TypeOK
<1> HIDE DEF row
<1>4. UNCHANGED <<StateOf, BeforeOf, AfterOf>>
  BY <1>1, <1>2, <1>3 DEF StateOf, BeforeOf, AfterOf
<1> QED
  BY <1>4 DEF Contract!Next, FinalEnd

\* At first nothing is invoiced.
LEMMA InitRefines ==
    Init => Contract!Init
<1> SUFFICES ASSUME Init PROVE Contract!Init
  OBVIOUS
<1>1. \A p \in Periods : invoice[p] = None
  BY DEF Init, NothingSeen
<1>2. Relied = {}
  BY DEF Init, Relied, HasRead
<1> QED
  BY <1>1, <1>2 DEF Init, Contract!Init, StateOf, BeforeOf, AfterOf, Periods

\* Every step is one of the contract, or changes nothing it speaks of.
LEMMA NextRefines ==
    ASSUME IInv, IInv', [Next]_vars
    PROVE  [Contract!Next]_(Contract!vars)
<1>1. CASE UNCHANGED vars
  <2>1. UNCHANGED <<StateOf, BeforeOf, AfterOf, Relied, raced>>
    BY <1>1 DEF vars, StateOf, BeforeOf, AfterOf, Relied, HasRead, OpenWhenRead
  <2> QED
    BY <2>1 DEF Contract!vars
<1> SUFFICES ASSUME Next PROVE Contract!Next
  BY <1>1
<1>2. ASSUME NEW s \in Slots, Write(s) PROVE Contract!Next
  BY <1>2, NextReads, WriteRefines
<1>4. CASE FinalEnd
  BY <1>4, NextReads, FinalMarkRefines
<1>5. ASSUME NEW p \in Periods, NEW to \in Status, AdminStatus(p, to) PROVE Contract!Next
  <2>1. Relied' = Relied
    BY <1>5 DEF AdminStatus, Relied, HasRead, OpenWhenRead
  <2> QED
    BY <1>5, <2>1, StatusRefines DEF AdminStatus, IInv
<1>6. ASSUME NEW w \in Workers, Issue(w) PROVE Contract!Next
  <2>1. w \in Slots /\ job[w] # None /\ job[w].pc = "end" /\ job[w].period \in Periods
    BY <1>6 DEF Issue, At, Runs, Passes, IInv, JobsOK, JobOK, Shape, Slots
  <2>2. Relied' = Relied
    BY <1>6, <2>1, ReliedStays DEF Issue, IInv
  <2>3. "INVOICED" \in Status
    BY DEF Status
  <2> QED
    BY <1>6, <2>1, <2>2, <2>3, NextReads, StatusRefines, AloneRefines DEF Issue, IInv
<1>7. CASE UNCHANGED <<invoice, raced>>
  BY <1>7, NextReads, AloneRefines
<1>8. \/ UNCHANGED <<invoice, raced>>
      \/ \E s \in Slots : Write(s)
      \/ \E w \in Workers : Issue(w)
      \/ FinalEnd
      \/ \E p \in Periods, to \in Status : AdminStatus(p, to)
  BY DEF Next, NextMonth, LedgerSync, SweepInsert, SweepFlag, RecomputeStructures, Schedule,
         FinalJob, FinalRead, Computes, ReadProfit, ReadMark, RebuildMark, KeepRow,
         ComputeFails, MonthlyRead, LateJob, AdminChain, ChainRead, Pass, ChainFails,
         ChainEnd, Restart, Slots
<1> QED
  BY <1>2, <1>4, <1>5, <1>6, <1>7, <1>8

\* The passes, the chain and the hourly jobs read first and write by id later: but for
\* months issued in between that is as if they computed and issued at once.
THEOREM InvoicesImplementContract ==
    Spec => ImplementsContract
<1>1. IInv /\ IInv' /\ [Next]_vars => [Contract!Next]_(Contract!vars)
  BY NextRefines
<1> QED
  BY <1>1, InitRefines, Invariance, PTL DEF Spec, ImplementsContract, Contract!Spec

-----------------------------------------------------------------------------
(***************************************************************************)
(* The payment of an issued invoice (RevenuePayments, here an instance).   *)
(*                                                                         *)
(* For any number of requests and orders: a second charge of an invoice    *)
(* needs two payments open at once, and the wallet is debited only by a    *)
(* transaction that leaves the invoice paid.                               *)
(*                                                                         *)
(* The invariant says what a single payment can be doing: as long as no    *)
(* two were open together there is at most one wallet request or order,    *)
(* and once money was taken the invoice is no longer payable or its order  *)
(* waits captured.                                                         *)
(***************************************************************************)
CONSTANTS Handlers, Orders, Share, Funds
VARIABLES status, note, balance, order, request, charges, overlapped

P == INSTANCE RevenuePayments WITH job <- request

\* The assumptions of RevenuePayments on its constants.
PaymentConstants ==
    /\ Share \in Nat \ {0} /\ Funds \in Nat
    /\ None \notin P!Order \cup P!Job

\* What a request for the gateway holds: an order that exists, and a settled invoice.
GatewayJobs ==
    \A h \in Handlers : P!Doing(h, "gateway") =>
        /\ order[request[h].order] # None
        /\ order[request[h].order].state # "open"
        /\ request[h].pc = "record" => status # "INVOICED"

RecordedIsSettled ==
    \A o \in Orders : order[o] # None /\ order[o].state = "recorded" => status # "INVOICED"

\* At most one wallet request or order.
OnePayment ==
    /\ \A h, g \in Handlers : P!Doing(h, "wallet") /\ P!Doing(g, "wallet") => h = g
    /\ \A o, q \in Orders : order[o] # None /\ order[q] # None => o = q
    /\ \A h \in Handlers, o \in Orders : ~(P!Doing(h, "wallet") /\ order[o] # None)

\* What has taken money is over, or an order waiting to be verified.
ChargeIsOver ==
    charges # 0 =>
        /\ charges = 1
        /\ \A h \in Handlers : ~P!Doing(h, "wallet")
        /\ \A o \in Orders : order[o] # None => order[o].state # "open"
        /\ status # "INVOICED" \/ \E o \in Orders : order[o] # None /\ order[o].state = "captured"

\* A debit not yet committed is covered, and is the only one.
HeldFunds ==
    /\ \A h \in Handlers : P!At(h, "wallet", "write") => request[h].amount <= balance
    /\ \A h, g \in Handlers :
          /\ P!At(h, "wallet", "write") /\ request[h].amount > 0
          /\ P!At(g, "wallet", "write") /\ request[g].amount > 0
          => h = g

PayInv ==
    /\ P!TypeOK
    /\ HeldFunds
    /\ GatewayJobs
    /\ RecordedIsSettled
    /\ ~overlapped => OnePayment /\ ChargeIsOver

\* No order and no request is None.
LEMMA NoneIsNoRequest ==
    ASSUME PaymentConstants
    PROVE  None \notin P!Order /\ None \notin P!Job
  BY DEF PaymentConstants

\* What the requests hold is a Job again when their step changes.
LEMMA RequestTypes ==
    ASSUME PaymentConstants, P!TypeOK, NEW h \in Handlers, request[h] # None
    PROVE  /\ P!Doing(h, "wallet") =>
                /\ request[h].pc \in {"debit", "write"} /\ request[h].amount \in 0..Share
                /\ [request[h] EXCEPT !.pc = "write"] \in P!Job
           /\ P!Doing(h, "gateway") =>
                /\ request[h].pc \in {"write", "record"} /\ request[h].order \in Orders
                /\ [request[h] EXCEPT !.pc = "record"] \in P!Job
           /\ P!Doing(h, "note") => request[h].amount \in 1..Share
<1> request[h] \in P!Job
  BY DEF P!TypeOK
<1> QED BY DEF P!Doing, P!Job

\* The types are kept by every step.
LEMMA PaymentTypeStep ==
    ASSUME PaymentConstants
    PROVE  P!TypeOK /\ HeldFunds /\ GatewayJobs /\ [P!Next]_(P!vars) => P!TypeOK'
<1> SUFFICES ASSUME P!TypeOK, HeldFunds, GatewayJobs, [P!Next]_(P!vars) PROVE P!TypeOK'
  OBVIOUS
<1> USE NoneIsNoRequest DEF PaymentConstants, P!TypeOK, P!Status
<1> P!Collectible \in 0..Share
  BY DEF P!Collectible
<1>1. ASSUME NEW o \in Orders, P!CreateOrder(o) PROVE P!TypeOK'
  <2> [amount |-> P!Collectible, state |-> "open"] \in P!Order
    BY <1>1 DEF P!CreateOrder, P!Order
  <2> QED BY <1>1 DEF P!CreateOrder, P!Overlap, P!PaymentOpen
<1>2. ASSUME NEW o \in Orders, P!Capture(o) PROVE P!TypeOK'
  <2> [order[o] EXCEPT !.state = "captured"] \in P!Order
    BY <1>2 DEF P!Capture, P!Order
  <2> QED BY <1>2 DEF P!Capture, P!Charge
<1>3. ASSUME NEW h \in Handlers, P!WalletRead(h) PROVE P!TypeOK'
  <2> [op |-> "wallet", pc |-> "debit", amount |-> P!Collectible] \in P!Job
    BY DEF P!Job
  <2> QED BY <1>3 DEF P!WalletRead, P!Begin, P!Overlap, P!PaymentOpen
<1>4. ASSUME NEW h \in Handlers, P!WalletDebit(h) PROVE P!TypeOK'
  <2> request[h].amount \in 0..Share /\ [request[h] EXCEPT !.pc = "write"] \in P!Job
    BY <1>4, RequestTypes DEF P!WalletDebit, P!At, P!Doing
  <2> QED BY <1>4 DEF P!WalletDebit, P!End, P!Charge
<1>5. ASSUME NEW h \in Handlers, P!WalletCommit(h) PROVE P!TypeOK'
  <2> request[h].amount \in 0..Share /\ request[h].amount <= balance
    BY <1>5, RequestTypes DEF P!WalletCommit, P!At, P!Doing, HeldFunds
  <2> QED BY <1>5 DEF P!WalletCommit, P!End, P!Charge
<1>6. ASSUME NEW h \in Handlers, NEW o \in Orders, P!VerifyRead(h, o) PROVE P!TypeOK'
  <2> \A pc \in {"write", "record"} : [op |-> "gateway", pc |-> pc, order |-> o] \in P!Job
    BY DEF P!Job
  <2> QED BY <1>6 DEF P!VerifyRead, P!Begin
<1>7. ASSUME NEW h \in Handlers, P!Settle(h) PROVE P!TypeOK'
  <2> [request[h] EXCEPT !.pc = "record"] \in P!Job
    BY <1>7, RequestTypes DEF P!Settle, P!At, P!Doing
  <2> QED BY <1>7 DEF P!Settle
<1>8. ASSUME NEW h \in Handlers, P!Record(h) PROVE P!TypeOK'
  <2> request[h].order \in Orders /\ order[request[h].order] # None
    BY <1>8, RequestTypes DEF P!Record, P!At, P!Doing, GatewayJobs
  <2> [order[request[h].order] EXCEPT !.state = "recorded"] \in P!Order
    BY DEF P!Order
  <2> QED BY <1>8 DEF P!Record, P!End
<1>9. ASSUME NEW h \in Handlers, P!VoidRead(h) PROVE P!TypeOK'
  <2> [op |-> "void"] \in P!Job
    BY DEF P!Job
  <2> QED BY <1>9 DEF P!VoidRead, P!Begin
<1>10. ASSUME NEW h \in Handlers, NEW a \in 1..Share, P!NoteRead(h, a) PROVE P!TypeOK'
  <2> [op |-> "note", amount |-> a] \in P!Job
    BY DEF P!Job
  <2> QED BY <1>10 DEF P!NoteRead, P!Begin
<1>11. ASSUME NEW h \in Handlers, P!VoidWrite(h) \/ P!NoteWrite(h) \/ P!Abandon(h) PROVE P!TypeOK'
  <2> P!Doing(h, "note") => request[h].amount \in 1..Share
    BY RequestTypes DEF P!Doing
  <2> QED BY <1>11 DEF P!VoidWrite, P!NoteWrite, P!Abandon, P!End
<1>12. CASE UNCHANGED P!vars
  BY <1>12 DEF P!vars
<1> QED
  BY <1>1, <1>2, <1>3, <1>4, <1>5, <1>6, <1>7, <1>8, <1>9, <1>10, <1>11, <1>12 DEF P!Next

-----------------------------------------------------------------------------

\* A debit that waits for its commit stays covered, and stays the only one.
LEMMA HeldStep ==
    ASSUME PaymentConstants
    PROVE  P!TypeOK /\ HeldFunds /\ [P!Next]_(P!vars) => HeldFunds'
<1> SUFFICES ASSUME P!TypeOK, HeldFunds, [P!Next]_(P!vars) PROVE HeldFunds'
  OBVIOUS
<1>1. ASSUME NEW h \in Handlers, P!WalletDebit(h) PROVE HeldFunds'
  <2> USE NoneIsNoRequest DEF P!TypeOK, HeldFunds, P!At, P!Doing
  <2>1. request[h].amount \in 0..Share
    BY <1>1, RequestTypes DEF P!WalletDebit
  <2>2. request[h].amount > 0 => ~P!WalletHeld
    BY <1>1 DEF P!WalletDebit
  <2>3. \A g \in Handlers :
            request[g] # None /\ request[g].op = "wallet" => request[g].amount \in 0..Share
    BY RequestTypes
  <2>4. ASSUME request' = [request EXCEPT ![h].pc = "write"], balance' = balance,
               request[h].amount <= balance
        PROVE  HeldFunds'
    <3>1. /\ request'[h].amount = request[h].amount
          /\ \A g \in Handlers \ {h} : request'[g] = request[g]
      <4> [request[h] EXCEPT !.pc = "write"].amount = request[h].amount
        BY <1>1, RequestTypes DEF P!WalletDebit, P!Job
      <4> QED BY <2>4
    <3> QED BY <2>1, <2>2, <2>3, <2>4, <3>1 DEF P!WalletHeld
  <2>5. ASSUME P!End(h),
               \/ balance' = balance
               \/ balance' = balance - request[h].amount /\ request[h].amount <= balance
        PROVE  HeldFunds'
    <3>1. \A g \in Handlers : request'[g] # None => g # h /\ request'[g] = request[g]
      BY <2>5 DEF P!End
    <3>2. balance' = balance \/ (request[h].amount > 0 /\ balance' >= 0)
      BY <2>1, <2>5 DEF PaymentConstants
    <3>3. \A g \in Handlers : P!At(g, "wallet", "write")' => request[g].amount <= balance'
      BY <2>2, <2>3, <3>1, <3>2 DEF PaymentConstants, P!WalletHeld
    <3> QED BY <3>1, <3>3
  <2>6. request[h].amount \in Int /\ balance \in Int
    BY <2>1 DEF PaymentConstants
  <2> HIDE DEF HeldFunds, P!TypeOK, P!At, P!Doing
  <2> QED BY <1>1, <2>4, <2>5, <2>6 DEF P!WalletDebit
<1>2. ASSUME NEW h \in Handlers, P!WalletCommit(h) PROVE HeldFunds'
  <2> USE NoneIsNoRequest DEF P!TypeOK, HeldFunds, P!At, P!Doing
  <2>1. \A g \in Handlers : request'[g] # None => g # h /\ request'[g] = request[g]
    BY <1>2 DEF P!WalletCommit, P!End
  <2>2. \A g \in Handlers :
            request[g] # None /\ request[g].op = "wallet" => request[g].amount \in 0..Share
    BY RequestTypes
  <2>3. balance' = balance - request[h].amount /\ request[h].amount <= balance
    BY <1>2 DEF P!WalletCommit
  <2> QED BY <1>2, <2>1, <2>2, <2>3 DEF PaymentConstants, P!WalletCommit
<1>3. ASSUME UNCHANGED balance,
             \A g \in Handlers : P!At(g, "wallet", "write")' => request'[g] = request[g]
      PROVE HeldFunds'
  BY <1>3 DEF HeldFunds, P!At, P!Doing
<1>4. ASSUME NEW h \in Handlers, P!WalletRead(h) \/ P!VoidRead(h) PROVE HeldFunds'
  BY <1>4, <1>3, NoneIsNoRequest DEF P!TypeOK, P!At, P!Doing, P!WalletRead, P!VoidRead, P!Begin
<1>8. ASSUME NEW h \in Handlers, NEW o \in Orders, P!VerifyRead(h, o) PROVE HeldFunds'
  BY <1>8, <1>3, NoneIsNoRequest DEF P!TypeOK, P!At, P!Doing, P!VerifyRead, P!Begin
<1>9. ASSUME NEW h \in Handlers, NEW a \in 1..Share, P!NoteRead(h, a) PROVE HeldFunds'
  BY <1>9, <1>3, NoneIsNoRequest DEF P!TypeOK, P!At, P!Doing, P!NoteRead, P!Begin
<1>5. ASSUME NEW h \in Handlers,
             P!Settle(h) \/ P!Record(h) \/ P!VoidWrite(h) \/ P!NoteWrite(h) \/ P!Abandon(h)
      PROVE HeldFunds'
  <2>1. CASE P!Settle(h)
    <3> request'[h].op = "gateway"
      <4> [request[h] EXCEPT !.pc = "record"].op = "gateway"
        BY <2>1, RequestTypes DEF P!Settle, P!At, P!Doing, P!Job
      <4> QED BY <2>1 DEF P!TypeOK, P!Settle
    <3> QED BY <2>1, <1>3 DEF P!TypeOK, P!Settle, P!At, P!Doing
  <2>2. ASSUME P!End(h), UNCHANGED balance PROVE HeldFunds'
    BY <2>2, <1>3 DEF P!TypeOK, P!End, P!At, P!Doing
  <2> QED BY <1>5, <2>1, <2>2 DEF P!Record, P!VoidWrite, P!NoteWrite, P!Abandon
<1>6. ASSUME NEW o \in Orders, P!CreateOrder(o) \/ P!Capture(o) PROVE HeldFunds'
  BY <1>6, <1>3 DEF P!CreateOrder, P!Capture
<1>7. CASE UNCHANGED P!vars
  BY <1>7, <1>3 DEF P!vars, P!At, P!Doing
<1> QED BY <1>1, <1>2, <1>4, <1>5, <1>6, <1>7, <1>8, <1>9 DEF P!Next

-----------------------------------------------------------------------------

\* What no step may undo.
NothingUndone ==
    /\ status # "INVOICED" => status' # "INVOICED"
    /\ \A o \in Orders : order[o] # None /\ order[o].state # "open" =>
          order'[o] # None /\ order'[o].state # "open"

\* No step makes a settled or void invoice payable again, and no order that has been paid
\* is open again or forgotten.
LEMMA StepUndoesNothing ==
    ASSUME PaymentConstants
    PROVE  P!TypeOK /\ GatewayJobs /\ [P!Next]_(P!vars) => NothingUndone
<1> SUFFICES ASSUME P!TypeOK, GatewayJobs, [P!Next]_(P!vars) PROVE NothingUndone
  OBVIOUS
<1>1. ASSUME NEW o \in Orders, P!CreateOrder(o) \/ P!Capture(o) PROVE NothingUndone
  <2>1. order[o] = None \/ order[o].state = "open"
    BY <1>1 DEF P!CreateOrder, P!Capture
  <2>2. UNCHANGED status /\ \A q \in Orders \ {o} : order'[q] = order[q]
    BY <1>1 DEF P!CreateOrder, P!Capture, P!TypeOK
  <2> QED BY <2>1, <2>2 DEF NothingUndone
<1>2. ASSUME NEW h \in Handlers, P!Record(h) PROVE NothingUndone
  <2> DEFINE o == request[h].order
  <2>1. o \in Orders /\ order[o] \in P!Order
    BY <1>2, RequestTypes DEF P!Record, P!At, P!Doing, GatewayJobs, P!TypeOK
  <2>2. [order[o] EXCEPT !.state = "recorded"] \in P!Order
    BY <2>1 DEF P!Order
  <2>3. /\ order'[o] = [order[o] EXCEPT !.state = "recorded"]
        /\ \A q \in Orders \ {o} : order'[q] = order[q]
    BY <1>2, <2>1 DEF P!Record, P!TypeOK
  <2>4. order'[o] # None /\ order'[o].state = "recorded"
    BY <2>1, <2>2, <2>3, NoneIsNoRequest DEF P!Order
  <2> QED BY <1>2, <2>3, <2>4 DEF P!Record, NothingUndone
<1>3. ASSUME NEW h \in Handlers, P!WalletRead(h) \/ P!WalletDebit(h) \/ P!WalletCommit(h)
      PROVE  NothingUndone
  BY <1>3 DEF P!WalletRead, P!WalletDebit, P!WalletCommit, NothingUndone
<1>4. ASSUME NEW h \in Handlers, NEW o \in Orders, P!VerifyRead(h, o) PROVE NothingUndone
  BY <1>4 DEF P!VerifyRead, NothingUndone
<1>5. ASSUME NEW h \in Handlers,
             P!Settle(h) \/ P!VoidRead(h) \/ P!VoidWrite(h) \/ P!NoteWrite(h) \/ P!Abandon(h)
      PROVE NothingUndone
  BY <1>5 DEF P!Settle, P!VoidRead, P!VoidWrite, P!NoteWrite, P!Abandon, NothingUndone
<1>6. ASSUME NEW h \in Handlers, NEW a \in 1..Share, P!NoteRead(h, a) PROVE NothingUndone
  BY <1>6 DEF P!NoteRead, NothingUndone
<1>7. CASE UNCHANGED P!vars
  BY <1>7 DEF P!vars, NothingUndone
<1> QED BY <1>1, <1>2, <1>3, <1>4, <1>5, <1>6, <1>7 DEF P!Next

\* A gateway request keeps its paid order, and settles before it records.
LEMMA GatewayStep ==
    ASSUME PaymentConstants
    PROVE  P!TypeOK /\ GatewayJobs /\ [P!Next]_(P!vars) => GatewayJobs'
<1> SUFFICES ASSUME P!TypeOK, GatewayJobs, [P!Next]_(P!vars) PROVE GatewayJobs'
  OBVIOUS
<1>1. ASSUME \A g \in Handlers : request'[g] # None /\ request'[g].op = "gateway" =>
                \/ request'[g] = request[g]
                \/ /\ request'[g].order \in Orders
                   /\ order[request'[g].order] # None /\ order[request'[g].order].state # "open"
                   /\ request'[g].pc = "record" => status' # "INVOICED"
      PROVE  GatewayJobs'
  <2> SUFFICES ASSUME NEW g \in Handlers, request'[g] # None, request'[g].op = "gateway"
               PROVE  /\ order'[request'[g].order] # None
                      /\ order'[request'[g].order].state # "open"
                      /\ request'[g].pc = "record" => status' # "INVOICED"
    BY DEF GatewayJobs, P!Doing
  <2>1. CASE request'[g] = request[g]
    BY <2>1, RequestTypes, StepUndoesNothing DEF NothingUndone, GatewayJobs, P!Doing
  <2> QED BY <1>1, <2>1, StepUndoesNothing DEF NothingUndone
<1>2. ASSUME NEW h \in Handlers, NEW o \in Orders, P!VerifyRead(h, o) PROVE GatewayJobs'
  <2> DEFINE j(pc) == [op |-> "gateway", pc |-> pc, order |-> o]
  <2>1. \/ request' = [request EXCEPT ![h] = j("write")]
        \/ request' = [request EXCEPT ![h] = j("record")] /\ status' = "PAID"
    BY <1>2 DEF P!VerifyRead, P!Begin
  <2>2. /\ \A g \in Handlers \ {h} : request'[g] = request[g]
        /\ request'[h] = j("write") \/ (request'[h] = j("record") /\ status' = "PAID")
    BY <2>1 DEF P!TypeOK
  <2>3. order[o] # None /\ order[o].state # "open"
    BY <1>2 DEF P!VerifyRead
  <2> QED BY <1>1, <2>2, <2>3
<1>3. ASSUME NEW h \in Handlers, P!Settle(h) PROVE GatewayJobs'
  <2>1. request[h] # None /\ request[h] \in P!Job /\ request[h].op = "gateway"
    BY <1>3 DEF P!Settle, P!At, P!Doing, P!TypeOK
  <2>2. [request[h] EXCEPT !.pc = "record"].order = request[h].order
    BY <2>1 DEF P!Job
  <2>3. /\ request'[h] = [request[h] EXCEPT !.pc = "record"]
        /\ \A g \in Handlers \ {h} : request'[g] = request[g]
    BY <1>3 DEF P!Settle, P!TypeOK
  <2>4. /\ request[h].order \in Orders /\ order[request[h].order] # None
        /\ order[request[h].order].state # "open"
    BY <2>1, RequestTypes DEF GatewayJobs, P!Doing
  <2> QED BY <1>1, <1>3, <2>2, <2>3, <2>4 DEF P!Settle
<1>4. ASSUME NEW h \in Handlers, P!End(h) PROVE GatewayJobs'
  BY <1>1, <1>4 DEF P!End, P!TypeOK
<1>5. ASSUME NEW h \in Handlers, P!WalletDebit(h) PROVE GatewayJobs'
  <2>1. CASE request' = [request EXCEPT ![h].pc = "write"]
    <3>1. request[h] # None /\ request[h] \in P!Job /\ request[h].op = "wallet"
      BY <1>5 DEF P!WalletDebit, P!At, P!Doing, P!TypeOK
    <3>2. [request[h] EXCEPT !.pc = "write"].op = "wallet"
      BY <3>1 DEF P!Job
    <3> QED BY <1>1, <2>1, <3>2 DEF P!TypeOK
  <2> QED BY <1>4, <1>5, <2>1 DEF P!WalletDebit
<1>6. ASSUME NEW h \in Handlers, P!WalletRead(h) \/ P!VoidRead(h) PROVE GatewayJobs'
  BY <1>1, <1>6 DEF P!WalletRead, P!VoidRead, P!Begin, P!TypeOK
<1>7. ASSUME NEW h \in Handlers, NEW a \in 1..Share, P!NoteRead(h, a) PROVE GatewayJobs'
  BY <1>1, <1>7 DEF P!NoteRead, P!Begin, P!TypeOK
<1>8. ASSUME NEW h \in Handlers,
             P!WalletCommit(h) \/ P!Record(h) \/ P!VoidWrite(h) \/ P!NoteWrite(h) \/ P!Abandon(h)
      PROVE GatewayJobs'
  BY <1>4, <1>8 DEF P!WalletCommit, P!Record, P!VoidWrite, P!NoteWrite, P!Abandon
<1>9. ASSUME NEW o \in Orders, P!CreateOrder(o) \/ P!Capture(o) PROVE GatewayJobs'
  BY <1>1, <1>9 DEF P!CreateOrder, P!Capture
<1>10. CASE UNCHANGED P!vars
  BY <1>1, <1>10 DEF P!vars
<1> QED BY <1>2, <1>3, <1>5, <1>6, <1>7, <1>8, <1>9, <1>10 DEF P!Next

\* An order is recorded only for a settled invoice.
LEMMA RecordedStep ==
    ASSUME PaymentConstants
    PROVE  P!TypeOK /\ GatewayJobs /\ RecordedIsSettled /\ [P!Next]_(P!vars) => RecordedIsSettled'
<1> SUFFICES ASSUME P!TypeOK, GatewayJobs, RecordedIsSettled, [P!Next]_(P!vars),
                    NEW o \in Orders, order'[o] # None, order'[o].state = "recorded"
             PROVE  status' # "INVOICED"
  BY DEF RecordedIsSettled
<1>1. CASE order'[o] = order[o]
  BY <1>1, StepUndoesNothing DEF NothingUndone, RecordedIsSettled
<1>2. ASSUME NEW q \in Orders, P!CreateOrder(q) PROVE status' # "INVOICED"
  <2> order'[q].state = "open" /\ \A p \in Orders \ {q} : order'[p] = order[p]
    BY <1>2 DEF P!CreateOrder, P!TypeOK
  <2> QED BY <1>1
<1>3. ASSUME NEW q \in Orders, P!Capture(q) PROVE status' # "INVOICED"
  <2>1. order[q] \in P!Order
    BY <1>3 DEF P!Capture, P!TypeOK
  <2>2. [order[q] EXCEPT !.state = "captured"].state = "captured"
    BY <2>1 DEF P!Order
  <2>3. order'[q].state = "captured" /\ \A p \in Orders \ {q} : order'[p] = order[p]
    BY <1>3, <2>2 DEF P!Capture, P!TypeOK
  <2> QED BY <1>1, <2>3
<1>4. ASSUME NEW h \in Handlers, P!Record(h) PROVE status' # "INVOICED"
  BY <1>4, StepUndoesNothing DEF NothingUndone, P!Record, P!At, GatewayJobs
<1>5. CASE UNCHANGED order
  BY <1>1, <1>5
<1> QED
  BY <1>2, <1>3, <1>4, <1>5
  DEF P!Next, P!vars, P!WalletRead, P!WalletDebit, P!WalletCommit, P!VerifyRead, P!Settle,
      P!VoidRead,
      P!VoidWrite, P!NoteRead, P!NoteWrite, P!Abandon

-----------------------------------------------------------------------------

\* A step that begins no payment.
NothingBegun ==
    /\ \A g \in Handlers : P!Doing(g, "wallet")' => P!Doing(g, "wallet")
    /\ \A o \in Orders : order'[o] # None => order[o] # None

\* Only a wallet request and a new order begin a payment.
LEMMA OthersBeginNothing ==
    ASSUME PaymentConstants
    PROVE  P!TypeOK /\ GatewayJobs /\ [P!Next]_(P!vars) =>
           \/ NothingBegun
           \/ \E h \in Handlers : P!WalletRead(h)
           \/ \E o \in Orders : P!CreateOrder(o)
<1> SUFFICES ASSUME P!TypeOK, GatewayJobs, [P!Next]_(P!vars),
                    \A h \in Handlers : ~P!WalletRead(h), \A o \in Orders : ~P!CreateOrder(o)
             PROVE  NothingBegun
  OBVIOUS
<1>1. ASSUME NEW o \in Orders, P!Capture(o) PROVE NothingBegun
  BY <1>1 DEF P!Capture, NothingBegun, P!Doing, P!TypeOK
<1>2. ASSUME NEW h \in Handlers, P!End(h), UNCHANGED order PROVE NothingBegun
  BY <1>2 DEF P!End, NothingBegun, P!Doing, P!TypeOK
<1>3. ASSUME NEW h \in Handlers, P!WalletDebit(h) PROVE NothingBegun
  <2>1. CASE request' = [request EXCEPT ![h].pc = "write"]
    BY <1>3, <2>1 DEF P!WalletDebit, P!At, NothingBegun, P!Doing, P!TypeOK
  <2> QED BY <1>2, <1>3, <2>1 DEF P!WalletDebit
<1>4. ASSUME NEW h \in Handlers, P!Settle(h) PROVE NothingBegun
  <2>1. request[h] # None /\ request[h] \in P!Job /\ request[h].op = "gateway"
    BY <1>4 DEF P!Settle, P!At, P!Doing, P!TypeOK
  <2>2. [request[h] EXCEPT !.pc = "record"].op = "gateway"
    BY <2>1 DEF P!Job
  <2> QED BY <1>4, <2>2 DEF P!Settle, NothingBegun, P!Doing, P!TypeOK
<1>5. ASSUME NEW h \in Handlers, P!Record(h) PROVE NothingBegun
  <2>1. request[h].order \in Orders /\ order[request[h].order] # None
    BY <1>5, RequestTypes DEF P!Record, P!At, P!Doing, GatewayJobs
  <2>2. \A o \in Orders : order'[o] # None => order[o] # None
    BY <1>5, <2>1 DEF P!Record, P!TypeOK
  <2> QED BY <1>5, <2>2 DEF P!Record, P!End, NothingBegun, P!Doing, P!TypeOK
<1>6. ASSUME NEW h \in Handlers, NEW o \in Orders, P!VerifyRead(h, o) PROVE NothingBegun
  BY <1>6 DEF P!VerifyRead, P!Begin, NothingBegun, P!Doing, P!TypeOK
<1>7. ASSUME NEW h \in Handlers, P!VoidRead(h) PROVE NothingBegun
  BY <1>7 DEF P!VoidRead, P!Begin, NothingBegun, P!Doing, P!TypeOK
<1>8. ASSUME NEW h \in Handlers, NEW a \in 1..Share, P!NoteRead(h, a) PROVE NothingBegun
  BY <1>8 DEF P!NoteRead, P!Begin, NothingBegun, P!Doing, P!TypeOK
<1>9. ASSUME NEW h \in Handlers,
             P!WalletCommit(h) \/ P!VoidWrite(h) \/ P!NoteWrite(h) \/ P!Abandon(h)
      PROVE NothingBegun
  BY <1>2, <1>9 DEF P!WalletCommit, P!VoidWrite, P!NoteWrite, P!Abandon
<1>10. CASE UNCHANGED P!vars
  BY <1>10 DEF P!vars, NothingBegun, P!Doing
<1> QED BY <1>1, <1>3, <1>4, <1>5, <1>6, <1>7, <1>8, <1>9, <1>10 DEF P!Next

\* A payment begun while none is open is the only one, and nothing was charged before.
LEMMA FirstPayment ==
    ASSUME PaymentConstants, PayInv, ~overlapped, ~P!PaymentOpen, P!Payable
    PROVE  /\ \A h \in Handlers : ~P!Doing(h, "wallet")
           /\ \A o \in Orders : order[o] = None
           /\ charges = 0
<1>1. \A h \in Handlers : ~P!Doing(h, "wallet")
  BY DEF P!PaymentOpen
<1>2. \A o \in Orders : order[o] = None
  BY DEF P!PaymentOpen, P!Payable, PayInv, RecordedIsSettled
<1> QED BY <1>1, <1>2 DEF PayInv, ChargeIsOver, P!Payable

\* As long as no two payments were open together, there is one at most and it charges once.
LEMMA OnceStep ==
    ASSUME PaymentConstants, PayInv, [P!Next]_(P!vars), ~overlapped'
    PROVE  OnePayment' /\ ChargeIsOver'
<1> P!TypeOK /\ GatewayJobs
  BY DEF PayInv
<1>1. ~overlapped
  BY DEF P!Next, P!vars, P!Overlap, P!WalletRead, P!WalletDebit, P!WalletCommit,
         P!CreateOrder, P!Capture, P!VerifyRead, P!Settle, P!Record, P!VoidRead,
         P!VoidWrite, P!NoteRead, P!NoteWrite, P!Abandon
<1>2. OnePayment /\ ChargeIsOver
  BY <1>1 DEF PayInv
<1>3. ASSUME NEW h \in Handlers, P!WalletRead(h) PROVE OnePayment' /\ ChargeIsOver'
  <2>1. ~P!PaymentOpen /\ P!Payable
    BY <1>3 DEF P!WalletRead, P!Overlap
  <2>2. UNCHANGED <<order, charges>> /\ \A g \in Handlers \ {h} : request'[g] = request[g]
    BY <1>3 DEF P!WalletRead, P!Begin, P!TypeOK
  <2> QED BY <1>1, <2>1, <2>2, FirstPayment DEF OnePayment, ChargeIsOver, P!Doing
<1>4. ASSUME NEW o \in Orders, P!CreateOrder(o) PROVE OnePayment' /\ ChargeIsOver'
  <2>1. ~P!PaymentOpen /\ P!Payable
    BY <1>4 DEF P!CreateOrder, P!Overlap
  <2>2. UNCHANGED <<request, charges>> /\ \A q \in Orders \ {o} : order'[q] = order[q]
    BY <1>4 DEF P!CreateOrder, P!TypeOK
  <2> QED BY <1>1, <2>1, <2>2, FirstPayment DEF OnePayment, ChargeIsOver, P!Doing
<1>5. ASSUME NothingBegun PROVE OnePayment' /\ ChargeIsOver'
  <2>1. OnePayment'
    BY <1>2, <1>5 DEF NothingBegun, OnePayment
  <2>2. ASSUME UNCHANGED charges,
               status' # "INVOICED" \/ (status' = status /\ order' = order)
        PROVE  ChargeIsOver'
    BY <1>2, <1>5, <2>2, StepUndoesNothing DEF NothingBegun, ChargeIsOver, NothingUndone
  <2>3. ASSUME NEW h \in Handlers, P!Doing(h, "wallet"), charges' = 1, status' = "PAID", P!End(h),
               UNCHANGED order
        PROVE  ChargeIsOver'
    <3>1. \A g \in Handlers : ~P!Doing(g, "wallet")'
      BY <1>2, <1>5, <2>3 DEF NothingBegun, OnePayment, P!End, P!TypeOK, P!Doing
    <3>2. \A o \in Orders : order'[o] = None
      BY <1>2, <2>3 DEF OnePayment
    <3> QED BY <2>3, <3>1, <3>2 DEF ChargeIsOver
  <2>4. ASSUME NEW h \in Handlers, P!WalletDebit(h) \/ P!WalletCommit(h) PROVE ChargeIsOver'
    <3>1. P!Doing(h, "wallet") /\ charges = 0
      BY <1>2, <2>4 DEF P!WalletDebit, P!WalletCommit, P!At, ChargeIsOver
    <3>2. CASE charges' = charges
      BY <3>1, <3>2 DEF ChargeIsOver
    <3>3. CASE charges' # charges
      <4> charges' = 1 /\ status' = "PAID" /\ P!End(h) /\ UNCHANGED order
        BY <2>4, <3>1, <3>3 DEF P!WalletDebit, P!WalletCommit, P!Charge
      <4> QED BY <2>3, <3>1
    <3> QED BY <3>2, <3>3
  <2>5. ASSUME NEW o \in Orders, P!Capture(o) PROVE ChargeIsOver'
    <3>1. order[o] # None /\ order[o] \in P!Order /\ order[o].state = "open"
      BY <2>5 DEF P!Capture, P!TypeOK
    <3>2. [order[o] EXCEPT !.state = "captured"] \in P!Order
      BY <3>1 DEF P!Order
    <3>3. /\ order'[o] = [order[o] EXCEPT !.state = "captured"]
          /\ \A q \in Orders \ {o} : order'[q] = order[q]
      BY <2>5 DEF P!Capture, P!TypeOK
    <3>4. order'[o] # None /\ order'[o].state = "captured"
      BY <3>1, <3>2, <3>3, NoneIsNoRequest DEF P!Order
    <3>5. \A q \in Orders : order'[q] # None => q = o
      BY <1>2, <1>5, <3>1 DEF OnePayment, NothingBegun
    <3>6. charges' = 1
      <4>1. charges = 0
        BY <1>2, <3>1 DEF ChargeIsOver
      <4> QED BY <2>5, <3>1, <4>1 DEF PaymentConstants, P!Capture, P!Charge, P!Order
    <3>7. \A h \in Handlers : ~P!Doing(h, "wallet")'
      BY <1>2, <1>5, <3>1 DEF OnePayment, NothingBegun
    <3> QED BY <3>4, <3>5, <3>6, <3>7 DEF ChargeIsOver
  <2>6. ASSUME NEW h \in Handlers, P!Settle(h) \/ P!Record(h) \/ P!VoidWrite(h) PROVE ChargeIsOver'
    BY <2>2, <2>6 DEF P!Settle, P!Record, P!VoidWrite, P!At, GatewayJobs
  <2>7. ASSUME NEW h \in Handlers, P!VoidRead(h) \/ P!NoteWrite(h) \/ P!Abandon(h)
        PROVE  ChargeIsOver'
    BY <2>2, <2>7 DEF P!VoidRead, P!NoteWrite, P!Abandon
  <2>8. ASSUME NEW h \in Handlers, NEW o \in Orders, P!VerifyRead(h, o) PROVE ChargeIsOver'
    BY <2>2, <2>8 DEF P!VerifyRead
  <2>9. ASSUME NEW h \in Handlers, NEW a \in 1..Share, P!NoteRead(h, a) PROVE ChargeIsOver'
    BY <2>2, <2>9 DEF P!NoteRead
  <2>10. ASSUME UNCHANGED P!vars PROVE ChargeIsOver'
    <3> charges' = charges /\ status' = status /\ order' = order
      BY <2>10 DEF P!vars
    <3> QED BY <2>2
  <2>11. ASSUME NEW h \in Handlers, P!WalletRead(h) PROVE ChargeIsOver'
    BY <1>3, <2>11
  <2>12. ASSUME NEW o \in Orders, P!CreateOrder(o) PROVE ChargeIsOver'
    BY <1>4, <2>12
  <2>13. ChargeIsOver'
    BY <2>4, <2>5, <2>6, <2>7, <2>8, <2>9, <2>10, <2>11, <2>12 DEF P!Next
  <2> QED BY <2>1, <2>13
<1> QED BY <1>3, <1>4, <1>5, OthersBeginNothing

-----------------------------------------------------------------------------

\* The invariant holds at the start.
LEMMA PaymentsInitially ==
    ASSUME PaymentConstants
    PROVE  P!Init => PayInv
<1> SUFFICES ASSUME P!Init PROVE PayInv
  OBVIOUS
<1>1. P!TypeOK
  <2>1. order \in [Orders -> P!Order \cup {None}] /\ request \in [Handlers -> P!Job \cup {None}]
    BY DEF P!Init
  <2>2. balance \in 0..Funds /\ note \in 0..Share
    BY DEF PaymentConstants, P!Init
  <2> QED BY <2>1, <2>2 DEF P!Init, P!TypeOK, P!Status
<1> QED
  BY <1>1 DEF P!Init, PayInv, HeldFunds, GatewayJobs, RecordedIsSettled, OnePayment, ChargeIsOver,
              P!At, P!Doing

\* The invariant holds in every state.
LEMMA PaymentInvariance ==
    ASSUME PaymentConstants
    PROVE  P!Spec => []PayInv
<1>1. PayInv /\ [P!Next]_(P!vars) => PayInv'
  <2> SUFFICES ASSUME PayInv, [P!Next]_(P!vars) PROVE PayInv'
    OBVIOUS
  <2>1. P!TypeOK' /\ HeldFunds' /\ GatewayJobs' /\ RecordedIsSettled'
    BY PaymentTypeStep, HeldStep, GatewayStep, RecordedStep DEF PayInv
  <2>2. ~overlapped' => OnePayment' /\ ChargeIsOver'
    BY OnceStep
  <2> QED BY <2>1, <2>2 DEF PayInv
<1> QED BY PaymentsInitially, <1>1, PTL DEF P!Spec

\* Every variable keeps its type.
THEOREM PaymentTypes ==
    ASSUME PaymentConstants
    PROVE  P!Spec => []P!TypeOK
<1>1. PayInv => P!TypeOK
  BY DEF PayInv
<1> QED BY PaymentInvariance, <1>1, PTL

\* An invoice is charged twice only by payments that were open at the same time
\* (payMonthlyRevenueInvoiceFromWallet, createOrder, settleRevenueInvoiceAfterGateway).
THEOREM SecondChargeNeedsAnOverlap ==
    ASSUME PaymentConstants
    PROVE  P!Spec => []P!ChargedTwiceOnlyIfOverlapping
<1>1. PayInv => P!ChargedTwiceOnlyIfOverlapping
  BY DEF PayInv, P!TypeOK, ChargeIsOver, P!ChargedTwiceOnlyIfOverlapping
<1> QED BY PaymentInvariance, <1>1, PTL

\* No step takes money from the wallet and leaves the invoice unpaid.
THEOREM NoDebitWithoutPaid ==
    ASSUME PaymentConstants
    PROVE  P!Spec => P!DebitOnlyWithPaid
<1>1. P!TypeOK /\ [P!Next]_(P!vars) => [balance' < balance => status' = "PAID"]_(P!vars)
  <2> SUFFICES ASSUME P!TypeOK, [P!Next]_(P!vars), balance' < balance PROVE status' = "PAID"
    OBVIOUS
  <2>1. balance \in Nat /\ balance' # balance
    BY DEF PaymentConstants, P!TypeOK
  <2> QED
    BY <2>1 DEF P!Next, P!vars, P!WalletRead, P!WalletDebit, P!WalletCommit,
           P!CreateOrder, P!Capture, P!VerifyRead, P!Settle, P!Record, P!VoidRead,
           P!VoidWrite, P!NoteRead, P!NoteWrite, P!Abandon
<1> QED BY PaymentTypes, <1>1, PTL DEF P!Spec, P!DebitOnlyWithPaid
=============================================================================
