------------------------------ MODULE Deposits ------------------------------
(***************************************************************************)
(* Deposits made outside the gateway (UPI, bank) and an admin's decision   *)
(* about them: manualDeposit of paymentController.ts, createDeposit of     *)
(* userController.ts, updateDepositStatus of adminController.ts.           *)
(*                                                                         *)
(* A deposit is a DepositRequest row and, if manualDeposit made it, the    *)
(* PENDING PaymentTransaction that belongs to it.                          *)
(*                                                                         *)
(* Atomicity.  The decision is taken on rows read before the transaction;  *)
(* the transaction starts by updating the deposit, so that two of them for *)
(* one deposit run one after the other; the user is told after the commit. *)
(***************************************************************************)
EXTENDS Integers

CONSTANTS
    Deposits,
    Workers,      \* admin requests served at the same time
    MaxRefusals,  \* bound: decisions REJECTED that may be asked for one deposit
    None          \* no deposit, no job

ASSUME RefusalAssumption == MaxRefusals \in Nat

VARIABLES
    deposit,   \* deposit[d]: status of the request and of its payment row, or None
    credits,   \* credits[d]: MANUAL_DEPOSIT postings to the user's wallet
    told,      \* the deposits whose user was notified of a credit
    refusals,  \* history: refusals[d], decisions REJECTED asked for d
    raced,     \* history: the deposits for which two decisions overlapped
    job        \* job[w]: the decision worker w is carrying out

vars == <<deposit, credits, told, refusals, raced, job>>

Status == {"PENDING", "APPROVED", "REJECTED"}
Deposit == [status : Status, payment : Status \cup {"NONE"}]
Decision == [kind : {"decide"}, deposit : Deposits, status : {"APPROVED", "REJECTED"},
             payment : Status \cup {"NONE"}]
Notice == [kind : {"notify"}, deposit : Deposits]

ASSUME NoneAssumption == None \notin Deposit \cup Decision \cup Notice

TypeOK ==
    /\ deposit \in [Deposits -> Deposit \cup {None}]
    /\ credits \in [Deposits -> Nat]
    /\ told \subseteq Deposits
    /\ refusals \in [Deposits -> 0..MaxRefusals]
    /\ raced \subseteq Deposits
    /\ job \in [Workers -> Decision \cup Notice \cup {None}]

Init ==
    /\ deposit = [d \in Deposits |-> None]
    /\ credits = [d \in Deposits |-> 0]
    /\ told = {}
    /\ refusals = [d \in Deposits |-> 0]
    /\ raced = {}
    /\ job = [w \in Workers |-> None]

Is(w, kind) == job[w] # None /\ job[w].kind = kind
End(w) == job' = [job EXCEPT ![w] = None]

-----------------------------------------------------------------------------

\* manualDeposit: request and payment row in one transaction.
ManualDeposit(d) ==
    /\ deposit[d] = None
    /\ deposit' = [deposit EXCEPT ![d] = [status |-> "PENDING", payment |-> "PENDING"]]
    /\ UNCHANGED <<credits, told, refusals, raced, job>>

\* createDeposit: a request without a payment row.
CreateDeposit(d) ==
    /\ deposit[d] = None
    /\ deposit' = [deposit EXCEPT ![d] = [status |-> "PENDING", payment |-> "NONE"]]
    /\ UNCHANGED <<credits, told, refusals, raced, job>>

\* updateDepositStatus reads the deposit with its payment row.  Any decision may be
\* asked for a deposit in any status.
Decide(w, d, status) ==
    /\ deposit[d] # None
    /\ job[w] = None
    /\ status = "REJECTED" => refusals[d] < MaxRefusals
    /\ refusals' = IF status = "REJECTED" THEN [refusals EXCEPT ![d] = @ + 1] ELSE refusals
    /\ job' = [job EXCEPT ![w] = [kind |-> "decide", deposit |-> d, status |-> status,
                                  payment |-> deposit[d].payment]]
    /\ raced' = IF \E v \in Workers : Is(v, "decide") /\ job[v].deposit = d
                THEN raced \cup {d} ELSE raced
    /\ UNCHANGED <<deposit, credits, told>>

\* Deviation, for the mutation of ToCredit: whether the payment was credited before is
\* not asked.
ToCreditAlways(j) == j.status = "APPROVED" /\ j.payment # "NONE"

\* An approval credits the wallet unless the payment row was read APPROVED.
ToCredit(j) == j.status = "APPROVED" /\ j.payment \notin {"NONE", "APPROVED"}

\* Deviation, for the mutation of NewPayment: only a credit touches the payment row.
NewPaymentIfCredited(j, old) == IF ToCredit(j) THEN "APPROVED" ELSE old

\* The payment row follows a credit and a refusal.
NewPayment(j, old) ==
    IF ToCredit(j) THEN "APPROVED"
    ELSE IF j.status = "REJECTED" /\ j.payment # "NONE" THEN "REJECTED"
    ELSE old

\* Deviation, for the mutation of Apply: only a pending payment is credited, though
\* every approval marks the payment row.
ApplyToPending(w) ==
    /\ Is(w, "decide")
    /\ LET d == job[w].deposit
       IN  /\ deposit' = [deposit EXCEPT ![d] =
                  [status |-> job[w].status, payment |-> NewPayment(job[w], @.payment)]]
           /\ credits' = IF ToCredit(job[w]) /\ job[w].payment = "PENDING"
                         THEN [credits EXCEPT ![d] = @ + 1] ELSE credits
           /\ End(w)
    /\ UNCHANGED <<told, refusals, raced>>

\* The transaction of updateDepositStatus.
Apply(w) ==
    /\ Is(w, "decide")
    /\ LET d == job[w].deposit
       IN  /\ deposit' = [deposit EXCEPT ![d] =
                  [status |-> job[w].status, payment |-> NewPayment(job[w], @.payment)]]
           /\ credits' = IF ToCredit(job[w]) THEN [credits EXCEPT ![d] = @ + 1] ELSE credits
           /\ job' = [job EXCEPT ![w] =
                  IF @.status = "APPROVED" THEN [kind |-> "notify", deposit |-> d] ELSE None]
    /\ UNCHANGED <<told, refusals, raced>>

\* "Your deposit request has been approved and your wallet has been credited."
Notify(w) ==
    /\ Is(w, "notify")
    /\ told' = told \cup {job[w].deposit}
    /\ End(w)
    /\ UNCHANGED <<deposit, credits, refusals, raced>>

\* A request dies; its transaction, if open, leaves nothing.
Abort(w) ==
    /\ job[w] # None
    /\ End(w)
    /\ UNCHANGED <<deposit, credits, told, refusals, raced>>

Next ==
    \/ \E d \in Deposits : ManualDeposit(d) \/ CreateDeposit(d)
    \/ \E w \in Workers, d \in Deposits, s \in {"APPROVED", "REJECTED"} : Decide(w, d, s)
    \/ \E w \in Workers : Apply(w) \/ Notify(w) \/ Abort(w)

Spec == Init /\ [][Next]_vars

-----------------------------------------------------------------------------
(* Properties *)

\* A payment row that reads APPROVED has been credited, however approvals and
\* refusals of the deposit overlap.
ApprovedPaymentIsCredited ==
    \A d \in Deposits :
        deposit[d] # None /\ deposit[d].payment = "APPROVED" => credits[d] >= 1

\* A deposit whose decisions never overlapped is credited once, and once more for each
\* time it was refused in between, whatever requests died.
OneCreditPerApproval == \A d \in Deposits \ raced : credits[d] <= 1 + refusals[d]

\* A deposit whose decisions never overlapped has the status of its payment row.
StatusesAgree ==
    \A d \in Deposits \ raced :
        deposit[d] # None /\ deposit[d].payment # "NONE" => deposit[d].payment = deposit[d].status

-----------------------------------------------------------------------------
(* Refinement *)

PaymentOf ==
    [d \in Deposits |-> IF deposit[d] = None THEN "NONE" ELSE deposit[d].payment]

Contract == INSTANCE DepositContract WITH
    payment <- PaymentOf,
    contested <- raced

\* Decisions that read the rows before their transaction have the effect of decisions
\* taken at once, except between decisions that overlap.
ImplementsContract == Contract!Spec
=============================================================================
