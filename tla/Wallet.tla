------------------------------- MODULE Wallet -------------------------------
(***************************************************************************)
(* The member wallet: walletWithdrawalService.ts and walletController.ts.  *)
(*                                                                         *)
(* Rows.  Wallet(balance, lockedBalance, pendingFees), one per user; a     *)
(* missing row behaves as one of zeros, which every writer upserts.        *)
(* Transaction(user, amount, type, status), the ledger the admin panel     *)
(* works from.  WalletWithdrawalRequest, identified here by its unique     *)
(* ledgerTransactionId.                                                    *)
(*                                                                         *)
(* Atomicity.  Postgres runs at READ COMMITTED.  A transaction whose       *)
(* decisions are all WHERE clauses of its own UPDATEs holds the row locks  *)
(* up to its commit and is one step.  A transaction that decides from a    *)
(* plain SELECT and then writes by primary key is two: the read, and the   *)
(* writes it makes whatever has happened since.                            *)
(*                                                                         *)
(* Amounts are integers here; the columns are doubles.                     *)
(***************************************************************************)
EXTENDS Integers, FiniteSetsExt

CONSTANTS
    Users,
    TxnIds,       \* primary keys of Transaction rows that may be used
    Amounts,      \* amounts a caller may ask for
    FeeHolds,     \* values the pendingFees column may start with
    Handlers,     \* admin requests POST /wallet/approve being served
    Absent,       \* a Transaction row that does not exist
    Idle          \* a handler between two requests

ASSUME AmountsAssumption == Amounts \subseteq Nat \ {0}
ASSUME FeeHoldsAssumption == FeeHolds \subseteq Nat

VARIABLES
    balance,        \* balance[u]
    lockedBalance,  \* lockedBalance[u]
    pendingFees,    \* pendingFees[u]; this code never changes it
    txn,            \* txn[t]: the Transaction row, or Absent
    withdrawal,     \* withdrawal[t]: status of the request whose ledger row is t
    review,         \* review[h]: what handler h has read and will act on
    credits         \* history: how often approve credited txn t

vars == <<balance, lockedBalance, pendingFees, txn, withdrawal, review, credits>>

TransactionType == {"PAYMENT", "WITHDRAWAL_REQUEST", "ADD", "REMOVE"}
TransactionStatus == {"PENDING", "APPROVED", "REJECTED", "COMPLETED"}
Transaction == [user : Users, amount : Amounts,
                type : TransactionType, status : TransactionStatus]
WithdrawalStatus == {"PENDING", "COMPLETED", "REJECTED"}
Decision == {"APPROVED", "REJECTED"}
Review == [txn : TxnIds, action : Decision]

ASSUME AbsentAssumption == Absent \notin Transaction
ASSUME IdleAssumption == Idle \notin Review

TypeOK ==
    /\ balance \in [Users -> Nat]
    /\ lockedBalance \in [Users -> Nat]
    /\ pendingFees \in [Users -> Nat]
    /\ txn \in [TxnIds -> Transaction \cup {Absent}]
    /\ withdrawal \in [TxnIds -> WithdrawalStatus \cup {"NONE"}]
    /\ review \in [Handlers -> Review \cup {Idle}]
    /\ credits \in [TxnIds -> Nat]

Init ==
    /\ balance = [u \in Users |-> 0]
    /\ lockedBalance = [u \in Users |-> 0]
    /\ pendingFees \in [Users -> FeeHolds]
    /\ txn = [t \in TxnIds |-> Absent]
    /\ withdrawal = [t \in TxnIds |-> "NONE"]
    /\ review = [h \in Handlers |-> Idle]
    /\ credits = [t \in TxnIds |-> 0]

-----------------------------------------------------------------------------
(* Helpers *)

\* Deviation, for the mutation of Withdrawable: the fee hold is not subtracted.
WithdrawableIgnoringFees(u, a) == balance[u] >= a

\* WHERE balance - COALESCE("pendingFees", 0) >= amount
Withdrawable(u, a) == balance[u] - pendingFees[u] >= a

\* prisma.transaction.create: a fresh primary key.
CreateTransaction(t, u, a, type, status) ==
    /\ txn[t] = Absent
    /\ txn' = [txn EXCEPT ![t] = [user |-> u, amount |-> a,
                                  type |-> type, status |-> status]]

-----------------------------------------------------------------------------
(* Operations *)

\* A deposit the user declares with its UTR number; `type` is left to the
\* column's default.
TopUp(u, a, t) ==
    /\ CreateTransaction(t, u, a, "PAYMENT", "PENDING")
    /\ UNCHANGED <<balance, lockedBalance, pendingFees, withdrawal, review, credits>>

\* One transaction: the conditional UPDATE that locks the funds, the ledger row
\* and the request that points at it.
RequestWalletWithdrawal(u, a, t) ==
    /\ Withdrawable(u, a)
    /\ balance' = [balance EXCEPT ![u] = @ - a]
    /\ lockedBalance' = [lockedBalance EXCEPT ![u] = @ + a]
    /\ CreateTransaction(t, u, a, "WITHDRAWAL_REQUEST", "PENDING")
    /\ withdrawal' = [withdrawal EXCEPT ![t] = "PENDING"]
    /\ UNCHANGED <<pendingFees, review, credits>>

\* Deviation, for the mutation of ProcessWalletWithdrawalRequest: the request's
\* status is written by primary key, as the ledger row's is.
ProcessWithoutCompareAndSet(t, action) ==
    /\ withdrawal[t] # "NONE"
    /\ LET u == txn[t].user
           a == txn[t].amount
       IN  /\ lockedBalance[u] >= a
           /\ lockedBalance' = [lockedBalance EXCEPT ![u] = @ - a]
           /\ balance' = IF action = "REJECTED"
                         THEN [balance EXCEPT ![u] = @ + a] ELSE balance
    /\ withdrawal' = [withdrawal EXCEPT ![t] = action]
    /\ txn' = [txn EXCEPT ![t] = [@ EXCEPT !.status = action]]
    /\ UNCHANGED <<pendingFees, review, credits>>

\* Deviation: a rejected request leaves the hold but the money does not come back.
RejectWithoutRefund(t, action) ==
    /\ withdrawal[t] = "PENDING"
    /\ LET u == txn[t].user
           a == txn[t].amount
       IN  /\ lockedBalance[u] >= a
           /\ lockedBalance' = [lockedBalance EXCEPT ![u] = @ - a]
    /\ withdrawal' = [withdrawal EXCEPT ![t] = action]
    /\ txn' = [txn EXCEPT ![t] = [@ EXCEPT !.status = action]]
    /\ UNCHANGED <<balance, pendingFees, review, credits>>

\* An admin completes or rejects a request.  The wallet is moved first, then the
\* compare-and-set on the request's status decides: a request that is no longer
\* PENDING rolls everything back.  The ledger row is overwritten unconditionally.
ProcessWalletWithdrawalRequest(t, action) ==
    /\ withdrawal[t] = "PENDING"
    /\ LET u == txn[t].user
           a == txn[t].amount
       IN  /\ lockedBalance[u] >= a
           /\ lockedBalance' = [lockedBalance EXCEPT ![u] = @ - a]
           /\ balance' = IF action = "REJECTED"
                         THEN [balance EXCEPT ![u] = @ + a] ELSE balance
    /\ withdrawal' = [withdrawal EXCEPT ![t] = action]
    /\ txn' = [txn EXCEPT ![t] = [@ EXCEPT !.status = action]]
    /\ UNCHANGED <<pendingFees, review, credits>>

\* An admin corrects a balance; the row's note says which way.
AdjustUserWalletBalance(u, a, type, t) ==
    /\ type = "REMOVE" => Withdrawable(u, a)
    /\ balance' = [balance EXCEPT ![u] = IF type = "ADD" THEN @ + a ELSE @ - a]
    /\ CreateTransaction(t, u, a, type, "APPROVED")
    /\ UNCHANGED <<lockedBalance, pendingFees, withdrawal, review, credits>>

\* Deviation, for the mutation of ApproveRead: the row's status is not tested.
ApproveReadUnchecked(h, t, action) ==
    /\ review[h] = Idle
    /\ txn[t] # Absent
    /\ review' = [review EXCEPT ![h] = [txn |-> t, action |-> action]]
    /\ UNCHANGED <<balance, lockedBalance, pendingFees, txn, withdrawal, credits>>

\* POST /wallet/approve, first statement: the row is read and must be PENDING.
ApproveRead(h, t, action) ==
    /\ review[h] = Idle
    /\ txn[t] # Absent
    /\ txn[t].status = "PENDING"
    /\ review' = [review EXCEPT ![h] = [txn |-> t, action |-> action]]
    /\ UNCHANGED <<balance, lockedBalance, pendingFees, txn, withdrawal, credits>>

\* The rest of that transaction: the status is written by primary key and, for an
\* approval, the amount credited.
ApproveWrite(h) ==
    /\ review[h] # Idle
    /\ LET t == review[h].txn
           u == txn[t].user
           action == review[h].action
       IN  /\ txn' = [txn EXCEPT ![t] = [@ EXCEPT !.status = action]]
           /\ IF action = "APPROVED"
              THEN /\ balance' = [balance EXCEPT ![u] = @ + txn[t].amount]
                   /\ credits' = [credits EXCEPT ![t] = @ + 1]
              ELSE UNCHANGED <<balance, credits>>
    /\ review' = [review EXCEPT ![h] = Idle]
    /\ UNCHANGED <<lockedBalance, pendingFees, withdrawal>>

\* The transaction is rolled back (a lost connection, a deadlock victim, a restart).
ApproveRollback(h) ==
    /\ review[h] # Idle
    /\ review' = [review EXCEPT ![h] = Idle]
    /\ UNCHANGED <<balance, lockedBalance, pendingFees, txn, withdrawal, credits>>

UserStep(u, a, t) ==
    \/ TopUp(u, a, t)
    \/ RequestWalletWithdrawal(u, a, t)

AdminStep(t) ==
    \/ \E action \in {"COMPLETED", "REJECTED"} : ProcessWalletWithdrawalRequest(t, action)
    \/ \E u \in Users, a \in Amounts, type \in {"ADD", "REMOVE"} :
           AdjustUserWalletBalance(u, a, type, t)
    \/ \E h \in Handlers, action \in Decision : ApproveRead(h, t, action)

Next ==
    \/ \E u \in Users, a \in Amounts, t \in TxnIds : UserStep(u, a, t)
    \/ \E t \in TxnIds : AdminStep(t)
    \/ \E h \in Handlers : ApproveWrite(h) \/ ApproveRollback(h)

Spec == Init /\ [][Next]_vars

-----------------------------------------------------------------------------
(* Properties *)

RowsOf(u) == { t \in TxnIds : txn[t] # Absent /\ txn[t].user = u }
Amount(t) == txn[t].amount
Signed(t) ==
    CASE withdrawal[t] = "COMPLETED" -> -Amount(t)
      [] txn[t].type = "ADD"         -> Amount(t)
      [] txn[t].type = "REMOVE"      -> -Amount(t)
      [] OTHER                       -> 0

\* The locked balance is exactly the sum of the user's open withdrawal requests,
\* whatever admins complete, reject or approve at the same time: the wallet is
\* moved before the request's status is tested, and by another statement.
LockedCoversPending ==
    \A u \in Users :
        lockedBalance[u] =
            MapThenSumSet(Amount, { t \in RowsOf(u) : withdrawal[t] = "PENDING" })

\* Every unit in the wallet is explained by rows: approvals that credited it,
\* admin corrections, and withdrawals paid out.  No interleaving of requests,
\* settlements and approvals makes or loses money on the way.
LedgerExplainsWallet ==
    \A u \in Users :
        balance[u] + lockedBalance[u] =
            MapThenSumSet(LAMBDA t : credits[t] * Amount(t) + Signed(t), RowsOf(u))

\* Once a user has moved money out (a withdrawal or a REMOVE correction), the
\* fees held against the wallet stay covered by what is left, after any later
\* sequence of requests, refusals and refunds.
HeldFeesStayCovered ==
    \A u \in Users :
        (\E t \in RowsOf(u) : txn[t].type \in {"WITHDRAWAL_REQUEST", "REMOVE"})
            => balance[u] >= pendingFees[u]

\* The wallet implements the withdrawal contract: each request's money is held
\* once and leaves the hold once, paid or returned, in the step that settles it.
RequestOf ==
    [t \in TxnIds |->
        IF withdrawal[t] = "NONE" THEN Absent
        ELSE [owner |-> txn[t].user, amount |-> txn[t].amount, state |-> withdrawal[t]]]
Contract == INSTANCE WithdrawalContract WITH
    Requests <- TxnIds,
    NoRequest <- Absent,
    available <- balance,
    held <- lockedBalance,
    request <- RequestOf
ImplementsContract == Contract!Spec

\* A row is credited twice only by approvals that overlap: once it is decided no other
\* handler takes it up, and each of those that had read it before credits it once at
\* most (approve tests a status that may be stale when it writes).
Reviewers(t) == { h \in Handlers : review[h] # Idle /\ review[h].txn = t }
Decided(t) == txn[t] # Absent /\ txn[t].status # "PENDING"
CreditedTwiceOnlyIfOverlapping ==
    [][\A t \in TxnIds : Decided(t) =>
          /\ Reviewers(t)' \subseteq Reviewers(t)
          /\ credits'[t] # credits[t] =>
                /\ credits'[t] = credits[t] + 1
                /\ Reviewers(t)' # Reviewers(t)]_vars
=============================================================================
