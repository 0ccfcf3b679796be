---------------------------- MODULE WalletProofs ----------------------------
(***************************************************************************)
(* Theorems about Wallet for every set of users, rows, amounts and admin   *)
(* handlers: its types, the fee hold, that the ledger explains the         *)
(* balance and the open requests the hold, and that it implements the      *)
(* withdrawal contract.                                                    *)
(***************************************************************************)
EXTENDS Wallet, SumLemmas

\* Rows that something points at exist, and a withdrawal request's ledger row
\* keeps its type.
RowsExist ==
    /\ \A t \in TxnIds : withdrawal[t] # "NONE" => txn[t] # Absent
    /\ \A h \in Handlers : review[h] # Idle => txn[review[h].txn] # Absent

IInv == TypeOK /\ RowsExist

USE AmountsAssumption, FeeHoldsAssumption, AbsentAssumption, IdleAssumption

-----------------------------------------------------------------------------

\* The inductive invariant holds initially.
LEMMA InitIInv == Init => IInv
<1> SUFFICES ASSUME Init PROVE IInv
  OBVIOUS
<1>1. pendingFees \in [Users -> Nat]
  BY DEF Init
<1> QED
  BY <1>1 DEF Init, IInv, TypeOK, RowsExist

\* A row is created under a fresh key, the others stay as they are.
LEMMA CreatedRow ==
    ASSUME TypeOK, NEW t \in TxnIds, NEW u \in Users, NEW a \in Amounts,
           NEW type \in TransactionType, NEW status \in TransactionStatus,
           CreateTransaction(t, u, a, type, status)
    PROVE  /\ txn' \in [TxnIds -> Transaction \cup {Absent}]
           /\ txn'[t] = [user |-> u, amount |-> a, type |-> type, status |-> status]
           /\ txn'[t] # Absent
           /\ \A s \in TxnIds : txn[s] # Absent => s # t /\ txn'[s] = txn[s]
BY DEF TypeOK, CreateTransaction, Transaction

\* Overwriting the status of an existing row keeps it a row of the same user,
\* amount and type.
LEMMA RestatusedRow ==
    ASSUME TypeOK, NEW t \in TxnIds, txn[t] # Absent,
           NEW status \in TransactionStatus,
           txn' = [txn EXCEPT ![t] = [@ EXCEPT !.status = status]]
    PROVE  /\ txn' \in [TxnIds -> Transaction \cup {Absent}]
           /\ txn'[t] # Absent
           /\ txn'[t].user = txn[t].user /\ txn'[t].amount = txn[t].amount
           /\ txn'[t].type = txn[t].type
           /\ \A s \in TxnIds : s # t => txn'[s] = txn[s]
           /\ \A s \in TxnIds : txn'[s] = Absent <=> txn[s] = Absent
<1>1. txn[t] \in Transaction
  BY DEF TypeOK
<1>2. [txn[t] EXCEPT !.status = status] \in Transaction
  BY <1>1 DEF Transaction
<1>3. txn'[t] = [txn[t] EXCEPT !.status = status]
  BY DEF TypeOK
<1>4. /\ txn'[t].user = txn[t].user /\ txn'[t].amount = txn[t].amount
      /\ txn'[t].type = txn[t].type
  BY <1>1, <1>3 DEF Transaction
<1> QED
  BY <1>2, <1>3, <1>4 DEF TypeOK

-----------------------------------------------------------------------------

\* Every step keeps the inductive invariant.
LEMMA NextIInv == IInv /\ [Next]_vars => IInv'
<1> SUFFICES ASSUME IInv, [Next]_vars PROVE IInv'
  OBVIOUS
<1> USE DEF IInv
<1>1. ASSUME NEW u \in Users, NEW a \in Amounts, NEW t \in TxnIds, TopUp(u, a, t)
      PROVE  IInv'
  <2>1. CreateTransaction(t, u, a, "PAYMENT", "PENDING")
    BY <1>1 DEF TopUp
  <2>2. txn' \in [TxnIds -> Transaction \cup {Absent}]
    BY <2>1, CreatedRow DEF TransactionType, TransactionStatus
  <2>3. TypeOK'
    BY <1>1, <2>2 DEF TopUp, TypeOK
  <2>4. \A s \in TxnIds : txn[s] # Absent => txn'[s] = txn[s]
    BY <2>1, CreatedRow DEF TransactionType, TransactionStatus
  <2>5. \A h \in Handlers : review[h] # Idle => review[h].txn \in TxnIds
    BY DEF TypeOK, Review
  <2> QED
    BY <1>1, <2>3, <2>4, <2>5 DEF TopUp, RowsExist
<1>2. ASSUME NEW u \in Users, NEW a \in Amounts, NEW t \in TxnIds,
             RequestWalletWithdrawal(u, a, t)
      PROVE  IInv'
  <2>1. CreateTransaction(t, u, a, "WITHDRAWAL_REQUEST", "PENDING")
    BY <1>2 DEF RequestWalletWithdrawal
  <2>2. txn' \in [TxnIds -> Transaction \cup {Absent}] /\ txn'[t] # Absent
    BY <2>1, CreatedRow DEF TransactionType, TransactionStatus
  <2>3. balance' \in [Users -> Nat] /\ lockedBalance' \in [Users -> Nat]
    BY <1>2 DEF RequestWalletWithdrawal, Withdrawable, TypeOK
  <2>4. TypeOK'
    BY <1>2, <2>2, <2>3 DEF RequestWalletWithdrawal, TypeOK, WithdrawalStatus
  <2>5. \A s \in TxnIds : txn[s] # Absent => txn'[s] = txn[s]
    BY <2>1, CreatedRow DEF TransactionType, TransactionStatus
  <2>6. \A h \in Handlers : review[h] # Idle => review[h].txn \in TxnIds
    BY DEF TypeOK, Review
  <2> QED
    BY <1>2, <2>2, <2>4, <2>5, <2>6 DEF RequestWalletWithdrawal, RowsExist, TypeOK
<1>3. ASSUME NEW t \in TxnIds, NEW action \in {"COMPLETED", "REJECTED"},
             ProcessWalletWithdrawalRequest(t, action)
      PROVE  IInv'
  <2>1. txn[t] \in Transaction /\ txn[t] # Absent
    BY <1>3 DEF ProcessWalletWithdrawalRequest, TypeOK, RowsExist
  <2>2. txn[t].user \in Users /\ txn[t].amount \in Nat
    BY <2>1 DEF Transaction
  <2>3. balance' \in [Users -> Nat] /\ lockedBalance' \in [Users -> Nat]
    BY <1>3, <2>2 DEF ProcessWalletWithdrawalRequest, TypeOK
  <2>4. /\ txn' \in [TxnIds -> Transaction \cup {Absent}]
        /\ \A s \in TxnIds : txn'[s] = Absent <=> txn[s] = Absent
    BY <1>3, <2>1, RestatusedRow
       DEF ProcessWalletWithdrawalRequest, TransactionStatus
  <2>5. withdrawal' \in [TxnIds -> WithdrawalStatus \cup {"NONE"}]
    BY <1>3 DEF ProcessWalletWithdrawalRequest, TypeOK, WithdrawalStatus
  <2>6. TypeOK'
    BY <1>3, <2>3, <2>4, <2>5 DEF ProcessWalletWithdrawalRequest, TypeOK
  <2>7. \A h \in Handlers : review[h] # Idle => review[h].txn \in TxnIds
    BY DEF TypeOK, Review
  <2> QED
    BY <1>3, <2>1, <2>4, <2>6, <2>7
       DEF ProcessWalletWithdrawalRequest, RowsExist, TypeOK
<1>4. ASSUME NEW t \in TxnIds, NEW u \in Users, NEW a \in Amounts,
             NEW type \in {"ADD", "REMOVE"}, AdjustUserWalletBalance(u, a, type, t)
      PROVE  IInv'
  <2>1. CreateTransaction(t, u, a, type, "APPROVED")
    BY <1>4 DEF AdjustUserWalletBalance
  <2>2. txn' \in [TxnIds -> Transaction \cup {Absent}]
    BY <2>1, CreatedRow DEF TransactionType, TransactionStatus
  <2>3. balance' \in [Users -> Nat]
    BY <1>4 DEF AdjustUserWalletBalance, Withdrawable, TypeOK
  <2>4. TypeOK'
    BY <1>4, <2>2, <2>3 DEF AdjustUserWalletBalance, TypeOK
  <2>5. \A s \in TxnIds : txn[s] # Absent => txn'[s] = txn[s]
    BY <2>1, CreatedRow DEF TransactionType, TransactionStatus
  <2>6. \A h \in Handlers : review[h] # Idle => review[h].txn \in TxnIds
    BY DEF TypeOK, Review
  <2> QED
    BY <1>4, <2>4, <2>5, <2>6 DEF AdjustUserWalletBalance, RowsExist
<1>5. ASSUME NEW t \in TxnIds, NEW h \in Handlers, NEW action \in Decision,
             ApproveRead(h, t, action)
      PROVE  IInv'
  <2>1. review' \in [Handlers -> Review \cup {Idle}]
    BY <1>5 DEF ApproveRead, TypeOK, Review
  <2>2. TypeOK'
    BY <1>5, <2>1 DEF ApproveRead, TypeOK
  <2> QED
    BY <1>5, <2>2 DEF ApproveRead, RowsExist, TypeOK
<1>6. ASSUME NEW h \in Handlers, ApproveWrite(h)
      PROVE  IInv'
  <2> DEFINE t == review[h].txn
  <2>1. t \in TxnIds /\ review[h].action \in Decision /\ txn[t] # Absent
    BY <1>6 DEF ApproveWrite, TypeOK, Review, RowsExist
  <2>2. txn[t].user \in Users /\ txn[t].amount \in Nat
    BY <2>1 DEF TypeOK, Transaction
  <2>3. /\ txn' \in [TxnIds -> Transaction \cup {Absent}]
        /\ \A s \in TxnIds : txn'[s] = Absent <=> txn[s] = Absent
    <3>1. review[h].action \in TransactionStatus
      BY <2>1 DEF Decision, TransactionStatus
    <3>2. txn' = [txn EXCEPT ![t] = [@ EXCEPT !.status = review[h].action]]
      BY <1>6 DEF ApproveWrite
    <3> QED
      BY <2>1, <3>1, <3>2, RestatusedRow
  <2>4. balance' \in [Users -> Nat] /\ credits' \in [TxnIds -> Nat]
    BY <1>6, <2>1, <2>2 DEF ApproveWrite, TypeOK
  <2>5. review' \in [Handlers -> Review \cup {Idle}]
    BY <1>6 DEF ApproveWrite, TypeOK
  <2>6. TypeOK'
    BY <1>6, <2>3, <2>4, <2>5 DEF ApproveWrite, TypeOK
  <2>7. \A g \in Handlers : review[g] # Idle => review[g].txn \in TxnIds
    BY DEF TypeOK, Review
  <2> QED
    BY <1>6, <2>3, <2>6, <2>7 DEF ApproveWrite, RowsExist, TypeOK
<1>7. ASSUME NEW h \in Handlers, ApproveRollback(h)
      PROVE  IInv'
  BY <1>7 DEF ApproveRollback, RowsExist, TypeOK
<1>8. CASE UNCHANGED vars
  BY <1>8 DEF vars, TypeOK, RowsExist
<1> QED
  BY <1>1, <1>2, <1>3, <1>4, <1>5, <1>6, <1>7, <1>8 DEF Next, UserStep, AdminStep

\* Neither the balance nor the locked balance ever goes below zero, and rows only
\* hold what their columns may, for any number of concurrent users and admins.
THEOREM TypeCorrect == Spec => []TypeOK
<1>1. IInv => TypeOK
  BY DEF IInv
<1> QED
  BY InitIInv, NextIInv, <1>1, PTL DEF Spec
-----------------------------------------------------------------------------
(* The fee hold *)

\* Whether u has ever moved money out of the wallet.
HasMovedOut(u) ==
    \E t \in TxnIds : /\ txn[t] # Absent
                      /\ txn[t].user = u
                      /\ txn[t].type \in {"WITHDRAWAL_REQUEST", "REMOVE"}

\* A step that creates no withdrawal or REMOVE row, and does not lower balances,
\* keeps the fee hold covered.
LEMMA HoldKept ==
    ASSUME IInv, HeldFeesStayCovered,
           pendingFees' = pendingFees,
           \A u \in Users : balance'[u] >= balance[u],
           balance' \in [Users -> Nat],
           \A u \in Users : HasMovedOut(u)' => HasMovedOut(u)
    PROVE  HeldFeesStayCovered'
BY DEF HeldFeesStayCovered, HasMovedOut, RowsOf, IInv, TypeOK

\* Rows of unchanged user and type do not change who has moved money out.
LEMMA MovedOutKept ==
    ASSUME \A t \in TxnIds : txn'[t] = Absent <=> txn[t] = Absent,
           \A t \in TxnIds : txn[t] # Absent =>
               txn'[t].user = txn[t].user /\ txn'[t].type = txn[t].type
    PROVE  \A u \in Users : HasMovedOut(u)' => HasMovedOut(u)
BY DEF HasMovedOut

\* For any users, amounts and fee holds: once a user has withdrawn or been
\* corrected downwards, the balance left covers the fees held against it.
THEOREM FeesCovered == Spec => []HeldFeesStayCovered
<1>1. Init => HeldFeesStayCovered
  BY DEF Init, HeldFeesStayCovered, RowsOf
<1>2. IInv /\ IInv' /\ HeldFeesStayCovered /\ [Next]_vars => HeldFeesStayCovered'
  <2> SUFFICES ASSUME IInv, IInv', HeldFeesStayCovered, [Next]_vars
               PROVE  HeldFeesStayCovered'
    OBVIOUS
  <2> USE DEF IInv
  <2>0. balance \in [Users -> Nat] /\ balance' \in [Users -> Nat]
        /\ pendingFees \in [Users -> Nat]
    BY DEF TypeOK
  <2>1. ASSUME NEW u \in Users, NEW a \in Amounts, NEW t \in TxnIds, TopUp(u, a, t)
        PROVE  HeldFeesStayCovered'
    <3>1. CreateTransaction(t, u, a, "PAYMENT", "PENDING")
      BY <2>1 DEF TopUp
    <3>2. /\ txn'[t].type = "PAYMENT"
          /\ \A s \in TxnIds : s # t => txn'[s] = txn[s]
      BY <3>1 DEF CreateTransaction, TypeOK
    <3>3. \A v \in Users : HasMovedOut(v)' => HasMovedOut(v)
      BY <3>2 DEF HasMovedOut
    <3>4. pendingFees' = pendingFees /\ balance' = balance
      BY <2>1 DEF TopUp
    <3> QED
      BY <2>0, <3>3, <3>4, HoldKept
  <2>2. ASSUME NEW u \in Users, NEW a \in Amounts, NEW t \in TxnIds,
               RequestWalletWithdrawal(u, a, t)
        PROVE  HeldFeesStayCovered'
    <3>1. CreateTransaction(t, u, a, "WITHDRAWAL_REQUEST", "PENDING")
      BY <2>2 DEF RequestWalletWithdrawal
    <3>2. /\ txn'[t].user = u
          /\ \A s \in TxnIds : s # t => txn'[s] = txn[s]
      BY <3>1 DEF CreateTransaction, TypeOK
    <3>3. /\ balance'[u] >= pendingFees[u] /\ pendingFees' = pendingFees
          /\ \A v \in Users : v # u => balance'[v] = balance[v]
      BY <2>0, <2>2 DEF RequestWalletWithdrawal, Withdrawable
    <3> QED
      BY <3>2, <3>3 DEF HeldFeesStayCovered, RowsOf
  <2>3. ASSUME NEW t \in TxnIds, NEW action \in {"COMPLETED", "REJECTED"},
               ProcessWalletWithdrawalRequest(t, action)
        PROVE  HeldFeesStayCovered'
    <3>1. txn[t] \in Transaction /\ txn[t] # Absent
      BY <2>3 DEF ProcessWalletWithdrawalRequest, TypeOK, RowsExist
    <3>2. txn' = [txn EXCEPT ![t] = [@ EXCEPT !.status = action]]
      BY <2>3 DEF ProcessWalletWithdrawalRequest
    <3>3. \A v \in Users : HasMovedOut(v)' => HasMovedOut(v)
      BY <3>1, <3>2, RestatusedRow, MovedOutKept DEF TransactionStatus
    <3>4. txn[t].user \in Users /\ txn[t].amount \in Nat
      BY <3>1 DEF Transaction
    <3>5. pendingFees' = pendingFees /\ \A v \in Users : balance'[v] >= balance[v]
      BY <2>0, <2>3, <3>4 DEF ProcessWalletWithdrawalRequest
    <3> QED
      BY <2>0, <3>3, <3>5, HoldKept
  <2>4. ASSUME NEW t \in TxnIds, NEW u \in Users, NEW a \in Amounts,
               NEW type \in {"ADD", "REMOVE"}, AdjustUserWalletBalance(u, a, type, t)
        PROVE  HeldFeesStayCovered'
    <3>1. CreateTransaction(t, u, a, type, "APPROVED")
      BY <2>4 DEF AdjustUserWalletBalance
    <3>2. /\ txn'[t].user = u /\ txn'[t].type = type
          /\ \A s \in TxnIds : s # t => txn'[s] = txn[s]
      BY <3>1 DEF CreateTransaction, TypeOK
    <3>3. pendingFees' = pendingFees
      BY <2>4 DEF AdjustUserWalletBalance
    <3>4. CASE type = "ADD"
      <4>1. \A v \in Users : HasMovedOut(v)' => HasMovedOut(v)
        BY <3>2, <3>4 DEF HasMovedOut
      <4>2. \A v \in Users : balance'[v] >= balance[v]
        BY <2>0, <2>4, <3>4 DEF AdjustUserWalletBalance
      <4> QED
        BY <2>0, <3>3, <4>1, <4>2, HoldKept
    <3>5. CASE type = "REMOVE"
      <4>1. /\ balance'[u] >= pendingFees[u]
            /\ \A v \in Users : v # u => balance'[v] = balance[v]
        BY <2>0, <2>4, <3>5 DEF AdjustUserWalletBalance, Withdrawable
      <4> QED
        BY <3>2, <3>3, <4>1 DEF HeldFeesStayCovered, RowsOf
    <3> QED
      BY <3>4, <3>5
  <2>5. ASSUME NEW t \in TxnIds, NEW h \in Handlers, NEW action \in Decision,
               ApproveRead(h, t, action)
        PROVE  HeldFeesStayCovered'
    BY <2>5 DEF ApproveRead, HeldFeesStayCovered, RowsOf
  <2>6. ASSUME NEW h \in Handlers, ApproveWrite(h)
        PROVE  HeldFeesStayCovered'
    <3> DEFINE t == review[h].txn
    <3>1. t \in TxnIds /\ txn[t] # Absent /\ review[h].action \in TransactionStatus
      BY <2>6 DEF ApproveWrite, TypeOK, Review, RowsExist, Decision, TransactionStatus
    <3>2. txn' = [txn EXCEPT ![t] = [@ EXCEPT !.status = review[h].action]]
      BY <2>6 DEF ApproveWrite
    <3>3. \A v \in Users : HasMovedOut(v)' => HasMovedOut(v)
      BY <3>1, <3>2, RestatusedRow, MovedOutKept
    <3>4. txn[t].user \in Users /\ txn[t].amount \in Nat
      BY <3>1 DEF TypeOK, Transaction
    <3>5. pendingFees' = pendingFees /\ \A v \in Users : balance'[v] >= balance[v]
      BY <2>0, <2>6, <3>4 DEF ApproveWrite
    <3> QED
      BY <2>0, <3>3, <3>5, HoldKept
  <2>7. ASSUME NEW h \in Handlers, ApproveRollback(h)
        PROVE  HeldFeesStayCovered'
    BY <2>7 DEF ApproveRollback, HeldFeesStayCovered, RowsOf
  <2>8. CASE UNCHANGED vars
    BY <2>8 DEF vars, HeldFeesStayCovered, RowsOf
  <2> QED
    BY <2>1, <2>2, <2>3, <2>4, <2>5, <2>6, <2>7, <2>8 DEF Next, UserStep, AdminStep
<1> QED
  BY InitIInv, NextIInv, <1>1, <1>2, PTL DEF Spec
-----------------------------------------------------------------------------
(* The withdrawal contract *)

\* A request's abstract record depends only on its row and its status.
LEMMA RequestsKept ==
    ASSUME IInv, withdrawal' = withdrawal,
           \A t \in TxnIds : txn[t] # Absent =>
               txn'[t].user = txn[t].user /\ txn'[t].amount = txn[t].amount
    PROVE  RequestOf' = RequestOf
BY DEF IInv, RowsExist, RequestOf

\* Settling request t changes the state in its record and no other record.
LEMMA RequestSettled ==
    ASSUME IInv, NEW t \in TxnIds, withdrawal[t] = "PENDING",
           NEW action \in {"COMPLETED", "REJECTED"},
           ProcessWalletWithdrawalRequest(t, action)
    PROVE  /\ RequestOf[t] \in Contract!Request
           /\ RequestOf[t].state = "PENDING"
           /\ RequestOf[t].owner = txn[t].user
           /\ RequestOf[t].amount = txn[t].amount
           /\ RequestOf' = [RequestOf EXCEPT ![t] = [@ EXCEPT !.state = action]]
<1>1. txn[t] \in Transaction /\ txn[t] # Absent
  BY DEF IInv, TypeOK, RowsExist
<1>2. RequestOf[t] = [owner |-> txn[t].user, amount |-> txn[t].amount, state |-> "PENDING"]
  BY DEF RequestOf
<1>3. txn[t].user \in Users /\ txn[t].amount \in Amounts
  BY <1>1 DEF Transaction
<1>4. /\ txn'[t].user = txn[t].user /\ txn'[t].amount = txn[t].amount
      /\ \A s \in TxnIds : s # t => txn'[s] = txn[s]
  BY <1>1, RestatusedRow DEF ProcessWalletWithdrawalRequest, TransactionStatus, IInv
<1>5. /\ withdrawal'[t] = action
      /\ \A s \in TxnIds : s # t => withdrawal'[s] = withdrawal[s]
  BY DEF ProcessWalletWithdrawalRequest, IInv, TypeOK
<1>6. RequestOf'[t] = [owner |-> txn[t].user, amount |-> txn[t].amount, state |-> action]
  BY <1>4, <1>5 DEF RequestOf
<1>7. \A s \in TxnIds : s # t => RequestOf'[s] = RequestOf[s]
  BY <1>4, <1>5 DEF RequestOf
<1>8. RequestOf' = [RequestOf EXCEPT ![t] = [@ EXCEPT !.state = action]]
  <2>1. RequestOf'[t] = [RequestOf[t] EXCEPT !.state = action]
    BY <1>2, <1>6
  <2>2. /\ RequestOf = [s \in TxnIds |-> RequestOf[s]]
        /\ RequestOf' = [s \in TxnIds |-> RequestOf'[s]]
    BY DEF RequestOf
  <2> QED
    BY <1>7, <2>1, <2>2
<1> QED
  BY <1>2, <1>3, <1>8 DEF Contract!Request

\* A change of u's balance by an allowed amount that leaves locked funds and
\* requests alone is a Move of the contract.
LEMMA MoveStep ==
    ASSUME IInv, NEW u \in Users, NEW a \in Amounts,
           \/ balance' = [balance EXCEPT ![u] = @ + a]
           \/ balance' = [balance EXCEPT ![u] = @ - a] /\ balance[u] >= a,
           lockedBalance' = lockedBalance, RequestOf' = RequestOf
    PROVE  Contract!Next
<1>1. balance \in [Users -> Nat] /\ a \in Nat
  BY DEF IInv, TypeOK
<1>2. balance'[u] >= 0
  BY <1>1
<1>3. Contract!Move(u)
  BY <1>1, <1>2 DEF Contract!Move
<1> QED
  BY <1>3 DEF Contract!Next

\* Every behaviour of the wallet, with any number of admins approving, completing
\* and rejecting at once, is a behaviour of the withdrawal contract.
THEOREM WalletImplementsContract == Spec => ImplementsContract
<1>1. Init => Contract!Init
  BY DEF Init, Contract!Init, RequestOf
<1>2. IInv /\ [Next]_vars => [Contract!Next]_(Contract!vars)
  <2> SUFFICES ASSUME IInv, [Next]_vars PROVE [Contract!Next]_(Contract!vars)
    OBVIOUS
  <2>0. /\ balance \in [Users -> Nat] /\ lockedBalance \in [Users -> Nat]
        /\ pendingFees \in [Users -> Nat]
    BY DEF IInv, TypeOK
  <2>1. ASSUME NEW u \in Users, NEW a \in Amounts, NEW t \in TxnIds, TopUp(u, a, t)
        PROVE  UNCHANGED Contract!vars
    <3>1. CreateTransaction(t, u, a, "PAYMENT", "PENDING")
      BY <2>1 DEF TopUp
    <3>2. \A s \in TxnIds : txn[s] # Absent => txn'[s] = txn[s]
      BY <3>1, CreatedRow DEF IInv, TransactionType, TransactionStatus
    <3>3. RequestOf' = RequestOf
      BY <2>1, <3>2, RequestsKept DEF TopUp
    <3> QED
      BY <2>1, <3>3 DEF TopUp, Contract!vars
  <2>2. ASSUME NEW u \in Users, NEW a \in Amounts, NEW t \in TxnIds,
               RequestWalletWithdrawal(u, a, t)
        PROVE  Contract!Next
    <3>1. CreateTransaction(t, u, a, "WITHDRAWAL_REQUEST", "PENDING")
      BY <2>2 DEF RequestWalletWithdrawal
    <3>2. txn[t] = Absent
      BY <3>1 DEF CreateTransaction
    <3>3. withdrawal[t] = "NONE"
      BY <3>2 DEF IInv, RowsExist
    <3>4. RequestOf[t] = Absent
      BY <3>3 DEF RequestOf
    <3>5. /\ txn'[t].user = u /\ txn'[t].amount = a
          /\ \A s \in TxnIds : s # t => txn'[s] = txn[s]
      BY <3>1 DEF CreateTransaction, IInv, TypeOK
    <3>6. /\ withdrawal'[t] = "PENDING"
          /\ \A s \in TxnIds : s # t => withdrawal'[s] = withdrawal[s]
      BY <2>2 DEF RequestWalletWithdrawal, IInv, TypeOK
    <3>7. /\ RequestOf'[t] = [owner |-> u, amount |-> a, state |-> "PENDING"]
          /\ \A s \in TxnIds : s # t => RequestOf'[s] = RequestOf[s]
      BY <3>5, <3>6 DEF RequestOf
    <3>8. /\ RequestOf = [s \in TxnIds |-> RequestOf[s]]
          /\ RequestOf' = [s \in TxnIds |-> RequestOf'[s]]
      BY DEF RequestOf
    <3>9. RequestOf' = [RequestOf EXCEPT
                           ![t] = [owner |-> u, amount |-> a, state |-> "PENDING"]]
      BY <3>7, <3>8
    <3>10. balance[u] >= a
      BY <2>0, <2>2 DEF RequestWalletWithdrawal, Withdrawable
    <3>11. Contract!Hold(t)
      BY <2>2, <3>4, <3>9, <3>10 DEF Contract!Hold, RequestWalletWithdrawal
    <3> QED
      BY <3>11 DEF Contract!Next
  <2>3. ASSUME NEW t \in TxnIds, NEW action \in {"COMPLETED", "REJECTED"},
               ProcessWalletWithdrawalRequest(t, action)
        PROVE  Contract!Next
    <3>1. withdrawal[t] = "PENDING"
      BY <2>3 DEF ProcessWalletWithdrawalRequest
    <3>2. /\ RequestOf[t] \in Contract!Request /\ RequestOf[t].state = "PENDING"
          /\ RequestOf[t].owner = txn[t].user /\ RequestOf[t].amount = txn[t].amount
          /\ RequestOf' = [RequestOf EXCEPT ![t] = [@ EXCEPT !.state = action]]
      BY <2>3, <3>1, RequestSettled
    <3>3. CASE action = "COMPLETED"
      <4>1. Contract!PayOut(t)
        BY <2>3, <3>2, <3>3 DEF ProcessWalletWithdrawalRequest, Contract!PayOut
      <4> QED
        BY <4>1 DEF Contract!Next
    <3>4. CASE action = "REJECTED"
      <4>1. Contract!GiveBack(t)
        BY <2>3, <3>2, <3>4 DEF ProcessWalletWithdrawalRequest, Contract!GiveBack
      <4> QED
        BY <4>1 DEF Contract!Next
    <3> QED
      BY <3>3, <3>4
  <2>4. ASSUME NEW t \in TxnIds, NEW u \in Users, NEW a \in Amounts,
               NEW type \in {"ADD", "REMOVE"}, AdjustUserWalletBalance(u, a, type, t)
        PROVE  Contract!Next
    <3>1. CreateTransaction(t, u, a, type, "APPROVED")
      BY <2>4 DEF AdjustUserWalletBalance
    <3>2. \A s \in TxnIds : txn[s] # Absent => txn'[s] = txn[s]
      BY <3>1, CreatedRow DEF IInv, TransactionType, TransactionStatus
    <3>3. RequestOf' = RequestOf
      BY <2>4, <3>2, RequestsKept DEF AdjustUserWalletBalance
    <3>4. \/ balance' = [balance EXCEPT ![u] = @ + a]
          \/ balance' = [balance EXCEPT ![u] = @ - a] /\ balance[u] >= a
      <4>1. CASE type = "ADD"
        <5>1. balance' = [balance EXCEPT ![u] = @ + a]
          BY <2>4, <4>1 DEF AdjustUserWalletBalance
        <5> QED
          BY <5>1
      <4>2. CASE type = "REMOVE"
        <5>1. balance' = [balance EXCEPT ![u] = @ - a]
          BY <2>4, <4>2 DEF AdjustUserWalletBalance
        <5>2. balance[u] >= a
          BY <2>0, <2>4, <4>2 DEF AdjustUserWalletBalance, Withdrawable
        <5> QED
          BY <5>1, <5>2
      <4> QED
        BY <4>1, <4>2
    <3>5. lockedBalance' = lockedBalance
      BY <2>4 DEF AdjustUserWalletBalance
    <3> QED
      BY <3>3, <3>4, <3>5, MoveStep
  <2>5. ASSUME NEW t \in TxnIds, NEW h \in Handlers, NEW action \in Decision,
               ApproveRead(h, t, action)
        PROVE  UNCHANGED Contract!vars
    BY <2>5 DEF ApproveRead, Contract!vars, RequestOf
  <2>6. ASSUME NEW h \in Handlers, ApproveWrite(h)
        PROVE  [Contract!Next]_(Contract!vars)
    <3> DEFINE t == review[h].txn
    <3>1. t \in TxnIds /\ txn[t] # Absent /\ review[h].action \in TransactionStatus
      BY <2>6 DEF ApproveWrite, IInv, TypeOK, Review, RowsExist, Decision,
                  TransactionStatus
    <3>2. txn' = [txn EXCEPT ![t] = [@ EXCEPT !.status = review[h].action]]
      BY <2>6 DEF ApproveWrite
    <3>3. \A s \in TxnIds : txn[s] # Absent =>
              txn'[s].user = txn[s].user /\ txn'[s].amount = txn[s].amount
      BY <3>1, <3>2, RestatusedRow DEF IInv
    <3>4. RequestOf' = RequestOf
      BY <2>6, <3>3, RequestsKept DEF ApproveWrite
    <3>5. txn[t].user \in Users /\ txn[t].amount \in Amounts
      BY <3>1 DEF IInv, TypeOK, Transaction
    <3>6. CASE review[h].action = "APPROVED"
      <4>1. /\ balance' = [balance EXCEPT ![txn[t].user] = @ + txn[t].amount]
            /\ lockedBalance' = lockedBalance
        BY <2>6, <3>6 DEF ApproveWrite
      <4> QED
        BY <3>4, <3>5, <4>1, MoveStep
    <3>7. CASE review[h].action # "APPROVED"
      BY <2>6, <3>4, <3>7 DEF ApproveWrite, Contract!vars
    <3> QED
      BY <3>6, <3>7
  <2>7. ASSUME NEW h \in Handlers, ApproveRollback(h)
        PROVE  UNCHANGED Contract!vars
    BY <2>7 DEF ApproveRollback, Contract!vars, RequestOf
  <2>8. CASE UNCHANGED vars
    BY <2>8 DEF vars, Contract!vars, RequestOf
  <2> QED
    BY <2>1, <2>2, <2>3, <2>4, <2>5, <2>6, <2>7, <2>8 DEF Next, UserStep, AdminStep
<1> QED
  BY InitIInv, NextIInv, <1>1, <1>2, PTL DEF Spec, ImplementsContract, Contract!Spec
-----------------------------------------------------------------------------
(* A second credit *)

\* What a step may do to the credits of a decided row.
CreditedByItsReviewers ==
    \A t \in TxnIds : Decided(t) =>
        /\ Reviewers(t)' \subseteq Reviewers(t)
        /\ credits'[t] # credits[t] =>
              /\ credits'[t] = credits[t] + 1
              /\ Reviewers(t)' # Reviewers(t)

\* A row that is decided is credited again only by a handler of approve that had read
\* it before it was decided, and once by each of them.
THEOREM SecondCreditNeedsAnOverlap == Spec => CreditedTwiceOnlyIfOverlapping
<1>1. IInv /\ [Next]_vars => CreditedByItsReviewers \/ UNCHANGED vars
  <2> SUFFICES ASSUME IInv, [Next]_vars PROVE CreditedByItsReviewers \/ UNCHANGED vars
    OBVIOUS
  <2>0. review \in [Handlers -> Review \cup {Idle}] /\ credits \in [TxnIds -> Nat]
    BY DEF IInv, TypeOK
  <2>1. ASSUME review' = review, credits' = credits
        PROVE  CreditedByItsReviewers
    BY <2>1 DEF CreditedByItsReviewers, Reviewers
  <2>2. ASSUME NEW u \in Users, NEW a \in Amounts, NEW t \in TxnIds, UserStep(u, a, t)
        PROVE  CreditedByItsReviewers
    BY <2>1, <2>2 DEF UserStep, TopUp, RequestWalletWithdrawal
  <2>3. ASSUME NEW t \in TxnIds, NEW action \in {"COMPLETED", "REJECTED"},
               ProcessWalletWithdrawalRequest(t, action)
        PROVE  CreditedByItsReviewers
    BY <2>1, <2>3 DEF ProcessWalletWithdrawalRequest
  <2>4. ASSUME NEW t \in TxnIds, NEW u \in Users, NEW a \in Amounts,
               NEW type \in {"ADD", "REMOVE"}, AdjustUserWalletBalance(u, a, type, t)
        PROVE  CreditedByItsReviewers
    BY <2>1, <2>4 DEF AdjustUserWalletBalance
  <2>5. ASSUME NEW t \in TxnIds, NEW h \in Handlers, NEW action \in Decision,
               ApproveRead(h, t, action)
        PROVE  CreditedByItsReviewers
    <3> SUFFICES ASSUME NEW s \in TxnIds, Decided(s)
                 PROVE  /\ Reviewers(s)' \subseteq Reviewers(s)
                        /\ credits'[s] = credits[s]
      BY DEF CreditedByItsReviewers
    <3>1. s # t
      BY <2>5 DEF ApproveRead, Decided
    <3>2. \A k \in Handlers : k # h => review'[k] = review[k]
      BY <2>0, <2>5 DEF ApproveRead
    <3>3. review'[h].txn = t
      BY <2>0, <2>5 DEF ApproveRead
    <3> QED
      BY <2>5, <3>1, <3>2, <3>3 DEF ApproveRead, Reviewers
  <2>6. ASSUME NEW h \in Handlers, ApproveWrite(h)
        PROVE  CreditedByItsReviewers
    <3> SUFFICES ASSUME NEW s \in TxnIds
                 PROVE  /\ Reviewers(s)' \subseteq Reviewers(s)
                        /\ credits'[s] # credits[s] =>
                              /\ credits'[s] = credits[s] + 1
                              /\ Reviewers(s)' # Reviewers(s)
      BY DEF CreditedByItsReviewers
    <3>1. review'[h] = Idle /\ \A k \in Handlers : k # h => review'[k] = review[k]
      BY <2>0, <2>6 DEF ApproveWrite
    <3>2. Reviewers(s)' \subseteq Reviewers(s) /\ h \notin Reviewers(s)'
      BY <3>1 DEF Reviewers
    <3>3. s # review[h].txn => credits'[s] = credits[s]
      BY <2>0, <2>6 DEF ApproveWrite
    <3>4. s = review[h].txn => h \in Reviewers(s)
      BY <2>6 DEF ApproveWrite, Reviewers
    <3>5. credits'[s] \in {credits[s], credits[s] + 1}
      BY <2>0, <2>6 DEF ApproveWrite
    <3> QED
      BY <3>2, <3>3, <3>4, <3>5
  <2>7. ASSUME NEW h \in Handlers, ApproveRollback(h)
        PROVE  CreditedByItsReviewers
    <3>1. /\ review'[h] = Idle /\ credits' = credits
          /\ \A k \in Handlers : k # h => review'[k] = review[k]
      BY <2>0, <2>7 DEF ApproveRollback
    <3> QED
      BY <3>1 DEF CreditedByItsReviewers, Reviewers
  <2>8. CASE UNCHANGED vars
    BY <2>8
  <2> QED
    BY <2>2, <2>3, <2>4, <2>5, <2>6, <2>7, <2>8 DEF Next, UserStep, AdminStep
<1>2. CreditedByItsReviewers \/ UNCHANGED vars => [CreditedByItsReviewers]_vars
  OBVIOUS
<1> QED
  BY InitIInv, NextIInv, <1>1, <1>2, PTL
     DEF Spec, CreditedTwiceOnlyIfOverlapping, CreditedByItsReviewers

-----------------------------------------------------------------------------
(* The money in the wallet and the rows that explain it *)

OpenRequests(u) == { t \in RowsOf(u) : withdrawal[t] = "PENDING" }
Entry(t) == credits[t] * Amount(t) + Signed(t)

\* Amounts and entries as functions, to be summed over rows.
AmountBy == [t \in TxnIds |-> Amount(t)]
EntryBy == [t \in TxnIds |-> Entry(t)]

\* What row t contributes to the hold, and to the money, of user u.
HeldFor(u, t) == IF t \in OpenRequests(u) THEN Amount(t) ELSE 0
EnteredFor(u, t) == IF t \in RowsOf(u) THEN Entry(t) ELSE 0

\* The rows of requests are withdrawals, and a row nobody created was never credited.
RowsInOrder ==
    /\ \A t \in TxnIds : withdrawal[t] # "NONE" => txn[t].type = "WITHDRAWAL_REQUEST"
    /\ \A t \in TxnIds : txn[t] = Absent => credits[t] = 0

\* However many rows there may be, a user has finitely many, and their sums are the
\* wallet's columns.
MoneyInv ==
    /\ RowsInOrder
    /\ \A u \in Users :
        /\ IsFiniteSet(RowsOf(u))
        /\ lockedBalance[u] = SumOf(AmountBy, OpenRequests(u))
        /\ balance[u] + lockedBalance[u] = SumOf(EntryBy, RowsOf(u))

\* Amounts of rows, and what the rows explain, are integers.
LEMMA EntriesAreInts ==
    ASSUME IInv, NEW t \in TxnIds, txn[t] # Absent
    PROVE  Amount(t) \in Nat /\ Signed(t) \in Int /\ Entry(t) \in Int
<1>1. Amount(t) \in Nat
  BY DEF IInv, TypeOK, Transaction, Amount
<1>2. Signed(t) \in Int
  BY <1>1 DEF Signed
<1>3. credits[t] * Amount(t) \in Int
  BY <1>1 DEF IInv, TypeOK
<1> QED
  BY <1>1, <1>2, <1>3 DEF Entry

\* A step that touches one row keeps the money explained if it moves the columns by what
\* the row's contributions change.
LEMMA OneRowMoves ==
    ASSUME IInv, IInv', MoneyInv, RowsInOrder', NEW t \in TxnIds,
           \A s \in TxnIds \ {t} : /\ txn'[s] = txn[s]
                                   /\ withdrawal'[s] = withdrawal[s]
                                   /\ credits'[s] = credits[s],
           \A u \in Users :
               /\ lockedBalance'[u] = lockedBalance[u] - HeldFor(u, t) + HeldFor(u, t)'
               /\ balance'[u] + lockedBalance'[u] =
                      (balance[u] + lockedBalance[u]) - EnteredFor(u, t) + EnteredFor(u, t)'
    PROVE  MoneyInv'
<1> SUFFICES ASSUME NEW u \in Users
             PROVE  /\ IsFiniteSet(RowsOf(u)')
                    /\ lockedBalance'[u] = SumOf(AmountBy', OpenRequests(u)')
                    /\ balance'[u] + lockedBalance'[u] = SumOf(EntryBy', RowsOf(u)')
  BY DEF MoneyInv
<1>1. IsFiniteSet(RowsOf(u)) /\ IsFiniteSet(OpenRequests(u))
  BY FS_Subset DEF MoneyInv, OpenRequests
<1>2. /\ RowsOf(u) \ {t} = RowsOf(u)' \ {t}
      /\ OpenRequests(u) \ {t} = OpenRequests(u)' \ {t}
  BY DEF RowsOf, OpenRequests
<1>3. /\ IntOn(EntryBy, RowsOf(u)) /\ IntOn(AmountBy, OpenRequests(u))
  BY EntriesAreInts DEF IntOn, EntryBy, AmountBy, RowsOf, OpenRequests
<1>4. ASSUME NEW s \in TxnIds, txn'[s] # Absent
      PROVE  Amount(s)' \in Nat /\ Entry(s)' \in Int
  <2>1. Amount(s)' \in Nat
    BY <1>4 DEF IInv, TypeOK, Transaction, Amount
  <2>2. Signed(s)' \in Int
    BY <2>1 DEF Signed
  <2>3. (credits[s] * Amount(s))' \in Int
    BY <2>1 DEF IInv, TypeOK
  <2> QED
    BY <2>1, <2>2, <2>3 DEF Entry
<1>5. IntOn(EntryBy', RowsOf(u)') /\ IntOn(AmountBy', OpenRequests(u)')
  BY <1>4 DEF IntOn, EntryBy, AmountBy, RowsOf, OpenRequests
<1>6. \A s \in TxnIds \ {t} : Entry(s)' = Entry(s) /\ Amount(s)' = Amount(s)
  BY DEF Entry, Signed, Amount
<1>7. /\ \A s \in RowsOf(u) \ {t} : EntryBy[s] = EntryBy'[s]
      /\ \A s \in OpenRequests(u) \ {t} : AmountBy[s] = AmountBy'[s]
  BY <1>6 DEF EntryBy, AmountBy, RowsOf, OpenRequests
<1>8. /\ SumOf(AmountBy', OpenRequests(u)') =
             SumOf(AmountBy, OpenRequests(u)) - Part(AmountBy, OpenRequests(u), t)
                                              + Part(AmountBy', OpenRequests(u)', t)
  BY <1>1, <1>2, <1>3, <1>5, <1>7, SumMoves
<1>9. /\ IsFiniteSet(RowsOf(u)')
      /\ SumOf(EntryBy', RowsOf(u)') =
             SumOf(EntryBy, RowsOf(u)) - Part(EntryBy, RowsOf(u), t)
                                       + Part(EntryBy', RowsOf(u)', t)
  BY <1>1, <1>2, <1>3, <1>5, <1>7, SumMoves
<1>10. /\ Part(AmountBy, OpenRequests(u), t) = HeldFor(u, t)
       /\ Part(AmountBy', OpenRequests(u)', t) = HeldFor(u, t)'
       /\ Part(EntryBy, RowsOf(u), t) = EnteredFor(u, t)
       /\ Part(EntryBy', RowsOf(u)', t) = EnteredFor(u, t)'
  BY DEF Part, HeldFor, EnteredFor, AmountBy, EntryBy
<1>11. /\ lockedBalance'[u] = SumOf(AmountBy', OpenRequests(u)')
       /\ balance'[u] + lockedBalance'[u] = SumOf(EntryBy', RowsOf(u)')
  <2>1. lockedBalance'[u] = lockedBalance[u] - HeldFor(u, t) + HeldFor(u, t)'
    OBVIOUS
  <2>2. balance'[u] + lockedBalance'[u] =
            (balance[u] + lockedBalance[u]) - EnteredFor(u, t) + EnteredFor(u, t)'
    OBVIOUS
  <2>3. /\ lockedBalance[u] = SumOf(AmountBy, OpenRequests(u))
        /\ balance[u] + lockedBalance[u] = SumOf(EntryBy, RowsOf(u))
    BY DEF MoneyInv
  <2>4. lockedBalance'[u] = SumOf(AmountBy', OpenRequests(u)')
    BY <1>8, <1>10, <2>1, <2>3
  <2>5. balance'[u] + lockedBalance'[u] = SumOf(EntryBy', RowsOf(u)')
    BY <1>9, <1>10, <2>2, <2>3
  <2> QED
    BY <2>4, <2>5
<1> QED
  BY <1>9, <1>11

\* A step that leaves the money and the rows alone.
LEMMA MoneyAlone ==
    ASSUME MoneyInv, UNCHANGED <<balance, lockedBalance, txn, withdrawal, credits>>
    PROVE  MoneyInv'
<1>1. UNCHANGED <<AmountBy, EntryBy>>
  BY DEF AmountBy, EntryBy, Entry, Signed, Amount
<1>2. \A u \in Users : RowsOf(u)' = RowsOf(u) /\ OpenRequests(u)' = OpenRequests(u)
  BY DEF RowsOf, OpenRequests
<1>3. RowsInOrder'
  BY DEF MoneyInv, RowsInOrder
<1> QED
  BY <1>1, <1>2, <1>3 DEF MoneyInv

\* A new row that is no request yet, or a request not yet open.
LEMMA CreatedKeepsOrder ==
    ASSUME IInv, MoneyInv, NEW t \in TxnIds, NEW u \in Users, NEW a \in Amounts,
           NEW type \in TransactionType, NEW status \in TransactionStatus,
           CreateTransaction(t, u, a, type, status), credits' = credits,
           \A s \in TxnIds \ {t} : withdrawal'[s] = withdrawal[s],
           withdrawal'[t] # "NONE" => type = "WITHDRAWAL_REQUEST"
    PROVE  /\ RowsInOrder'
           /\ \A s \in TxnIds \ {t} : txn'[s] = txn[s]
           /\ txn'[t] # Absent /\ txn'[t].user = u /\ txn'[t].type = type
           /\ Amount(t)' = a /\ a \in Nat
           /\ credits'[t] = 0 /\ withdrawal[t] = "NONE"
           /\ \A v \in Users : HeldFor(v, t) = 0 /\ EnteredFor(v, t) = 0
<1>1. /\ txn[t] = Absent
      /\ txn'[t] = [user |-> u, amount |-> a, type |-> type, status |-> status]
      /\ txn'[t] # Absent
      /\ \A s \in TxnIds \ {t} : txn'[s] = txn[s]
  BY CreatedRow DEF IInv, CreateTransaction, TypeOK
<1>2. credits'[t] = 0 /\ withdrawal[t] = "NONE"
  BY <1>1 DEF MoneyInv, RowsInOrder, IInv, RowsExist
<1>3. RowsInOrder'
  BY <1>1, <1>2 DEF MoneyInv, RowsInOrder
<1>4. \A v \in Users : HeldFor(v, t) = 0 /\ EnteredFor(v, t) = 0
  BY <1>1 DEF HeldFor, EnteredFor, OpenRequests, RowsOf
<1>5. /\ txn'[t].user = u /\ txn'[t].type = type
      /\ Amount(t)' = a /\ a \in Nat
  <2> DEFINE row == [user |-> u, amount |-> a, type |-> type, status |-> status]
  <2>0. row.user = u /\ row.type = type /\ row.amount = a
    OBVIOUS
  <2> HIDE DEF row
  <2>1. txn'[t].user = u /\ txn'[t].type = type /\ txn'[t].amount = a
    <3>1. txn'[t] = row
      BY <1>1 DEF row
    <3> QED
      BY <2>0, <3>1
  <2>2. a \in Nat
    BY AmountsAssumption
  <2> QED
    BY <2>1, <2>2 DEF Amount
<1> QED
  BY <1>1, <1>2, <1>3, <1>4, <1>5

\* Every step keeps the money explained.
LEMMA NextMoney == IInv /\ IInv' /\ MoneyInv /\ [Next]_vars => MoneyInv'
<1> SUFFICES ASSUME IInv, IInv', MoneyInv, [Next]_vars PROVE MoneyInv'
  OBVIOUS
<1>0. \A u \in Users : balance[u] \in Nat /\ lockedBalance[u] \in Nat
  BY DEF IInv, TypeOK
<1>1. ASSUME NEW u \in Users, NEW a \in Amounts, NEW t \in TxnIds, TopUp(u, a, t)
      PROVE  MoneyInv'
  <2>1. CreateTransaction(t, u, a, "PAYMENT", "PENDING")
    BY <1>1 DEF TopUp
  <2>2. /\ RowsInOrder' /\ \A s \in TxnIds \ {t} : txn'[s] = txn[s]
        /\ txn'[t].type = "PAYMENT" /\ Amount(t)' \in Nat
        /\ credits'[t] = 0 /\ withdrawal'[t] = "NONE"
        /\ \A v \in Users : HeldFor(v, t) = 0 /\ EnteredFor(v, t) = 0
    <3>1. withdrawal[t] = "NONE"
      BY <2>1 DEF CreateTransaction, IInv, RowsExist
    <3> QED
      BY <1>1, <2>1, <3>1, CreatedKeepsOrder DEF TopUp, TransactionType, TransactionStatus
  <2>3. Entry(t)' = 0
    BY <2>2 DEF Entry, Signed
  <2>4. \A v \in Users : HeldFor(v, t)' = 0 /\ EnteredFor(v, t)' = 0
    BY <2>2, <2>3 DEF HeldFor, EnteredFor, OpenRequests
  <2> QED
    BY <1>0, <1>1, <2>2, <2>4, OneRowMoves DEF TopUp
<1>2. ASSUME NEW u \in Users, NEW a \in Amounts, NEW t \in TxnIds,
             RequestWalletWithdrawal(u, a, t)
      PROVE  MoneyInv'
  <2>1. CreateTransaction(t, u, a, "WITHDRAWAL_REQUEST", "PENDING")
    BY <1>2 DEF RequestWalletWithdrawal
  <2>2. withdrawal'[t] = "PENDING" /\ \A s \in TxnIds \ {t} : withdrawal'[s] = withdrawal[s]
    BY <1>2 DEF RequestWalletWithdrawal, IInv, TypeOK
  <2>3. /\ RowsInOrder' /\ \A s \in TxnIds \ {t} : txn'[s] = txn[s]
        /\ txn'[t] # Absent /\ txn'[t].user = u /\ txn'[t].type = "WITHDRAWAL_REQUEST"
        /\ Amount(t)' = a /\ a \in Nat /\ credits'[t] = 0
        /\ \A v \in Users : HeldFor(v, t) = 0 /\ EnteredFor(v, t) = 0
    BY <1>2, <2>1, <2>2, CreatedKeepsOrder
       DEF RequestWalletWithdrawal, TransactionType, TransactionStatus
  <2>4. Entry(t)' = 0
    BY <2>2, <2>3 DEF Entry, Signed
  <2>5. \A v \in Users : /\ HeldFor(v, t)' = IF v = u THEN a ELSE 0
                         /\ EnteredFor(v, t)' = 0
    BY <2>2, <2>3, <2>4 DEF HeldFor, EnteredFor, OpenRequests, RowsOf
  <2>6. \A v \in Users : /\ lockedBalance'[v] = lockedBalance[v] + (IF v = u THEN a ELSE 0)
                         /\ balance'[v] = balance[v] - (IF v = u THEN a ELSE 0)
    BY <1>0, <1>2, <2>3 DEF RequestWalletWithdrawal, IInv, TypeOK
  <2>7. \A v \in Users :
            /\ lockedBalance'[v] = lockedBalance[v] - HeldFor(v, t) + HeldFor(v, t)'
            /\ balance'[v] + lockedBalance'[v] =
                   (balance[v] + lockedBalance[v]) - EnteredFor(v, t) + EnteredFor(v, t)'
    BY <1>0, <2>3, <2>5, <2>6
  <2> QED
    BY <1>2, <2>2, <2>3, <2>7, OneRowMoves DEF RequestWalletWithdrawal
<1>3. ASSUME NEW t \in TxnIds, NEW action \in {"COMPLETED", "REJECTED"},
             ProcessWalletWithdrawalRequest(t, action)
      PROVE  MoneyInv'
  <2> DEFINE u == txn[t].user
             a == txn[t].amount
  <2>1. txn[t] \in Transaction /\ txn[t] # Absent
    BY <1>3 DEF ProcessWalletWithdrawalRequest, IInv, TypeOK, RowsExist
  <2>2. u \in Users /\ a \in Nat /\ txn[t].type = "WITHDRAWAL_REQUEST"
    BY <1>3, <2>1
       DEF Transaction, ProcessWalletWithdrawalRequest, MoneyInv, RowsInOrder
  <2>3. /\ \A s \in TxnIds \ {t} : /\ txn'[s] = txn[s] /\ withdrawal'[s] = withdrawal[s]
                                   /\ credits'[s] = credits[s]
        /\ withdrawal[t] = "PENDING" /\ withdrawal'[t] = action /\ credits'[t] = credits[t]
    BY <1>3 DEF ProcessWalletWithdrawalRequest, IInv, TypeOK
  <2>4. /\ txn'[t] # Absent /\ txn'[t].user = u /\ txn'[t].amount = a
        /\ txn'[t].type = "WITHDRAWAL_REQUEST"
    BY <1>3, <2>1, <2>2, RestatusedRow
       DEF IInv, ProcessWalletWithdrawalRequest, TransactionStatus
  <2>5. RowsInOrder'
    BY <2>3, <2>4 DEF MoneyInv, RowsInOrder
  <2>6. /\ Signed(t) = 0 /\ Amount(t) = a /\ Amount(t)' = a
        /\ Signed(t)' = IF action = "COMPLETED" THEN -a ELSE 0
    BY <2>2, <2>3, <2>4 DEF Signed, Amount
  <2>7. credits[t] * a \in Int
    BY <2>2 DEF IInv, TypeOK
  <2>8. Entry(t) = credits[t] * a /\
        Entry(t)' = credits[t] * a - (IF action = "COMPLETED" THEN a ELSE 0)
    BY <2>2, <2>3, <2>6, <2>7 DEF Entry
  <2>9. \A v \in Users :
            /\ HeldFor(v, t) = IF v = u THEN a ELSE 0
            /\ HeldFor(v, t)' = 0
            /\ EnteredFor(v, t) = IF v = u THEN Entry(t) ELSE 0
            /\ EnteredFor(v, t)' = IF v = u THEN Entry(t)' ELSE 0
    BY <2>1, <2>3, <2>4, <2>6 DEF HeldFor, EnteredFor, OpenRequests, RowsOf
  <2>10. \A v \in Users :
            /\ lockedBalance'[v] = lockedBalance[v] - (IF v = u THEN a ELSE 0)
            /\ balance'[v] = balance[v] + (IF v = u /\ action = "REJECTED" THEN a ELSE 0)
    BY <1>0, <1>3, <2>2 DEF ProcessWalletWithdrawalRequest, IInv, TypeOK
  <2>11. \A v \in Users :
            /\ lockedBalance'[v] = lockedBalance[v] - HeldFor(v, t) + HeldFor(v, t)'
            /\ balance'[v] + lockedBalance'[v] =
                   (balance[v] + lockedBalance[v]) - EnteredFor(v, t) + EnteredFor(v, t)'
    BY <1>0, <2>2, <2>7, <2>8, <2>9, <2>10
  <2> QED
    BY <2>3, <2>5, <2>11, OneRowMoves
<1>4. ASSUME NEW t \in TxnIds, NEW u \in Users, NEW a \in Amounts,
             NEW type \in {"ADD", "REMOVE"}, AdjustUserWalletBalance(u, a, type, t)
      PROVE  MoneyInv'
  <2>1. CreateTransaction(t, u, a, type, "APPROVED")
    BY <1>4 DEF AdjustUserWalletBalance
  <2>2. /\ RowsInOrder' /\ \A s \in TxnIds \ {t} : txn'[s] = txn[s]
        /\ txn'[t] # Absent /\ txn'[t].user = u /\ txn'[t].type = type
        /\ Amount(t)' = a /\ a \in Nat
        /\ credits'[t] = 0 /\ withdrawal'[t] = "NONE"
        /\ \A v \in Users : HeldFor(v, t) = 0 /\ EnteredFor(v, t) = 0
    <3>1. withdrawal[t] = "NONE"
      BY <2>1 DEF CreateTransaction, IInv, RowsExist
    <3> QED
      BY <1>4, <2>1, <3>1, CreatedKeepsOrder
         DEF AdjustUserWalletBalance, TransactionType, TransactionStatus
  <2>3. Entry(t)' = IF type = "ADD" THEN a ELSE -a
    BY <2>2 DEF Entry, Signed
  <2>4. \A v \in Users : /\ HeldFor(v, t)' = 0
                         /\ EnteredFor(v, t)' = IF v = u THEN Entry(t)' ELSE 0
    BY <2>2 DEF HeldFor, EnteredFor, OpenRequests, RowsOf
  <2>5. \A v \in Users : balance'[v] = balance[v] + (IF v = u THEN Entry(t)' ELSE 0)
    BY <1>0, <1>4, <2>2, <2>3 DEF AdjustUserWalletBalance, IInv, TypeOK
  <2>6. \A v \in Users :
            /\ lockedBalance'[v] = lockedBalance[v] - HeldFor(v, t) + HeldFor(v, t)'
            /\ balance'[v] + lockedBalance'[v] =
                   (balance[v] + lockedBalance[v]) - EnteredFor(v, t) + EnteredFor(v, t)'
    BY <1>0, <1>4, <2>2, <2>3, <2>4, <2>5 DEF AdjustUserWalletBalance
  <2> QED
    BY <1>4, <2>2, <2>6, OneRowMoves DEF AdjustUserWalletBalance
<1>5. ASSUME NEW h \in Handlers, ApproveWrite(h)
      PROVE  MoneyInv'
  <2>0. /\ review[h].txn \in TxnIds /\ review[h].action \in Decision
        /\ txn[review[h].txn] \in Transaction /\ txn[review[h].txn] # Absent
    BY <1>5 DEF ApproveWrite, IInv, TypeOK, RowsExist, Review
  <2>1. PICK t \in TxnIds, action \in Decision :
            /\ t = review[h].txn /\ action = review[h].action
            /\ txn[t] \in Transaction /\ txn[t] # Absent
    BY <2>0
  <2>2. PICK u \in Users, a \in Nat : u = txn[t].user /\ a = txn[t].amount
    BY <2>1 DEF Transaction
  <2>3. txn' = [txn EXCEPT ![t] = [@ EXCEPT !.status = action]] /\ action \in TransactionStatus
    BY <1>5, <2>1 DEF ApproveWrite, Decision, TransactionStatus
  <2>4. /\ \A s \in TxnIds \ {t} : txn'[s] = txn[s]
        /\ txn'[t] # Absent /\ txn'[t].user = u /\ txn'[t].amount = a
        /\ txn'[t].type = txn[t].type
    BY <2>1, <2>2, <2>3, RestatusedRow DEF IInv
  <2>5. /\ withdrawal' = withdrawal /\ lockedBalance' = lockedBalance
        /\ \A s \in TxnIds \ {t} : credits'[s] = credits[s]
        /\ credits'[t] = credits[t] + (IF action = "APPROVED" THEN 1 ELSE 0)
        /\ credits[t] \in Nat
        /\ \A v \in Users :
              balance'[v] = balance[v] + (IF v = u /\ action = "APPROVED" THEN a ELSE 0)
    BY <1>0, <1>5, <2>1, <2>2 DEF ApproveWrite, IInv, TypeOK
  <2>6. RowsInOrder'
    BY <2>1, <2>4, <2>5 DEF MoneyInv, RowsInOrder
  <2>7. /\ Amount(t) = a /\ Amount(t)' = a /\ Signed(t)' = Signed(t) /\ Signed(t) \in Int
    <3>1. Amount(t) = a /\ Amount(t)' = a
      BY <2>2, <2>4 DEF Amount
    <3>2. Signed(t)' = Signed(t)
      BY <2>4, <2>5, <3>1 DEF Signed
    <3>3. Signed(t) \in Int
      BY <2>1, EntriesAreInts
    <3> QED
      BY <3>1, <3>2, <3>3
  <2>8. \A c \in Nat : c * a \in Int /\ (c + 1) * a = c * a + a
    BY <2>2
  <2>9. Entry(t)' = Entry(t) + (IF action = "APPROVED" THEN a ELSE 0) /\ Entry(t) \in Int
    <3>1. Entry(t) = credits[t] * a + Signed(t) /\ Entry(t)' = credits'[t] * a + Signed(t)
      BY <2>7 DEF Entry
    <3>2. credits'[t] * a = credits[t] * a + (IF action = "APPROVED" THEN a ELSE 0)
      <4>1. CASE action = "APPROVED"
        BY <2>5, <2>8, <4>1
      <4>2. CASE action # "APPROVED"
        <5>1. credits'[t] = credits[t] + 0 /\ credits[t] \in Nat
          BY <2>5, <4>2
        <5>2. credits'[t] * a = credits[t] * a
          BY <5>1
        <5>3. credits[t] * a + 0 = credits[t] * a
          BY <2>8, <5>1
        <5> QED
          BY <4>2, <5>2, <5>3
      <4> QED
        BY <4>1, <4>2
    <3>3. credits[t] * a \in Int /\ Signed(t) \in Int
      BY <2>5, <2>7, <2>8
    <3> QED
      BY <2>2, <3>1, <3>2, <3>3
  <2>10. \A v \in Users :
            /\ HeldFor(v, t)' = HeldFor(v, t) /\ HeldFor(v, t) \in Int
            /\ EnteredFor(v, t) = IF v = u THEN Entry(t) ELSE 0
            /\ EnteredFor(v, t)' = IF v = u THEN Entry(t)' ELSE 0
    <3> SUFFICES ASSUME NEW v \in Users
                 PROVE  /\ HeldFor(v, t)' = HeldFor(v, t) /\ HeldFor(v, t) \in Int
                        /\ EnteredFor(v, t) = IF v = u THEN Entry(t) ELSE 0
                        /\ EnteredFor(v, t)' = IF v = u THEN Entry(t)' ELSE 0
      OBVIOUS
    <3>2. (t \in RowsOf(v) <=> u = v) /\ (t \in RowsOf(v)' <=> u = v)
      BY <2>1, <2>2, <2>4 DEF RowsOf
    <3>3. t \in OpenRequests(v) <=> t \in OpenRequests(v)'
      BY <2>5, <3>2 DEF OpenRequests
    <3>4. HeldFor(v, t)' = HeldFor(v, t) /\ HeldFor(v, t) \in Int
      BY <2>2, <2>7, <3>3 DEF HeldFor
    <3> QED
      BY <3>2, <3>4 DEF EnteredFor
  <2>11. \A v \in Users :
            /\ lockedBalance'[v] = lockedBalance[v] - HeldFor(v, t) + HeldFor(v, t)'
            /\ balance'[v] + lockedBalance'[v] =
                   (balance[v] + lockedBalance[v]) - EnteredFor(v, t) + EnteredFor(v, t)'
    BY <1>0, <2>2, <2>5, <2>9, <2>10
  <2> QED
    BY <2>1, <2>4, <2>5, <2>6, <2>11, OneRowMoves
<1>6. ASSUME NEW h \in Handlers, NEW t \in TxnIds, NEW action \in Decision,
             ApproveRead(h, t, action)
      PROVE  MoneyInv'
  BY <1>6, MoneyAlone DEF ApproveRead
<1>7. ASSUME NEW h \in Handlers, ApproveRollback(h)
      PROVE  MoneyInv'
  BY <1>7, MoneyAlone DEF ApproveRollback
<1>8. CASE UNCHANGED vars
  BY <1>8, MoneyAlone DEF vars
<1> QED
  BY <1>1, <1>2, <1>3, <1>4, <1>5, <1>6, <1>7, <1>8 DEF Next, UserStep, AdminStep

-----------------------------------------------------------------------------
(* The two sums the runs check *)

\* No rows, no money.
LEMMA InitMoney == Init => MoneyInv
<1> SUFFICES ASSUME Init PROVE MoneyInv
  OBVIOUS
<1>1. \A u \in Users : RowsOf(u) = {} /\ OpenRequests(u) = {}
  BY DEF Init, RowsOf, OpenRequests
<1>2. \A u \in Users : balance[u] = 0 /\ lockedBalance[u] = 0
  BY DEF Init
<1>3. RowsInOrder
  BY DEF Init, RowsInOrder
<1> QED
  BY <1>1, <1>2, <1>3, SumEmpty, FS_EmptySet DEF MoneyInv

\* The sums as the properties write them are the sums of the lemmas.
LEMMA SumsWritten ==
    ASSUME NEW S, S \subseteq TxnIds
    PROVE  /\ MapThenSumSet(Amount, S) = SumOf(AmountBy, S)
           /\ MapThenSumSet(LAMBDA t : credits[t] * Amount(t) + Signed(t), S)
                  = SumOf(EntryBy, S)
<1>1. MapThenSumSet(Amount, S) = SumOf(AmountBy, S)
  BY DEF SumOf, MapThenSumSet, MapThenFoldSet, AmountBy
<1>2. MapThenSumSet(LAMBDA t : credits[t] * Amount(t) + Signed(t), S) = SumOf(EntryBy, S)
  BY DEF SumOf, MapThenSumSet, MapThenFoldSet, EntryBy, Entry
<1> QED
  BY <1>1, <1>2

\* The invariant says what the runs check.
LEMMA MoneyExplained == MoneyInv => LockedCoversPending /\ LedgerExplainsWallet
<1> SUFFICES ASSUME MoneyInv, NEW u \in Users
             PROVE  /\ lockedBalance[u] = MapThenSumSet(Amount, OpenRequests(u))
                    /\ balance[u] + lockedBalance[u] =
                          MapThenSumSet(LAMBDA t : credits[t] * Amount(t) + Signed(t), RowsOf(u))
  BY DEF LockedCoversPending, LedgerExplainsWallet, OpenRequests
<1>1. OpenRequests(u) \subseteq TxnIds /\ RowsOf(u) \subseteq TxnIds
  BY DEF OpenRequests, RowsOf
<1>2. /\ lockedBalance[u] = SumOf(AmountBy, OpenRequests(u))
      /\ balance[u] + lockedBalance[u] = SumOf(EntryBy, RowsOf(u))
  BY DEF MoneyInv
<1>3. MapThenSumSet(Amount, OpenRequests(u)) = SumOf(AmountBy, OpenRequests(u))
  BY <1>1, SumsWritten
<1>4. MapThenSumSet(LAMBDA t : credits[t] * Amount(t) + Signed(t), RowsOf(u))
          = SumOf(EntryBy, RowsOf(u))
  BY <1>1, SumsWritten
<1> QED
  BY <1>2, <1>3, <1>4

\* For any users, rows and admins at work: a user's locked balance is the sum of that
\* user's open withdrawal requests.
THEOREM LockedIsPending == Spec => []LockedCoversPending
BY InitIInv, NextIInv, InitMoney, NextMoney, MoneyExplained, PTL DEF Spec

\* For any users, rows and admins at work: the money in a wallet, free and locked, is what
\* the approvals, corrections and payouts recorded in the rows make it.
THEOREM LedgerExplains == Spec => []LedgerExplainsWallet
BY InitIInv, NextIInv, InitMoney, NextMoney, MoneyExplained, PTL DEF Spec
=============================================================================
