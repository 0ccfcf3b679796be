------------------------- MODULE WithdrawalContract -------------------------
(***************************************************************************)
(* What the wallet promises its owner about withdrawals, with no rows, no  *)
(* transactions and no admin handlers: money that leaves the available     *)
(* balance for a request is held in full, and comes out of the hold        *)
(* exactly once, either to the bank or back to the available balance.      *)
(* Wallet.tla implements this specification (property ImplementsContract). *)
(***************************************************************************)
EXTENDS Integers

CONSTANTS
    Users,
    Requests,     \* identities of withdrawal requests
    Amounts,
    NoRequest     \* the value of a request that was never made

VARIABLES
    available,    \* available[u]: what u may spend
    held,         \* held[u]: what is set aside for u's open requests
    request       \* request[r]: NoRequest, or its owner, amount and state

vars == <<available, held, request>>

Request == [owner : Users, amount : Amounts,
            state : {"PENDING", "COMPLETED", "REJECTED"}]

Init ==
    /\ available = [u \in Users |-> 0]
    /\ held = [u \in Users |-> 0]
    /\ request = [r \in Requests |-> NoRequest]

\* Deposits, corrections and payments move the available balance only.
Move(u) ==
    \E a \in Amounts :
        /\ available' \in { [available EXCEPT ![u] = @ + a],
                            [available EXCEPT ![u] = @ - a] }
        /\ available'[u] >= 0
        /\ UNCHANGED <<held, request>>

Hold(r) ==
    \E u \in Users, a \in Amounts :
        /\ request[r] = NoRequest
        /\ available[u] >= a
        /\ available' = [available EXCEPT ![u] = @ - a]
        /\ held' = [held EXCEPT ![u] = @ + a]
        /\ request' = [request EXCEPT
               ![r] = [owner |-> u, amount |-> a, state |-> "PENDING"]]

PayOut(r) ==
    /\ request[r] \in Request
    /\ request[r].state = "PENDING"
    /\ held' = [held EXCEPT ![request[r].owner] = @ - request[r].amount]
    /\ request' = [request EXCEPT ![r] = [@ EXCEPT !.state = "COMPLETED"]]
    /\ UNCHANGED available

GiveBack(r) ==
    /\ request[r] \in Request
    /\ request[r].state = "PENDING"
    /\ held' = [held EXCEPT ![request[r].owner] = @ - request[r].amount]
    /\ available' = [available EXCEPT ![request[r].owner] = @ + request[r].amount]
    /\ request' = [request EXCEPT ![r] = [@ EXCEPT !.state = "REJECTED"]]

Next ==
    \/ \E u \in Users : Move(u)
    \/ \E r \in Requests : Hold(r) \/ PayOut(r) \/ GiveBack(r)

Spec == Init /\ [][Next]_vars
=============================================================================
