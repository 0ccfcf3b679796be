----------------------------- MODULE CopyContract -----------------------------
(***************************************************************************)
(* What the intake of the master's fills promises the followers, with no   *)
(* channels, messages or running calls: each lot of an order is decided    *)
(* once by one process, handed to the followers or dropped, and a lot that *)
(* was dropped is not handed on later.  A restart forgets the decisions.   *)
(* MasterFills.tla implements this specification.                          *)
(***************************************************************************)
EXTENDS Integers, Sequences

CONSTANTS Orders

VARIABLES
    fate   \* fate[o][n]: what became of the n-th lot filled by order o

Init == fate = [o \in Orders |-> <<>>]

Fill(o) == fate' = [fate EXCEPT ![o] = Append(@, "open")]

OpenLots ==
    UNION { { <<o, n>> : n \in { k \in 1..Len(fate[o]) : fate[o][k] = "open" } } : o \in Orders }

Decide(lots, outcome) ==
    fate' = [o \in Orders |->
                [n \in 1..Len(fate[o]) |-> IF <<o, n>> \in lots THEN outcome ELSE fate[o][n]]]

Forget == fate' = [o \in Orders |-> [n \in 1..Len(fate[o]) |-> "open"]]

Next ==
    \/ \E o \in Orders : Fill(o)
    \/ \E lots \in SUBSET OpenLots, outcome \in {"handed", "dropped"} : Decide(lots, outcome)
    \/ Forget

Spec == Init /\ [][Next]_fate
=============================================================================
