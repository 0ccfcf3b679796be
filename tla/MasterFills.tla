----------------------------- MODULE MasterFills -----------------------------
(***************************************************************************)
(* The intake of the master's fills for one leg (a symbol and a side) of   *)
(* one strategy (tradeEngine.ts, masterFillDedup.ts, wsWorkQueue.ts).      *)
(*                                                                         *)
(* The exchange reports a fill on three websocket channels, in any order:  *)
(* user_trades (one message per fill), orders (the order's cumulative      *)
(* quantity) and positions (the size of the leg).  The first of the two    *)
(* former to arrive copies the fill to the followers; MasterFillDedup      *)
(* remembers what was copied.  A fill that reduces the leg closes the      *)
(* followers at once; a REST poll brings the tracker back in line.  All of *)
(* it lives in memory.                                                     *)
(*                                                                         *)
(* One unit is one contract; <<o, n>> is the n-th lot filled by order o.   *)
(***************************************************************************)
EXTENDS Integers, Sequences, FiniteSets

CONSTANTS
    Orders,         \* the master's opening orders
    MaxFills,       \* bound on the lots they fill together
    MaxEvents       \* bound on the master's reducing fills, the messages that repeat a
                    \* state or a trade, the lost connections and the restarts together

ASSUME BoundsAssumption == {MaxFills, MaxEvents} \subseteq Nat

VARIABLES
    filled,     \* per order, the lots filled on the exchange
    position,   \* the master's leg on the exchange
    spent,      \* how much of the bounds is used up, and by what
    wire,       \* the messages sent and not handled yet
    seen,       \* seenTradeIds: the lots whose trade was looked at
    byFills,    \* fillsCopiedOrderIds: orders copied from user_trades first
    byOrders,   \* ordersCopiedOrderIds: orders copied from the orders channel first
    piped,      \* orderPipelineCopied: per order, the quantity already copied
    legCopied,  \* legPipelineCopied: the leg's total already copied
    tracker,    \* MasterPositionTracker: the leg's size as the process knows it
    tasks,      \* the running triggerLiveMasterOpenCopyImmediate calls
    closes,     \* closes waiting in the high-priority queue of WsWorkQueue
    hint,       \* wsFlatHint: a closing message was seen
    closing,    \* the closing lock of the leg, with the flatting lock (60 seconds)
    closer,     \* which path runs notifyMasterFlat: "ws", "rest" or "none"
    rest,       \* the size a REST poll has fetched, None between two polls
    copied,     \* the lots handed to the followers since the process started
    refused,    \* the lots dropped: lock, hint, no price, total already copied
    twice       \* the lots handed to the followers twice since the process started

dedup == <<seen, byFills, byOrders, piped, legCopied>>
locks == <<hint, closing, closer>>
vars == <<filled, position, spent, wire, dedup, tracker, tasks, closes, locks, rest,
          copied, refused, twice>>

None == -1
Larger(a, b) == IF a > b THEN a ELSE b
NoMessages == [fills |-> {}, orders |-> {}, reducing |-> 0, sizes |-> <<>>]
NothingSpent == [fills |-> 0, reduces |-> 0, updates |-> 0, drops |-> 0]

Stages == {"symbol", "price"}
LotsOf(o) == { <<o, n>> : n \in 1..filled[o] }
EventsLeft == spent.reduces + spent.updates + spent.drops < MaxEvents
AllLots == UNION { LotsOf(o) : o \in Orders }

TypeOK ==
    /\ filled \in [Orders -> Nat]
    /\ position \in Nat
    /\ wire.fills \subseteq AllLots
    /\ wire.orders \subseteq AllLots
    /\ wire.reducing \in Nat
    /\ wire.sizes \in Seq(Nat)
    /\ seen \subseteq AllLots
    /\ byFills \subseteq Orders
    /\ byOrders \subseteq Orders
    /\ \A o \in Orders : piped[o] \in 0..filled[o]
    /\ {legCopied, tracker, closes} \subseteq Nat
    /\ \A t \in tasks : t.lots \subseteq AllLots /\ t.stage \in Stages
    /\ {hint, closing} \subseteq BOOLEAN
    /\ closer \in {"ws", "rest", "none"}
    /\ rest \in Nat \cup {None}
    /\ copied \cup refused \cup twice \subseteq AllLots

Init ==
    /\ filled = [o \in Orders |-> 0]
    /\ position = 0
    /\ spent = NothingSpent
    /\ wire = NoMessages
    /\ seen = {} /\ byFills = {} /\ byOrders = {}
    /\ piped = [o \in Orders |-> 0]
    /\ legCopied = 0
    /\ tracker = 0
    /\ tasks = {}
    /\ closes = 0
    /\ hint = FALSE /\ closing = FALSE /\ closer = "none"
    /\ rest = None
    /\ copied = {} /\ refused = {} /\ twice = {}

-----------------------------------------------------------------------------
(* The exchange *)

Fill(o) ==
    /\ spent.fills < MaxFills
    /\ spent' = [spent EXCEPT !.fills = @ + 1]
    /\ filled' = [filled EXCEPT ![o] = @ + 1]
    /\ position' = position + 1
    /\ wire' = [wire EXCEPT !.fills = @ \cup {<<o, filled[o] + 1>>},
                            !.orders = @ \cup {<<o, filled[o] + 1>>},
                            !.sizes = Append(@, position + 1)]
    /\ UNCHANGED <<dedup, tracker, tasks, closes, locks, rest, copied, refused, twice>>

\* A reduce-only order takes lots off the leg; the second report of it changes nothing.
Reduce(k) ==
    /\ EventsLeft
    /\ k <= position
    /\ spent' = [spent EXCEPT !.reduces = @ + 1]
    /\ position' = position - k
    /\ wire' = [wire EXCEPT !.reducing = @ + 1, !.sizes = Append(@, position - k)]
    /\ UNCHANGED <<filled, dedup, tracker, tasks, closes, locks, rest, copied, refused, twice>>

\* The exchange repeats an order's or the leg's state (a status, a new margin) or a trade.
Update(o) ==
    /\ EventsLeft
    /\ spent' = [spent EXCEPT !.updates = @ + 1]
    /\ \/ filled[o] > 0 /\ wire' = [wire EXCEPT !.orders = @ \cup {<<o, filled[o]>>}]
       \/ position > 0 /\ wire' = [wire EXCEPT !.sizes = Append(@, position)]
       \/ \E n \in 1..filled[o] : wire' = [wire EXCEPT !.fills = @ \cup {<<o, n>>}]
    /\ UNCHANGED <<filled, position, dedup, tracker, tasks, closes, locks, rest,
                   copied, refused, twice>>

-----------------------------------------------------------------------------
(* One message at a time; closes overtake what waits *)

Free == closer # "ws"
FreeForMessages == Free /\ closes = 0
OpensBlocked == closing \/ hint

\* Deviation, for the mutation of Trigger: a copy that is blocked is noted as dropped and
\* goes on.
TriggerGoesOn(lots) ==
    /\ tasks' = tasks \cup {[lots |-> lots, stage |-> "symbol", total |-> 0]}
    /\ refused' = IF OpensBlocked THEN refused \cup lots ELSE refused

\* triggerLiveMasterOpenCopyImmediate runs beside the queue from here on.
Trigger(lots) ==
    IF OpensBlocked
    THEN refused' = refused \cup lots /\ UNCHANGED tasks
    ELSE /\ tasks' = tasks \cup {[lots |-> lots, stage |-> "symbol", total |-> 0]}
         /\ UNCHANGED refused

FillsSkip(o, n) == <<o, n>> \in seen \/ o \in byOrders

\* A user_trades message.
HandleFill(o, n) ==
    /\ FreeForMessages
    /\ <<o, n>> \in wire.fills
    /\ wire' = [wire EXCEPT !.fills = @ \ {<<o, n>>}]
    /\ seen' = seen \cup {<<o, n>>}
    /\ IF FillsSkip(o, n)
       THEN UNCHANGED <<byFills, piped, tasks, refused>>
       ELSE /\ byFills' = byFills \cup {o}
            /\ piped' = [piped EXCEPT ![o] = @ + 1]
            /\ Trigger({<<o, n>>})
    /\ UNCHANGED <<filled, position, spent, byOrders, legCopied, tracker, closes, locks,
                   rest, copied, twice>>

\* Deviations, for the mutation of OrdersDelta: the other channel is not asked; only the
\* last fill of the message is looked at.
OrdersDeltaAlways(o, cum) == { <<o, n>> : n \in (piped[o] + 1)..cum }
OrdersDeltaLastLot(o, cum) ==
    IF o \in byFills \/ cum <= piped[o] THEN {} ELSE {<<o, cum>>}

\* The lots an orders message with cumulative quantity cum has to copy.
OrdersDelta(o, cum) ==
    IF o \in byFills THEN {} ELSE { <<o, n>> : n \in (piped[o] + 1)..cum }

HandleOrder(o, cum) ==
    /\ FreeForMessages
    /\ <<o, cum>> \in wire.orders
    /\ wire' = [wire EXCEPT !.orders = @ \ {<<o, cum>>}]
    /\ IF OrdersDelta(o, cum) = {}
       THEN UNCHANGED <<byOrders, piped, tasks, refused>>
       ELSE /\ byOrders' = byOrders \cup {o}
            /\ piped' = [piped EXCEPT ![o] = cum]
            /\ Trigger(OrdersDelta(o, cum))
    /\ UNCHANGED <<filled, position, spent, seen, byFills, legCopied, tracker, closes,
                   locks, rest, copied, twice>>

\* A positions message writes the tracker; size 0 queues a close.
HandleSize ==
    /\ FreeForMessages
    /\ wire.sizes # <<>>
    /\ wire' = [wire EXCEPT !.sizes = Tail(@)]
    /\ IF Head(wire.sizes) > 0
       THEN tracker' = Head(wire.sizes) /\ UNCHANGED closes
       ELSE closes' = closes + (IF tracker > 0 THEN 1 ELSE 0) /\ UNCHANGED tracker
    /\ UNCHANGED <<filled, position, spent, dedup, tasks, locks, rest, copied, refused,
                   twice>>

\* handleMasterWsInstantLegClose up to the fan-out of notifyMasterFlat.
InstantClose ==
    IF closer # "none" \/ closing \/ tracker = 0
    THEN UNCHANGED locks
    ELSE hint' = TRUE /\ closing' = TRUE /\ closer' = "ws"

HandleClose ==
    /\ Free
    /\ \/ closes > 0 /\ closes' = closes - 1 /\ UNCHANGED wire
       \/ /\ closes = 0
          /\ wire.reducing > 0
          /\ wire' = [wire EXCEPT !.reducing = @ - 1]
          /\ UNCHANGED closes
    /\ InstantClose
    /\ UNCHANGED <<filled, position, spent, dedup, tracker, tasks, rest, copied, refused,
                   twice>>

\* notifyMasterFlat returns: every follower is flat, or some are not.
CloseEnds ==
    /\ closer # "none"
    /\ closer' = "none"
    /\ \/ tracker' = 0 /\ hint' = FALSE
       \/ UNCHANGED <<tracker, hint>>
    /\ UNCHANGED <<filled, position, spent, wire, dedup, tasks, closes, closing, rest,
                   copied, refused, twice>>

\* The closing lock runs out.
Unlock ==
    /\ closing
    /\ closing' = FALSE
    /\ UNCHANGED <<filled, position, spent, wire, dedup, tracker, tasks, closes, hint,
                   closer, rest, copied, refused, twice>>

-----------------------------------------------------------------------------
(* triggerLiveMasterOpenCopyImmediate after its first await *)

LegSkip(total) == legCopied >= total

\* The copy is handed to the followers and the tracker raised to the new total.
Forward(t, total) ==
    /\ legCopied' = Larger(legCopied, total)
    /\ twice' = twice \cup (t.lots \cap copied)
    /\ copied' = copied \cup t.lots
    /\ tracker' = Larger(tracker, total)
    /\ tasks' = tasks \ {t}
    /\ UNCHANGED refused

Drop(t) ==
    /\ refused' = refused \cup t.lots
    /\ tasks' = tasks \ {t}
    /\ UNCHANGED <<legCopied, twice, copied, tracker>>

\* The total is what the tracker holds plus these lots; the message has a price,
\* or one is awaited.
AfterSymbol(t) ==
    /\ t.stage = "symbol"
    /\ LET total == tracker + Cardinality(t.lots) IN
       IF LegSkip(total) THEN Drop(t)
       ELSE \/ Forward(t, total)
            \/ /\ tasks' = (tasks \ {t})
                   \cup {[lots |-> t.lots, stage |-> "price", total |-> total]}
               /\ UNCHANGED <<legCopied, twice, copied, tracker, refused>>

AfterPrice(t) == t.stage = "price" /\ (Forward(t, t.total) \/ Drop(t))

TaskStep(t) ==
    /\ AfterSymbol(t) \/ AfterPrice(t)
    /\ UNCHANGED <<filled, position, spent, wire, seen, byFills, byOrders, piped, closes,
                   locks, rest>>

-----------------------------------------------------------------------------
(* The REST poll *)

RestRead ==
    /\ rest = None
    /\ rest' = position
    /\ UNCHANGED <<filled, position, spent, wire, dedup, tracker, tasks, closes, locks,
                   copied, refused, twice>>

\* Deviation, for the mutation of RestOpen: a leg seen open does not clear the hint.
RestOpenKeepsHint ==
    /\ rest > 0
    /\ \/ ~OpensBlocked /\ tracker' = rest
       \/ UNCHANGED tracker
    /\ UNCHANGED locks

\* An open leg is written to the tracker unless it is being closed, is too old or is
\* not to be copied; seen open, it clears the hint.
RestOpen ==
    /\ rest > 0
    /\ \/ ~OpensBlocked /\ tracker' = rest
       \/ UNCHANGED tracker
    /\ hint' = (hint /\ tracker = 0)
    /\ UNCHANGED <<closing, closer>>

\* A tracked leg that is missing is read again and closed, at once under a hint that no
\* closing lock defers, else after four polls (here: some poll).
RestMissing ==
    /\ rest = 0
    /\ \/ UNCHANGED <<tracker, locks>>
       \/ /\ tracker > 0
          /\ position = 0
          /\ closer = "none"
          /\ hint => ~closing
          /\ closing' = TRUE
          /\ closer' = "rest"
          /\ UNCHANGED <<tracker, hint>>
       \/ /\ tracker > position
          /\ position > 0
          /\ hint
          /\ tracker' = position
          /\ UNCHANGED locks

RestAct ==
    /\ RestOpen \/ RestMissing
    /\ rest' = None
    /\ UNCHANGED <<filled, position, spent, wire, dedup, tasks, closes, copied, refused,
                   twice>>

-----------------------------------------------------------------------------
(* Lost connections and restarts *)

\* Messages on their way are lost; the tracker is read from REST.
Reconnect ==
    /\ EventsLeft
    /\ spent' = [spent EXCEPT !.drops = @ + 1]
    /\ wire' = NoMessages
    /\ tracker' = IF position > 0 THEN position ELSE tracker
    /\ UNCHANGED <<filled, position, dedup, tasks, closes, locks, rest, copied, refused,
                   twice>>

Restart ==
    /\ EventsLeft
    /\ spent' = [spent EXCEPT !.drops = @ + 1]
    /\ wire' = NoMessages
    /\ tracker' = position
    /\ seen' = {} /\ byFills' = {} /\ byOrders' = {}
    /\ piped' = [o \in Orders |-> 0]
    /\ legCopied' = 0
    /\ tasks' = {}
    /\ closes' = 0
    /\ hint' = FALSE /\ closing' = FALSE /\ closer' = "none"
    /\ rest' = None
    /\ copied' = {} /\ refused' = {} /\ twice' = {}
    /\ UNCHANGED <<filled, position>>

Next ==
    \/ \E o \in Orders : Fill(o) \/ Update(o)
    \/ \E k \in 1..MaxFills : Reduce(k)
    \/ \E o \in Orders, n \in 1..MaxFills : HandleFill(o, n) \/ HandleOrder(o, n)
    \/ HandleSize \/ HandleClose \/ CloseEnds \/ Unlock
    \/ \E t \in tasks : TaskStep(t)
    \/ RestRead \/ RestAct
    \/ Reconnect \/ Restart

Spec == Init /\ [][Next]_vars

\* The polls run on timers, the exchange answers them, and every close returns.
FairSpec == Spec /\ WF_vars(RestRead) /\ WF_vars(RestAct) /\ WF_vars(CloseEnds)

-----------------------------------------------------------------------------
(* Properties *)

\* However the two channels of a fill interleave and repeat, no lot is handed to the
\* followers twice by one process ("Whichever channel copies first for an orderId
\* blocks the other from copying", masterFillDedup.ts:8).
NoLotCopiedTwice == twice = {}

\* A lot that one channel leaves to the other is not lost between them: when every
\* message has been handled and no connection was lost, each lot was handed on, or
\* dropped by a named guard.
EveryLotAccounted ==
    wire.fills = {} /\ wire.orders = {} /\ tasks = {} /\ spent.drops = 0
        => AllLots = copied \cup refused

\* A flat hint blocks every copy of the leg; one that was wrong (the leg is still open)
\* is cleared, also when the close it announced failed.
WrongHintIsCleared == hint /\ position > 0 ~> ~hint \/ position = 0

\* "True when this master leg increment was already forwarded" (masterFillDedup.ts:28):
\* a lot is dropped for the leg's total only if it was copied.
DroppedForTotal(t) ==
    t.stage = "symbol" /\ LegSkip(tracker + Cardinality(t.lots)) /\ t \notin tasks'
SkippedIncrementWasForwarded ==
    [][\A t \in tasks : DroppedForTotal(t) => t.lots \subseteq copied]_vars

-----------------------------------------------------------------------------
(* Refinement *)

\* "twice" is no fate of the contract: handed on again, or handed on and dropped.
FateOfLot(l) ==
    IF l \in twice \cup (copied \cap refused) THEN "twice"
    ELSE IF l \in copied THEN "handed"
    ELSE IF l \in refused THEN "dropped"
    ELSE "open"

FateOf == [o \in Orders |-> [n \in 1..filled[o] |-> FateOfLot(<<o, n>>)]]

Contract == INSTANCE CopyContract WITH fate <- FateOf

\* Two channels that both report every fill, and the calls that run beside them, decide
\* each lot once: a lot that a guard dropped is not handed on by the other channel.
ImplementsContract == Contract!Spec
=============================================================================
