---------------------------- MODULE TradingProofs ----------------------------
(***************************************************************************)
(* Theorems about the copying of trades, in three parts, for any number of *)
(* orders, fills, repeated messages, reconnections and restarts.           *)
(*                                                                         *)
(* The intake (MasterFills): the types; no lot of the master is handed to  *)
(* the followers twice, and none is lost between the two channels.  An     *)
(* order belongs to the channel that copied it first.  What was handed on, *)
(* or is on its way, of an order of the orders channel lies within the     *)
(* quantity piped, and of any other order within the trades looked at; the *)
(* running calls carry lots that nothing else carries.  The intake         *)
(* implements CopyContract.                                                *)
(*                                                                         *)
(* One leg of a follower (FollowerCopy, the instance C): the chain keeps   *)
(* live orders away from the poll's, and more lots than the master held or *)
(* its messages count are ordered only beside a window that missed a       *)
(* decision or a read that failed.                                         *)
(*                                                                         *)
(* The automatic exits (AutoExit, the instance X): the types, two exits    *)
(* overlap only past the cooldown, and a close lock has one owner.         *)
(***************************************************************************)
EXTENDS MasterFills, SumLemmas, SequenceTheorems

(***************************************************************************)
(* The intake of the master's fills                                        *)
(***************************************************************************)

Lots == Orders \X Nat
\* The lots that running calls carry.
Pending == UNION { t.lots : t \in tasks }

LotTypes ==
    /\ filled \in [Orders -> Nat]
    /\ piped \in [Orders -> Nat]
    /\ wire.fills \subseteq Lots
    /\ wire.orders \subseteq Lots
    /\ copied \subseteq Lots
    /\ \A t \in tasks : t.lots \subseteq Lots

\* Each order is copied by one channel.
OneChannel == byFills \cap byOrders = {}

\* Of an order that no channel has copied, nothing has been looked at.
UntouchedOrders ==
    \A o \in Orders : o \notin byFills /\ o \notin byOrders =>
        piped[o] = 0 /\ \A n \in Nat : <<o, n>> \notin seen

\* A lot that its channel has taken up; what is handed on or carried has been.
Claimed(o, n) == IF o \in byOrders THEN n <= piped[o] ELSE <<o, n>> \in seen

HandedAreClaimed ==
    \A o \in Orders, n \in Nat : <<o, n>> \in copied \cup Pending => Claimed(o, n)

\* A running call carries lots not handed on yet, and that no other carries.
CarriedOnce ==
    \A t \in tasks :
        /\ t.lots \cap copied = {}
        /\ \A u \in tasks : u # t => u.lots \cap t.lots = {}

CopyInv ==
    LotTypes /\ OneChannel /\ UntouchedOrders /\ HandedAreClaimed /\ CarriedOnce
        /\ NoLotCopiedTwice

-----------------------------------------------------------------------------
\* Nothing is copied and nothing claimed at the start.
LEMMA InitCopyInv == Init => CopyInv
BY DEF Init, CopyInv, LotTypes, OneChannel, UntouchedOrders, HandedAreClaimed, CarriedOnce,
       NoLotCopiedTwice, Pending, NoMessages, Lots

\* A step that leaves the copies and their bookkeeping alone and sends or loses well
\* formed messages keeps the invariant.
LEMMA CopiesUntouched ==
    ASSUME CopyInv, UNCHANGED <<seen, byFills, byOrders, piped, tasks, copied, twice>>,
           filled' \in [Orders -> Nat],
           wire'.fills \subseteq Lots, wire'.orders \subseteq Lots
    PROVE  CopyInv'
BY DEF CopyInv, LotTypes, OneChannel, UntouchedOrders, HandedAreClaimed, CarriedOnce,
       NoLotCopiedTwice, Pending, Claimed, Lots

\* A call started for lots that nothing claims carries lots that nothing else carries.
LEMMA TriggerKeeps ==
    ASSUME CopyInv, NEW lots \in SUBSET Lots, Trigger(lots),
           UNCHANGED <<copied, twice>>,
           \A l \in lots : l \notin copied \cup Pending
    PROVE  /\ \A t \in tasks' : t.lots \subseteq Lots
           /\ CarriedOnce'
           /\ Pending' \subseteq Pending \cup lots
<1>1. CASE OpensBlocked
  BY <1>1 DEF Trigger, CopyInv, LotTypes, CarriedOnce, Pending
<1>2. CASE ~OpensBlocked
  <2> DEFINE new == [lots |-> lots, stage |-> "symbol", total |-> 0]
  <2>1. tasks' = tasks \cup {new}
    BY <1>2 DEF Trigger
  <2>2. new.lots = lots
    OBVIOUS
  <2> HIDE DEF new
  <2>3. \A t \in tasks : t.lots \subseteq Pending
    BY DEF Pending
  <2>4. CarriedOnce'
    <3> SUFFICES ASSUME NEW t \in tasks'
                 PROVE  /\ t.lots \cap copied = {}
                        /\ \A u \in tasks' : u # t => u.lots \cap t.lots = {}
      BY DEF CarriedOnce
    <3>1. CASE t = new
      BY <2>1, <2>2, <2>3, <3>1
    <3>2. CASE t \in tasks
      BY <2>1, <2>2, <2>3, <3>2 DEF CopyInv, CarriedOnce
    <3> QED BY <2>1, <3>1, <3>2
  <2> QED BY <2>1, <2>2, <2>4 DEF CopyInv, LotTypes, Pending
<1> QED BY <1>1, <1>2

-----------------------------------------------------------------------------
\* A user_trades message copies a trade not looked at, of an order that the orders
\* channel has not copied.
LEMMA HandleFillKeeps ==
    ASSUME CopyInv, NEW o \in Orders, NEW n \in Nat, HandleFill(o, n)
    PROVE  CopyInv'
<1>1. /\ wire'.fills \subseteq Lots
      /\ wire'.orders \subseteq Lots
      /\ seen' = seen \cup {<<o, n>>}
      /\ UNCHANGED <<filled, byOrders, copied, twice>>
  BY DEF HandleFill, CopyInv, LotTypes
<1>2. CASE FillsSkip(o, n)
  <2>1. UNCHANGED <<byFills, piped, tasks>>
    BY <1>2 DEF HandleFill
  <2>2. o \in byFills \/ o \in byOrders
    BY <1>2 DEF FillsSkip, CopyInv, UntouchedOrders
  <2> QED
    BY <1>1, <2>1, <2>2 DEF CopyInv, LotTypes, OneChannel, UntouchedOrders,
       HandedAreClaimed, CarriedOnce, NoLotCopiedTwice, Pending, Claimed
<1>3. CASE ~FillsSkip(o, n)
  <2>1. /\ byFills' = byFills \cup {o}
        /\ piped' = [piped EXCEPT ![o] = @ + 1]
        /\ Trigger({<<o, n>>})
        /\ o \notin byOrders
        /\ <<o, n>> \notin seen
    BY <1>3 DEF HandleFill, FillsSkip
  <2>2. <<o, n>> \notin copied \cup Pending
    BY <2>1 DEF CopyInv, HandedAreClaimed, Claimed
  <2>3. /\ \A t \in tasks' : t.lots \subseteq Lots
        /\ CarriedOnce'
        /\ Pending' \subseteq Pending \cup {<<o, n>>}
    <3>1. {<<o, n>>} \in SUBSET Lots
      BY DEF Lots
    <3> QED BY <1>1, <2>1, <2>2, <3>1, TriggerKeeps
  <2>4. LotTypes'
    BY <1>1, <2>1, <2>3 DEF CopyInv, LotTypes
  <2>5. OneChannel' /\ UntouchedOrders'
    BY <1>1, <2>1 DEF CopyInv, OneChannel, UntouchedOrders, LotTypes
  <2>6. HandedAreClaimed'
    <3> SUFFICES ASSUME NEW p \in Orders, NEW k \in Nat,
                        <<p, k>> \in copied' \cup Pending'
                 PROVE  Claimed(p, k)'
      BY DEF HandedAreClaimed
    <3>1. CASE <<p, k>> = <<o, n>>
      BY <1>1, <2>1, <3>1 DEF Claimed
    <3>2. CASE <<p, k>> # <<o, n>>
      BY <1>1, <2>1, <2>3, <3>2 DEF CopyInv, HandedAreClaimed, Claimed, LotTypes
    <3> QED BY <3>1, <3>2
  <2> QED BY <1>1, <2>3, <2>4, <2>5, <2>6 DEF CopyInv, NoLotCopiedTwice
<1> QED BY <1>2, <1>3

\* An orders message copies what its order filled beyond the quantity piped, unless
\* user_trades copied the order.
LEMMA HandleOrderKeeps ==
    ASSUME CopyInv, NEW o \in Orders, NEW cum \in Nat, HandleOrder(o, cum)
    PROVE  CopyInv'
<1>1. /\ wire'.fills \subseteq Lots
      /\ wire'.orders \subseteq Lots
      /\ UNCHANGED <<filled, seen, byFills, copied, twice>>
  BY DEF HandleOrder, CopyInv, LotTypes
<1>2. CASE OrdersDelta(o, cum) = {}
  BY <1>1, <1>2, CopiesUntouched DEF HandleOrder, CopyInv, LotTypes
<1>3. CASE OrdersDelta(o, cum) # {}
  <2> DEFINE delta == OrdersDelta(o, cum)
  <2>1. /\ byOrders' = byOrders \cup {o}
        /\ piped' = [piped EXCEPT ![o] = cum]
        /\ Trigger(delta)
    BY <1>3 DEF HandleOrder
  <2>2. o \notin byFills
    BY <1>3 DEF OrdersDelta
  <2>3. delta = { <<o, n>> : n \in (piped[o] + 1)..cum }
    BY <2>2 DEF OrdersDelta
  <2>4. piped[o] \in Nat /\ piped[o] < cum
    BY <1>3, <2>3 DEF CopyInv, LotTypes
  <2>5. \A n \in (piped[o] + 1)..cum : n \in Nat /\ n > piped[o] /\ n <= cum
    BY <2>4
  <2>6. \A n \in (piped[o] + 1)..cum : <<o, n>> \notin copied \cup Pending
    <3> SUFFICES ASSUME NEW n \in (piped[o] + 1)..cum, <<o, n>> \in copied \cup Pending
                 PROVE  FALSE
      OBVIOUS
    <3>1. Claimed(o, n)
      BY <2>5 DEF CopyInv, HandedAreClaimed
    <3>2. CASE o \in byOrders
      BY <2>4, <2>5, <3>1, <3>2 DEF Claimed
    <3>3. CASE o \notin byOrders
      BY <2>2, <2>5, <3>1, <3>3 DEF Claimed, CopyInv, UntouchedOrders
    <3> QED BY <3>2, <3>3
  <2>7. delta \in SUBSET Lots /\ \A l \in delta : l \notin copied \cup Pending
    BY <2>3, <2>5, <2>6 DEF Lots
  <2> HIDE DEF delta
  <2>8. /\ \A t \in tasks' : t.lots \subseteq Lots
        /\ CarriedOnce'
        /\ Pending' \subseteq Pending \cup delta
    BY <1>1, <2>1, <2>7, TriggerKeeps
  <2>9. LotTypes'
    BY <1>1, <2>1, <2>8 DEF CopyInv, LotTypes
  <2>10. OneChannel' /\ UntouchedOrders'
    BY <1>1, <2>1, <2>2 DEF CopyInv, OneChannel, UntouchedOrders, LotTypes
  <2>11. HandedAreClaimed'
    <3> SUFFICES ASSUME NEW p \in Orders, NEW k \in Nat,
                        <<p, k>> \in copied' \cup Pending'
                 PROVE  Claimed(p, k)'
      BY DEF HandedAreClaimed
    <3>1. piped'[p] = IF p = o THEN cum ELSE piped[p]
      BY <2>1 DEF CopyInv, LotTypes
    <3>2. CASE <<p, k>> \in delta
      BY <2>1, <2>3, <2>5, <3>1, <3>2 DEF Claimed
    <3>3. CASE <<p, k>> \notin delta
      <4>1. Claimed(p, k)
        BY <1>1, <2>8, <3>3 DEF CopyInv, HandedAreClaimed
      <4>2. CASE p # o
        BY <1>1, <2>1, <3>1, <4>1, <4>2 DEF Claimed
      <4>3. CASE p = o /\ o \in byOrders
        BY <2>1, <2>4, <3>1, <4>1, <4>3 DEF Claimed
      <4>4. CASE p = o /\ o \notin byOrders
        BY <2>2, <4>1, <4>4 DEF Claimed, CopyInv, UntouchedOrders
      <4> QED BY <4>2, <4>3, <4>4
    <3> QED BY <3>2, <3>3
  <2> QED BY <1>1, <2>8, <2>9, <2>10, <2>11 DEF CopyInv, NoLotCopiedTwice
<1> QED BY <1>2, <1>3

\* A running call hands on lots not handed on before, drops them, or goes on carrying
\* them.
LEMMA TaskStepKeeps ==
    ASSUME CopyInv, NEW t \in tasks, TaskStep(t)
    PROVE  CopyInv'
<1>1. UNCHANGED <<filled, wire, seen, byFills, byOrders, piped>>
  BY DEF TaskStep
<1>2. t.lots \subseteq Lots /\ t.lots \cap copied = {} /\ t.lots \subseteq Pending
  BY DEF CopyInv, LotTypes, CarriedOnce, Pending
<1>3. ASSUME tasks' = tasks \ {t}, copied' = copied \cup t.lots,
             twice' = twice \cup (t.lots \cap copied)
      PROVE  CopyInv'
  <2>1. Pending' \subseteq Pending
    BY <1>3 DEF Pending
  <2>2. CarriedOnce'
    BY <1>3 DEF CopyInv, CarriedOnce
  <2>3. LotTypes' /\ OneChannel' /\ UntouchedOrders' /\ NoLotCopiedTwice'
    BY <1>1, <1>2, <1>3
       DEF CopyInv, LotTypes, OneChannel, UntouchedOrders, NoLotCopiedTwice
  <2>4. HandedAreClaimed'
    BY <1>1, <1>2, <1>3, <2>1 DEF CopyInv, HandedAreClaimed, Claimed
  <2> QED BY <2>2, <2>3, <2>4 DEF CopyInv
<1>4. ASSUME tasks' = tasks \ {t}, UNCHANGED <<copied, twice>>
      PROVE  CopyInv'
  <2>1. Pending' \subseteq Pending
    BY <1>4 DEF Pending
  <2> QED
    BY <1>1, <1>4, <2>1 DEF CopyInv, LotTypes, OneChannel, UntouchedOrders,
       HandedAreClaimed, CarriedOnce, NoLotCopiedTwice, Claimed
<1>5. ASSUME NEW u, u.lots = t.lots, tasks' = (tasks \ {t}) \cup {u},
             UNCHANGED <<copied, twice>>
      PROVE  CopyInv'
  <2>1. Pending' \subseteq Pending
    BY <1>2, <1>5 DEF Pending
  <2>2. CarriedOnce'
    <3> SUFFICES ASSUME NEW v \in tasks'
                 PROVE  /\ v.lots \cap copied = {}
                        /\ \A w \in tasks' : w # v => w.lots \cap v.lots = {}
      BY <1>5 DEF CarriedOnce
    <3>1. CASE v = u
      BY <1>2, <1>5, <3>1 DEF CopyInv, CarriedOnce
    <3>2. CASE v \in tasks \ {t}
      BY <1>2, <1>5, <3>2 DEF CopyInv, CarriedOnce
    <3> QED BY <1>5, <3>1, <3>2
  <2> QED
    BY <1>1, <1>2, <1>5, <2>1, <2>2 DEF CopyInv, LotTypes, OneChannel, UntouchedOrders,
       HandedAreClaimed, NoLotCopiedTwice, Claimed
<1>6. ASSUME NEW total, Forward(t, total)
      PROVE  CopyInv'
  BY <1>3, <1>6 DEF Forward
<1>7. CASE Drop(t)
  BY <1>4, <1>7 DEF Drop
<1>8. CASE AfterSymbol(t)
  <2> DEFINE total == tracker + Cardinality(t.lots)
             u == [lots |-> t.lots, stage |-> "price", total |-> total]
  <2>1. \/ Drop(t)
        \/ Forward(t, total)
        \/ tasks' = (tasks \ {t}) \cup {u} /\ UNCHANGED <<copied, twice>>
    BY <1>8 DEF AfterSymbol
  <2>2. u.lots = t.lots
    OBVIOUS
  <2> HIDE DEF total, u
  <2> QED BY <1>5, <1>6, <1>7, <2>1, <2>2
<1>9. CASE AfterPrice(t)
  BY <1>6, <1>7, <1>9 DEF AfterPrice
<1> QED BY <1>8, <1>9 DEF TaskStep

-----------------------------------------------------------------------------
\* Every step keeps the invariant.
LEMMA NextCopyInv == CopyInv /\ [Next]_vars => CopyInv'
<1> SUFFICES ASSUME CopyInv, [Next]_vars PROVE CopyInv'
  OBVIOUS
<1> USE BoundsAssumption
<1>1. ASSUME NEW o \in Orders, Fill(o) PROVE CopyInv'
  <2>1. filled[o] \in Nat
    BY DEF CopyInv, LotTypes
  <2>2. <<o, filled[o] + 1>> \in Lots
    BY <2>1 DEF Lots
  <2>3. filled' \in [Orders -> Nat] /\ wire'.fills \subseteq Lots /\ wire'.orders \subseteq Lots
    BY <1>1, <2>1, <2>2 DEF Fill, CopyInv, LotTypes
  <2> QED BY <1>1, <2>3, CopiesUntouched DEF Fill, dedup
<1>2. ASSUME NEW o \in Orders, Update(o) PROVE CopyInv'
  <2>1. filled[o] \in Nat
    BY DEF CopyInv, LotTypes
  <2>2. <<o, filled[o]>> \in Lots /\ \A n \in 1..filled[o] : <<o, n>> \in Lots
    BY <2>1 DEF Lots
  <2>3. UNCHANGED <<filled, seen, byFills, byOrders, piped, tasks, copied, twice>>
    BY <1>2 DEF Update, dedup
  <2>4. wire'.fills \subseteq Lots /\ wire'.orders \subseteq Lots
    <3>1. CASE wire' = [wire EXCEPT !.orders = wire.orders \cup {<<o, filled[o]>>}]
      BY <2>2, <3>1 DEF CopyInv, LotTypes
    <3>2. CASE wire' = [wire EXCEPT !.sizes = Append(wire.sizes, position)]
      BY <3>2 DEF CopyInv, LotTypes
    <3>3. ASSUME NEW n \in 1..filled[o],
                 wire' = [wire EXCEPT !.fills = wire.fills \cup {<<o, n>>}]
          PROVE  wire'.fills \subseteq Lots /\ wire'.orders \subseteq Lots
      BY <2>2, <3>3 DEF CopyInv, LotTypes
    <3> QED BY <1>2, <3>1, <3>2, <3>3 DEF Update
  <2> QED BY <2>3, <2>4, CopiesUntouched DEF CopyInv, LotTypes
<1>3. ASSUME NEW k \in 1..MaxFills, Reduce(k) PROVE CopyInv'
  BY <1>3, CopiesUntouched DEF Reduce, dedup, CopyInv, LotTypes
<1>4. ASSUME NEW o \in Orders, NEW n \in 1..MaxFills, HandleFill(o, n) PROVE CopyInv'
  <2>1. n \in Nat
    OBVIOUS
  <2> QED BY <1>4, <2>1, HandleFillKeeps
<1>5. ASSUME NEW o \in Orders, NEW n \in 1..MaxFills, HandleOrder(o, n) PROVE CopyInv'
  <2>1. n \in Nat
    OBVIOUS
  <2> QED BY <1>5, <2>1, HandleOrderKeeps
<1>6. CASE HandleSize
  BY <1>6, CopiesUntouched DEF HandleSize, dedup, CopyInv, LotTypes
<1>7. CASE HandleClose
  <2>1. UNCHANGED <<filled, seen, byFills, byOrders, piped, tasks, copied, twice>>
    BY <1>7 DEF HandleClose, dedup
  <2>2. wire'.fills = wire.fills /\ wire'.orders = wire.orders
    <3>1. CASE UNCHANGED wire
      BY <3>1
    <3>2. CASE wire' = [wire EXCEPT !.reducing = wire.reducing - 1]
      BY <3>2
    <3> QED BY <1>7, <3>1, <3>2 DEF HandleClose
  <2> QED BY <2>1, <2>2, CopiesUntouched DEF CopyInv, LotTypes
<1>8. CASE CloseEnds
  BY <1>8, CopiesUntouched DEF CloseEnds, dedup, CopyInv, LotTypes
<1>9. CASE Unlock
  BY <1>9, CopiesUntouched DEF Unlock, dedup, CopyInv, LotTypes
<1>10. ASSUME NEW t \in tasks, TaskStep(t) PROVE CopyInv'
  BY <1>10, TaskStepKeeps
<1>11. CASE RestRead
  BY <1>11, CopiesUntouched DEF RestRead, dedup, CopyInv, LotTypes
<1>12. CASE RestAct
  BY <1>12, CopiesUntouched DEF RestAct, dedup, CopyInv, LotTypes
<1>13. CASE Reconnect
  BY <1>13, CopiesUntouched DEF Reconnect, dedup, NoMessages, CopyInv, LotTypes
<1>14. CASE Restart
  BY <1>14 DEF Restart, CopyInv, LotTypes, OneChannel, UntouchedOrders, HandedAreClaimed,
     CarriedOnce, NoLotCopiedTwice, Pending, NoMessages, Lots
<1>15. CASE UNCHANGED vars
  BY <1>15, CopiesUntouched DEF vars, dedup, CopyInv, LotTypes
<1> QED
  BY <1>1, <1>2, <1>3, <1>4, <1>5, <1>6, <1>7, <1>8, <1>9, <1>10, <1>11, <1>12, <1>13,
     <1>14, <1>15 DEF Next

\* No lot of the master's fills reaches the followers twice from one process, whatever
\* the order, the repetition and the loss of the messages of both channels
\* (MasterFillDedup with processMasterOrderFillRecords and
\* processMasterUserTradeFillRecords).
THEOREM NoLotCopiedTwiceHolds == Spec => []NoLotCopiedTwice
<1>1. CopyInv => NoLotCopiedTwice
  BY DEF CopyInv
<1> QED BY InitCopyInv, NextCopyInv, <1>1, PTL DEF Spec

-----------------------------------------------------------------------------
(* Types *)

\* The lots of o whose trade was looked at.
SeenOf(o) == { n \in Nat : <<o, n>> \in seen }

\* The calls carry finitely many lots and a total; of an order that user_trades copied
\* first, the quantity piped is the number of the trades looked at.
TasksCount == \A t \in tasks : IsFiniteSet(t.lots) /\ t.total \in Nat
FillsCounted == \A o \in byFills : piped[o] = Cardinality(SeenOf(o))

TypeInv == TypeOK /\ TasksCount /\ FillsCounted

\* A lot is an order and a number up to what it filled.
LEMMA LotIs ==
    \A o, n : <<o, n>> \in AllLots <=> o \in Orders /\ n \in 1..filled[o]
BY DEF AllLots, LotsOf

\* The numbers up to n are n.
LEMMA UpTo ==
    ASSUME NEW n \in Nat
    PROVE  IsFiniteSet(1..n) /\ Cardinality(1..n) = n
<1>1. IsFiniteSet(1..n) /\ Cardinality(1..n) = IF 1 > n THEN 0 ELSE n - 1 + 1
  BY FS_Interval
<1> QED
  BY <1>1

\* Finitely many numbers give finitely many lots.
LEMMA FiniteLots ==
    ASSUME NEW o, NEW S, IsFiniteSet(S)
    PROVE  IsFiniteSet({ <<o, k>> : k \in S })
<1> DEFINE T == { <<o, k>> : k \in S }
           f == [k \in S |-> <<o, k>>]
<1>1. f \in Surjection(S, T)
  BY DEF Surjection
<1> HIDE DEF f, T
<1>2. IsFiniteSet(T)
  BY <1>1, FS_Surjection
<1> QED
  BY <1>2 DEF T

\* A lot that was filled stays filled.
LEMMA LotsGrow ==
    ASSUME CopyInv, CopyInv', \A o \in Orders : filled'[o] >= filled[o]
    PROVE  AllLots \subseteq AllLots'
<1> SUFFICES ASSUME NEW o \in Orders, NEW n \in 1..filled[o]
             PROVE  n \in 1..filled'[o]
  BY DEF AllLots, LotsOf
<1>1. filled[o] \in Nat /\ filled'[o] \in Nat /\ filled'[o] >= filled[o]
  BY DEF CopyInv, LotTypes
<1> QED
  BY <1>1

\* The lots of an order that were looked at are as many as it filled at most.
LEMMA SeenCount ==
    ASSUME CopyInv, TypeInv, NEW o \in Orders
    PROVE  /\ IsFiniteSet(SeenOf(o)) /\ Cardinality(SeenOf(o)) \in Nat
           /\ Cardinality(SeenOf(o)) <= filled[o]
<1>1. filled[o] \in Nat
  BY DEF CopyInv, LotTypes
<1>2. SeenOf(o) \in SUBSET (1..filled[o])
  BY LotIs DEF SeenOf, TypeInv, TypeOK
<1>3. IsFiniteSet(1..filled[o]) /\ Cardinality(1..filled[o]) = filled[o]
  BY <1>1, UpTo
<1> QED
  BY <1>1, <1>2, <1>3, FS_Subset, FS_CardinalityType

\* A step that leaves the copies and their bookkeeping alone.
LEMMA TypesUntouched ==
    ASSUME CopyInv, CopyInv', TypeInv,
           UNCHANGED <<seen, byFills, byOrders, piped, tasks, copied, refused, twice>>,
           \A o \in Orders : filled'[o] >= filled[o],
           wire'.fills \subseteq AllLots', wire'.orders \subseteq AllLots',
           wire'.reducing \in Nat, wire'.sizes \in Seq(Nat),
           position' \in Nat, legCopied' \in Nat, tracker' \in Nat, closes' \in Nat,
           hint' \in BOOLEAN, closing' \in BOOLEAN, closer' \in {"ws", "rest", "none"},
           rest' \in Nat \cup {None}
    PROVE  TypeInv'
<1>1. AllLots \subseteq AllLots'
  BY LotsGrow
<1>2. filled' \in [Orders -> Nat]
  BY DEF CopyInv, LotTypes
<1>3. \A o \in Orders : piped'[o] \in 0..filled'[o]
  <2> SUFFICES ASSUME NEW o \in Orders PROVE piped'[o] \in 0..filled'[o]
    OBVIOUS
  <2>1. filled[o] \in Nat /\ filled'[o] \in Nat /\ filled'[o] >= filled[o]
    BY DEF CopyInv, LotTypes
  <2>2. piped'[o] = piped[o] /\ piped[o] \in 0..filled[o]
    BY DEF TypeInv, TypeOK
  <2> QED
    BY <2>1, <2>2
<1>4. TasksCount' /\ FillsCounted'
  BY DEF TypeInv, TasksCount, FillsCounted, SeenOf
<1>5. /\ seen' \subseteq AllLots' /\ copied' \cup refused' \cup twice' \subseteq AllLots'
      /\ \A t \in tasks' : t.lots \subseteq AllLots' /\ t.stage \in Stages
  BY <1>1 DEF TypeInv, TypeOK
<1>6. byFills' \subseteq Orders /\ byOrders' \subseteq Orders
  BY DEF TypeInv, TypeOK
<1> QED
  BY <1>2, <1>3, <1>4, <1>5, <1>6 DEF TypeInv, TypeOK

\* A call started for lots that were filled.
LEMMA TriggerTypes ==
    ASSUME TypeInv, NEW lots \in SUBSET AllLots, IsFiniteSet(lots), Trigger(lots)
    PROVE  /\ refused' \subseteq AllLots
           /\ \A t \in tasks' : /\ t.lots \subseteq AllLots /\ t.stage \in Stages
                                /\ IsFiniteSet(t.lots) /\ t.total \in Nat
<1> DEFINE new == [lots |-> lots, stage |-> "symbol", total |-> 0]
<1>1. new.lots = lots /\ new.stage \in Stages /\ new.total \in Nat
  BY DEF Stages
<1>2. tasks' = tasks \/ tasks' = tasks \cup {new}
  BY DEF Trigger
<1> HIDE DEF new
<1>3. refused' = refused \/ refused' = refused \cup lots
  BY DEF Trigger
<1> QED
  BY <1>1, <1>2, <1>3 DEF TypeInv, TypeOK, TasksCount

\* A step of the two channels: it consumes a message and may start a call.
LEMMA ChannelTypes ==
    ASSUME CopyInv, TypeInv, NEW lots \in SUBSET AllLots, IsFiniteSet(lots),
           Trigger(lots) \/ UNCHANGED <<tasks, refused>>,
           UNCHANGED <<filled, position, legCopied, tracker, closes, locks, rest, copied, twice>>,
           wire'.fills \subseteq wire.fills, wire'.orders \subseteq wire.orders,
           wire'.reducing = wire.reducing, wire'.sizes = wire.sizes,
           seen' \subseteq AllLots, byFills' \subseteq Orders, byOrders' \subseteq Orders,
           \A o \in Orders : piped'[o] \in 0..filled[o],
           FillsCounted'
    PROVE  TypeInv'
<1>1. AllLots' = AllLots
  BY DEF AllLots, LotsOf
<1>2. /\ refused' \subseteq AllLots
      /\ \A t \in tasks' : /\ t.lots \subseteq AllLots /\ t.stage \in Stages
                           /\ IsFiniteSet(t.lots) /\ t.total \in Nat
  <2>1. CASE Trigger(lots)
    BY <2>1, TriggerTypes
  <2>2. CASE UNCHANGED <<tasks, refused>>
    BY <2>2 DEF TypeInv, TypeOK, TasksCount
  <2> QED
    BY <2>1, <2>2
<1>3. TasksCount'
  BY <1>2 DEF TasksCount
<1> QED
  BY <1>1, <1>2, <1>3 DEF TypeInv, TypeOK, locks

\* A user_trades message.
LEMMA HandleFillTypes ==
    ASSUME CopyInv, CopyInv', TypeInv, NEW o \in Orders, NEW n \in Nat, HandleFill(o, n)
    PROVE  TypeInv'
<1>1. <<o, n>> \in AllLots /\ IsFiniteSet({<<o, n>>})
  BY FS_Singleton DEF HandleFill, TypeInv, TypeOK
<1>2. /\ wire'.fills \subseteq wire.fills /\ wire'.orders = wire.orders
      /\ wire'.reducing = wire.reducing /\ wire'.sizes = wire.sizes
      /\ seen' = seen \cup {<<o, n>>} /\ byOrders' = byOrders
      /\ UNCHANGED <<filled, position, legCopied, tracker, closes, locks, rest, copied, twice>>
  BY DEF HandleFill
<1>3. seen' \subseteq AllLots /\ byOrders' \subseteq Orders
  BY <1>1, <1>2 DEF TypeInv, TypeOK
<1>4. \A p \in Orders : p # o => SeenOf(p)' = SeenOf(p)
  BY <1>2 DEF SeenOf
<1>5. CASE FillsSkip(o, n)
  <2>1. UNCHANGED <<byFills, piped, tasks, refused>>
    BY <1>5 DEF HandleFill
  <2>2. o \in byFills => SeenOf(o)' = SeenOf(o)
    BY <1>2, <1>5 DEF FillsSkip, SeenOf, CopyInv, OneChannel
  <2>3. FillsCounted'
    BY <1>4, <2>1, <2>2 DEF TypeInv, TypeOK, FillsCounted
  <2>4. byFills' \subseteq Orders /\ \A p \in Orders : piped'[p] \in 0..filled[p]
    BY <2>1 DEF TypeInv, TypeOK
  <2> QED
    BY <1>1, <1>2, <1>3, <2>1, <2>3, <2>4, ChannelTypes
<1>6. CASE ~FillsSkip(o, n)
  <2>1. /\ byFills' = byFills \cup {o} /\ piped' = [piped EXCEPT ![o] = @ + 1]
        /\ Trigger({<<o, n>>}) /\ o \notin byOrders /\ n \notin SeenOf(o)
    BY <1>6 DEF HandleFill, FillsSkip, SeenOf
  <2>2. piped[o] = Cardinality(SeenOf(o)) /\ IsFiniteSet(SeenOf(o))
    <3>1. CASE o \in byFills
      BY <3>1, SeenCount DEF TypeInv, FillsCounted
    <3>2. CASE o \notin byFills
      <4>1. SeenOf(o) = {} /\ piped[o] = 0
        BY <2>1, <3>2 DEF CopyInv, UntouchedOrders, SeenOf
      <4> QED
        BY <4>1, FS_EmptySet
    <3> QED
      BY <3>1, <3>2
  <2>3. SeenOf(o)' = SeenOf(o) \cup {n}
    BY <1>2 DEF SeenOf
  <2>4. Cardinality(SeenOf(o)') = piped[o] + 1
    BY <2>1, <2>2, <2>3, FS_AddElement
  <2>5. /\ piped[o] \in Nat /\ piped'[o] = piped[o] + 1
        /\ \A p \in Orders : p # o => piped'[p] = piped[p]
    BY <2>1 DEF CopyInv, LotTypes
  <2>6. piped'[o] <= filled[o]
    <3>1. PICK k \in Nat : k = filled[o]
      BY DEF CopyInv, LotTypes
    <3>2. SeenOf(o)' \in SUBSET (1..k)
      BY <1>3, <3>1, LotIs DEF SeenOf
    <3>3. Cardinality(SeenOf(o)') <= Cardinality(1..k) /\ Cardinality(1..k) = k
      BY <3>2, UpTo, FS_Subset
    <3> QED
      BY <2>4, <2>5, <3>1, <3>3
  <2>7. \A p \in Orders : piped'[p] \in 0..filled[p]
    <3>1. \A p \in Orders : piped[p] \in 0..filled[p] /\ filled[p] \in Nat
      BY DEF CopyInv, LotTypes, TypeInv, TypeOK
    <3> QED
      BY <2>5, <2>6, <3>1
  <2>8. FillsCounted'
    BY <1>4, <2>1, <2>4, <2>5 DEF TypeInv, TypeOK, FillsCounted
  <2>9. byFills' \subseteq Orders
    BY <2>1 DEF TypeInv, TypeOK
  <2> QED
    BY <1>1, <1>2, <1>3, <2>1, <2>7, <2>8, <2>9, ChannelTypes
<1> QED
  BY <1>5, <1>6

\* An orders message.
LEMMA HandleOrderTypes ==
    ASSUME CopyInv, CopyInv', TypeInv, NEW o \in Orders, NEW cum \in Nat, HandleOrder(o, cum)
    PROVE  TypeInv'
<1>1. <<o, cum>> \in AllLots /\ cum \in 1..filled[o] /\ filled[o] \in Nat
  BY LotIs DEF HandleOrder, TypeInv, TypeOK, CopyInv, LotTypes
<1>2. /\ wire'.orders \subseteq wire.orders /\ wire'.fills = wire.fills
      /\ wire'.reducing = wire.reducing /\ wire'.sizes = wire.sizes
      /\ UNCHANGED <<filled, position, legCopied, tracker, closes, locks, rest, copied, twice>>
      /\ UNCHANGED <<seen, byFills>>
  BY DEF HandleOrder
<1>3. seen' \subseteq AllLots /\ byFills' \subseteq Orders
  BY <1>2 DEF TypeInv, TypeOK
<1>4. OrdersDelta(o, cum) \in SUBSET AllLots
  <2>1. piped[o] \in Nat
    BY DEF CopyInv, LotTypes
  <2>2. \A k \in (piped[o] + 1)..cum : k \in 1..filled[o]
    BY <1>1, <2>1
  <2> QED
    BY <2>2, LotIs DEF OrdersDelta
<1>5. IsFiniteSet(OrdersDelta(o, cum))
  <2>1. piped[o] \in Nat
    BY DEF CopyInv, LotTypes
  <2>2. IsFiniteSet((piped[o] + 1)..cum)
    BY <2>1, FS_Interval
  <2>3. IsFiniteSet({ <<o, k>> : k \in (piped[o] + 1)..cum })
    BY <2>2, FiniteLots
  <2> QED
    BY <2>3, FS_EmptySet DEF OrdersDelta
<1>6. CASE OrdersDelta(o, cum) = {}
  <2>1. UNCHANGED <<byOrders, piped, tasks, refused>>
    BY <1>6 DEF HandleOrder
  <2>2. FillsCounted'
    BY <1>2, <2>1 DEF TypeInv, FillsCounted, SeenOf
  <2>3. byOrders' \subseteq Orders /\ \A p \in Orders : piped'[p] \in 0..filled[p]
    BY <2>1 DEF TypeInv, TypeOK
  <2> QED
    BY <1>2, <1>3, <1>4, <1>5, <2>1, <2>2, <2>3, ChannelTypes
<1>7. CASE OrdersDelta(o, cum) # {}
  <2>1. /\ byOrders' = byOrders \cup {o} /\ piped' = [piped EXCEPT ![o] = cum]
        /\ Trigger(OrdersDelta(o, cum))
    BY <1>7 DEF HandleOrder
  <2>2. o \notin byFills
    BY <1>7 DEF OrdersDelta
  <2>3. FillsCounted'
    BY <1>2, <2>1, <2>2 DEF TypeInv, TypeOK, FillsCounted, SeenOf, CopyInv, LotTypes
  <2>4. byOrders' \subseteq Orders /\ \A p \in Orders : piped'[p] \in 0..filled[p]
    BY <1>1, <2>1 DEF TypeInv, TypeOK, CopyInv, LotTypes
  <2> QED
    BY <1>2, <1>3, <1>4, <1>5, <2>1, <2>3, <2>4, ChannelTypes
<1> QED
  BY <1>6, <1>7

\* A running call.
LEMMA TaskStepTypes ==
    ASSUME CopyInv, CopyInv', TypeInv, NEW t \in tasks, TaskStep(t) PROVE TypeInv'
<1>1. /\ t.lots \subseteq AllLots /\ IsFiniteSet(t.lots) /\ t.total \in Nat
      /\ Cardinality(t.lots) \in Nat /\ tracker \in Nat /\ legCopied \in Nat
  BY FS_CardinalityType DEF TypeInv, TypeOK, TasksCount
<1>2. UNCHANGED <<filled, position, spent, wire, seen, byFills, byOrders, piped, closes,
                  locks, rest>>
  BY DEF TaskStep
<1>3. AllLots' = AllLots /\ FillsCounted'
  BY <1>2 DEF AllLots, LotsOf, TypeInv, FillsCounted, SeenOf
<1>4. ASSUME \A u \in tasks' : /\ u.lots \subseteq AllLots /\ u.stage \in Stages
                               /\ IsFiniteSet(u.lots) /\ u.total \in Nat,
             tracker' \in Nat, legCopied' \in Nat,
             copied' \cup refused' \cup twice' \subseteq AllLots
      PROVE  TypeInv'
  <2>1. TasksCount'
    BY <1>4 DEF TasksCount
  <2> QED
    BY <1>2, <1>3, <1>4, <2>1 DEF TypeInv, TypeOK, locks
<1>5. ASSUME NEW total \in Nat, Forward(t, total) PROVE TypeInv'
  <2>1. tracker' \in Nat /\ legCopied' \in Nat
    BY <1>1, <1>5 DEF Forward, Larger
  <2> QED
    BY <1>1, <1>4, <1>5, <2>1 DEF Forward, TypeInv, TypeOK, TasksCount
<1>6. CASE Drop(t)
  BY <1>1, <1>4, <1>6 DEF Drop, TypeInv, TypeOK, TasksCount
<1>7. CASE AfterSymbol(t)
  <2> DEFINE total == tracker + Cardinality(t.lots)
             new == [lots |-> t.lots, stage |-> "price", total |-> total]
  <2>1. total \in Nat
    BY <1>1
  <2>2. new.lots = t.lots /\ new.stage \in Stages /\ new.total \in Nat
    BY <2>1 DEF Stages
  <2>3. \/ Drop(t)
        \/ Forward(t, total)
        \/ /\ tasks' = (tasks \ {t}) \cup {new}
           /\ UNCHANGED <<legCopied, twice, copied, tracker, refused>>
    BY <1>7 DEF AfterSymbol
  <2> HIDE DEF total, new
  <2>4. CASE /\ tasks' = (tasks \ {t}) \cup {new}
             /\ UNCHANGED <<legCopied, twice, copied, tracker, refused>>
    BY <1>1, <1>4, <2>2, <2>4 DEF TypeInv, TypeOK, TasksCount
  <2> QED
    BY <1>5, <1>6, <2>1, <2>3, <2>4
<1>8. CASE AfterPrice(t)
  BY <1>1, <1>5, <1>6, <1>8 DEF AfterPrice
<1> QED
  BY <1>7, <1>8 DEF TaskStep

\* Every step keeps the types.
LEMMA NextTypeInv ==
    ASSUME CopyInv, CopyInv', TypeInv, [Next]_vars PROVE TypeInv'
<1> USE BoundsAssumption
<1>0. /\ filled \in [Orders -> Nat] /\ position \in Nat
      /\ legCopied \in Nat /\ tracker \in Nat /\ closes \in Nat
      /\ hint \in BOOLEAN /\ closing \in BOOLEAN /\ closer \in {"ws", "rest", "none"}
      /\ rest \in Nat \cup {None}
      /\ wire.fills \subseteq AllLots /\ wire.orders \subseteq AllLots
      /\ wire.reducing \in Nat /\ wire.sizes \in Seq(Nat)
      /\ \A o \in Orders : filled[o] \in Nat /\ filled[o] >= filled[o]
  BY DEF TypeInv, TypeOK
<1>1. ASSUME filled' = filled,
             UNCHANGED <<seen, byFills, byOrders, piped, tasks, copied, refused, twice>>,
             wire'.fills \subseteq AllLots, wire'.orders \subseteq AllLots,
             wire'.reducing \in Nat, wire'.sizes \in Seq(Nat),
             position' \in Nat, legCopied' \in Nat, tracker' \in Nat, closes' \in Nat,
             hint' \in BOOLEAN, closing' \in BOOLEAN, closer' \in {"ws", "rest", "none"},
             rest' \in Nat \cup {None}
      PROVE  TypeInv'
  <2>1. AllLots' = AllLots
    BY <1>1 DEF AllLots, LotsOf
  <2> QED
    BY <1>0, <1>1, <2>1, TypesUntouched
<1>2. ASSUME NEW o \in Orders, Fill(o) PROVE TypeInv'
  <2>0. filled'[o] = filled[o] + 1 /\ \A p \in Orders \ {o} : filled'[p] = filled[p]
    BY <1>0, <1>2 DEF Fill
  <2>1. /\ position' = position + 1 /\ wire'.reducing = wire.reducing
        /\ wire'.fills = wire.fills \cup {<<o, filled[o] + 1>>}
        /\ wire'.orders = wire.orders \cup {<<o, filled[o] + 1>>}
        /\ wire'.sizes = Append(wire.sizes, position + 1)
        /\ UNCHANGED <<seen, byFills, byOrders, piped, legCopied, tracker, tasks, closes,
                       hint, closing, closer, rest, copied, refused, twice>>
    BY <1>2 DEF Fill, dedup, locks
  <2>2. \A p \in Orders : filled'[p] >= filled[p]
    <3>1. \A p \in Orders : filled[p] \in Nat
      BY <1>0
    <3> QED
      BY <2>0, <3>1
  <2>3. AllLots \subseteq AllLots'
    BY <2>2, LotsGrow
  <2>4. <<o, filled[o] + 1>> \in AllLots'
    BY <1>0, <2>0 DEF AllLots, LotsOf
  <2>5. wire'.sizes \in Seq(Nat) /\ position' \in Nat /\ wire'.reducing \in Nat
    BY <1>0, <2>1
  <2>6. wire'.fills \subseteq AllLots' /\ wire'.orders \subseteq AllLots'
    BY <1>0, <2>1, <2>3, <2>4
  <2>7. /\ legCopied' \in Nat /\ tracker' \in Nat /\ closes' \in Nat
        /\ hint' \in BOOLEAN /\ closing' \in BOOLEAN /\ closer' \in {"ws", "rest", "none"}
        /\ rest' \in Nat \cup {None}
    BY <1>0, <2>1
  <2> QED
    BY <2>1, <2>2, <2>5, <2>6, <2>7, TypesUntouched
<1>3. ASSUME NEW o \in Orders, Update(o) PROVE TypeInv'
  <2>1. UNCHANGED <<filled, position, dedup, tracker, tasks, closes, locks, rest, copied,
                    refused, twice>>
    BY <1>3 DEF Update
  <2>2. /\ wire'.fills \subseteq AllLots /\ wire'.orders \subseteq AllLots
        /\ wire'.reducing \in Nat /\ wire'.sizes \in Seq(Nat)
    <3>1. CASE filled[o] > 0 /\ wire' = [wire EXCEPT !.orders = wire.orders \cup {<<o, filled[o]>>}]
      <4>1. <<o, filled[o]>> \in AllLots
        BY <1>0, <3>1, LotIs
      <4> QED
        BY <1>0, <3>1, <4>1
    <3>2. CASE wire' = [wire EXCEPT !.sizes = Append(wire.sizes, position)]
      BY <1>0, <3>2
    <3>3. ASSUME NEW n \in 1..filled[o],
                 wire' = [wire EXCEPT !.fills = wire.fills \cup {<<o, n>>}]
          PROVE  /\ wire'.fills \subseteq AllLots /\ wire'.orders \subseteq AllLots
                 /\ wire'.reducing \in Nat /\ wire'.sizes \in Seq(Nat)
      BY <1>0, <3>3, LotIs
    <3> QED
      BY <1>3, <3>1, <3>2, <3>3 DEF Update
  <2> QED
    BY <1>0, <1>1, <2>1, <2>2 DEF dedup, locks
<1>4. ASSUME NEW k \in 1..MaxFills, Reduce(k) PROVE TypeInv'
  <2>1. /\ wire'.fills = wire.fills /\ wire'.orders = wire.orders
        /\ wire'.reducing = wire.reducing + 1 /\ wire'.sizes = Append(wire.sizes, position - k)
        /\ position' = position - k /\ k <= position
        /\ UNCHANGED <<filled, dedup, tracker, tasks, closes, locks, rest, copied, refused, twice>>
    BY <1>4 DEF Reduce
  <2>2. position - k \in Nat
    BY <1>0, <2>1
  <2>3. wire'.sizes \in Seq(Nat)
    BY <1>0, <2>1, <2>2
  <2> QED
    BY <1>0, <1>1, <2>1, <2>2, <2>3 DEF dedup, locks
<1>5. ASSUME NEW o \in Orders, NEW n \in 1..MaxFills, HandleFill(o, n) PROVE TypeInv'
  BY <1>5, HandleFillTypes
<1>6. ASSUME NEW o \in Orders, NEW n \in 1..MaxFills, HandleOrder(o, n) PROVE TypeInv'
  BY <1>6, HandleOrderTypes
<1>7. CASE HandleSize
  <2>1. /\ wire'.fills = wire.fills /\ wire'.orders = wire.orders
        /\ wire'.reducing = wire.reducing /\ wire'.sizes = Tail(wire.sizes) /\ wire.sizes # <<>>
        /\ UNCHANGED <<filled, position, dedup, tasks, locks, rest, copied, refused, twice>>
    BY <1>7 DEF HandleSize
  <2>2. Tail(wire.sizes) \in Seq(Nat) /\ Head(wire.sizes) \in Nat
    BY <1>0, <2>1
  <2>3. tracker' \in Nat /\ closes' \in Nat
    BY <1>0, <1>7, <2>2 DEF HandleSize
  <2> QED
    BY <1>0, <1>1, <2>1, <2>2, <2>3 DEF dedup, locks
<1>8. CASE HandleClose
  <2>1. /\ wire'.fills = wire.fills /\ wire'.orders = wire.orders /\ wire'.sizes = wire.sizes
        /\ wire'.reducing \in Nat /\ closes' \in Nat
    <3>1. CASE closes > 0 /\ closes' = closes - 1 /\ UNCHANGED wire
      BY <1>0, <3>1
    <3>2. CASE /\ wire.reducing > 0 /\ wire' = [wire EXCEPT !.reducing = wire.reducing - 1]
               /\ UNCHANGED closes
      BY <1>0, <3>2
    <3> QED
      BY <1>8, <3>1, <3>2 DEF HandleClose
  <2>2. hint' \in BOOLEAN /\ closing' \in BOOLEAN /\ closer' \in {"ws", "rest", "none"}
    BY <1>0, <1>8 DEF HandleClose, InstantClose, locks
  <2>3. UNCHANGED <<filled, position, dedup, tracker, tasks, rest, copied, refused, twice>>
    BY <1>8 DEF HandleClose
  <2> QED
    BY <1>0, <1>1, <2>1, <2>2, <2>3 DEF dedup
<1>9. CASE CloseEnds
  <2>1. UNCHANGED <<filled, position, wire, dedup, tasks, closes, closing, rest, copied,
                    refused, twice>>
    BY <1>9 DEF CloseEnds
  <2>2. closer' = "none" /\ tracker' \in Nat
    BY <1>0, <1>9 DEF CloseEnds
  <2>3. hint' \in BOOLEAN
    BY <1>0, <1>9, Zenon DEF CloseEnds
  <2> QED
    BY <1>0, <1>1, <2>1, <2>2, <2>3 DEF dedup
<1>10. CASE Unlock
  BY <1>0, <1>1, <1>10 DEF Unlock, dedup
<1>11. ASSUME NEW t \in tasks, TaskStep(t) PROVE TypeInv'
  BY <1>11, TaskStepTypes
<1>12. CASE RestRead
  BY <1>0, <1>1, <1>12 DEF RestRead, dedup, locks
<1>13. CASE RestAct
  <2>1. /\ tracker' \in Nat /\ hint' \in BOOLEAN /\ closing' \in BOOLEAN
        /\ closer' \in {"ws", "rest", "none"}
    <3>1. CASE RestOpen
      BY <1>0, <3>1 DEF RestOpen, None
    <3>2. CASE RestMissing
      BY <1>0, <3>2 DEF RestMissing, locks
    <3> QED
      BY <1>13, <3>1, <3>2 DEF RestAct
  <2>2. /\ rest' = None
        /\ UNCHANGED <<filled, position, wire, dedup, tasks, closes, copied, refused, twice>>
    BY <1>13 DEF RestAct
  <2> QED
    BY <1>0, <1>1, <2>1, <2>2 DEF dedup
<1>14. CASE Reconnect
  <2>1. tracker' \in Nat /\ wire' = NoMessages
    BY <1>0, <1>14 DEF Reconnect
  <2>2. /\ wire'.fills = {} /\ wire'.orders = {} /\ wire'.reducing = 0 /\ wire'.sizes = <<>>
    BY <2>1 DEF NoMessages
  <2>3. wire'.sizes \in Seq(Nat) /\ wire'.reducing \in Nat
    BY <2>2
  <2>4. UNCHANGED <<filled, position, dedup, tasks, closes, locks, rest, copied, refused, twice>>
    BY <1>14 DEF Reconnect
  <2> QED
    BY <1>0, <1>1, <2>1, <2>2, <2>3, <2>4 DEF dedup, locks
<1>15. CASE Restart
  <2>1. /\ wire'.fills = {} /\ wire'.orders = {} /\ wire'.reducing = 0 /\ wire'.sizes = <<>>
    BY <1>15 DEF Restart, NoMessages
  <2>2. wire'.sizes \in Seq(Nat) /\ wire'.reducing \in Nat
    BY <2>1
  <2>3. TasksCount' /\ FillsCounted'
    BY <1>15 DEF Restart, TasksCount, FillsCounted
  <2>4. \A o \in Orders : piped'[o] \in 0..filled'[o]
    BY <1>0, <1>15 DEF Restart
  <2>5. /\ filled' = filled /\ position' = position /\ tracker' = position
        /\ seen' = {} /\ byFills' = {} /\ byOrders' = {} /\ legCopied' = 0 /\ tasks' = {}
        /\ closes' = 0 /\ hint' = FALSE /\ closing' = FALSE /\ closer' = "none"
        /\ rest' = None /\ copied' = {} /\ refused' = {} /\ twice' = {}
    BY <1>15 DEF Restart
  <2> QED
    BY <1>0, <2>1, <2>2, <2>3, <2>4, <2>5 DEF TypeInv, TypeOK
<1>16. CASE UNCHANGED vars
  BY <1>0, <1>1, <1>16 DEF vars, dedup, locks
<1> QED
  BY <1>2, <1>3, <1>4, <1>5, <1>6, <1>7, <1>8, <1>9, <1>10, <1>11, <1>12, <1>13, <1>14,
     <1>15, <1>16 DEF Next

\* The types hold at the start.
LEMMA InitTypeInv == Init => TypeInv
<1> SUFFICES ASSUME Init PROVE TypeInv
  OBVIOUS
<1>1. /\ wire.fills = {} /\ wire.orders = {} /\ wire.reducing = 0 /\ wire.sizes = <<>>
  BY DEF Init, NoMessages
<1>2. wire.sizes \in Seq(Nat)
  BY <1>1
<1>3. /\ filled \in [Orders -> Nat] /\ position = 0 /\ seen = {} /\ byFills = {} /\ byOrders = {}
      /\ legCopied = 0 /\ tracker = 0 /\ tasks = {} /\ closes = 0
      /\ hint \in BOOLEAN /\ closing \in BOOLEAN /\ closer = "none" /\ rest = None
      /\ copied = {} /\ refused = {} /\ twice = {}
  BY DEF Init
<1>4. \A o \in Orders : piped[o] \in 0..filled[o]
  BY DEF Init
<1>5. wire.fills \subseteq AllLots /\ wire.orders \subseteq AllLots
  BY <1>1
<1> QED
  BY <1>1, <1>2, <1>3, <1>4, <1>5 DEF TypeInv, TypeOK, TasksCount, FillsCounted

\* The fills, the messages, the memory of the process and its running calls keep their
\* types: no quantity piped exceeds what its order filled, no lot is made up.
THEOREM FillTypes == Spec => []TypeOK
<1>1. TypeInv => TypeOK
  BY DEF TypeInv
<1> QED
  BY InitCopyInv, NextCopyInv, InitTypeInv, NextTypeInv, <1>1, PTL DEF Spec

-----------------------------------------------------------------------------
(* No lot is lost between the channels *)

Handled == copied \cup refused \cup Pending

\* While no connection was lost: the last lot of an order that user_trades has not claimed
\* is piped or still reported by the orders channel; every trade of an order that the
\* orders channel has not claimed was looked at or is still reported; what was claimed has
\* been handed on or dropped, or is on its way.
LastLotReported ==
    \A o \in Orders \ byFills : filled[o] > piped[o] => <<o, filled[o]>> \in wire.orders
TradesReported ==
    \A o \in Orders \ byOrders : \A n \in 1..filled[o] : <<o, n>> \in wire.fills \cup seen
ClaimsHandled ==
    \A o \in Orders : \A n \in 1..filled[o] : Claimed(o, n) => <<o, n>> \in Handled

NothingLost == LastLotReported /\ TradesReported /\ ClaimsHandled

AccountInv == spent.drops \in Nat /\ (spent.drops = 0 => NothingLost)

\* Messages that only repeat, or are of no fill, lose nothing.
LEMMA AccountIdle ==
    ASSUME NothingLost,
           UNCHANGED <<filled, seen, byFills, byOrders, piped, tasks, copied, refused>>,
           wire.fills \subseteq wire'.fills, wire.orders \subseteq wire'.orders
    PROVE  NothingLost'
BY DEF NothingLost, LastLotReported, TradesReported, ClaimsHandled, Handled, Pending, Claimed

\* A new lot is reported on both channels and claimed by none.
LEMMA AccountFill ==
    ASSUME CopyInv, TypeInv, NothingLost, NEW o \in Orders, Fill(o) PROVE NothingLost'
<1>1. /\ wire'.fills = wire.fills \cup {<<o, filled[o] + 1>>}
      /\ wire'.orders = wire.orders \cup {<<o, filled[o] + 1>>}
      /\ UNCHANGED <<seen, byFills, byOrders, piped, tasks, copied, refused>>
  BY DEF Fill, dedup
<1>2. \A p \in Orders : filled[p] \in Nat /\ piped[p] \in 0..filled[p]
  BY DEF CopyInv, LotTypes, TypeInv, TypeOK
<1>3. filled'[o] = filled[o] + 1 /\ \A p \in Orders \ {o} : filled'[p] = filled[p]
  BY DEF Fill, CopyInv, LotTypes
<1>4. ~Claimed(o, filled[o] + 1)
  <2>1. filled[o] + 1 \notin 1..filled[o] /\ ~(filled[o] + 1 <= piped[o])
    BY <1>2
  <2> QED
    BY <2>1, LotIs DEF Claimed, TypeInv, TypeOK
<1>5. \A p \in Orders : \A n \in 1..filled'[p] : n \in 1..filled[p] \/ (p = o /\ n = filled[o] + 1)
  BY <1>2, <1>3
<1>6. LastLotReported'
  BY <1>1, <1>3 DEF NothingLost, LastLotReported
<1>7. TradesReported'
  BY <1>1, <1>5 DEF NothingLost, TradesReported
<1>8. ClaimsHandled'
  <2> SUFFICES ASSUME NEW p \in Orders, NEW n \in 1..filled'[p], Claimed(p, n)'
               PROVE  <<p, n>> \in Handled'
    BY DEF ClaimsHandled
  <2>1. Claimed(p, n) /\ Handled' = Handled
    BY <1>1 DEF Claimed, Handled, Pending
  <2>2. n \in 1..filled[p]
    BY <1>4, <1>5, <2>1
  <2> QED
    BY <2>1, <2>2 DEF NothingLost, ClaimsHandled
<1> QED
  BY <1>6, <1>7, <1>8 DEF NothingLost

\* The lots of a call that is started or refused are handled.
LEMMA TriggerHandles ==
    ASSUME NEW lots, Trigger(lots), copied' = copied
    PROVE  Handled \cup lots \subseteq Handled'
<1> DEFINE new == [lots |-> lots, stage |-> "symbol", total |-> 0]
<1>1. new.lots = lots
  OBVIOUS
<1> HIDE DEF new
<1>2. \/ tasks' = tasks /\ refused' = refused \cup lots
      \/ tasks' = tasks \cup {new} /\ refused' = refused
  BY DEF Trigger, new
<1> QED
  BY <1>1, <1>2 DEF Handled, Pending

\* A trade is looked at: copied, or left to the orders channel that claimed its order.
LEMMA AccountHandleFill ==
    ASSUME CopyInv, TypeInv, NothingLost, NEW o \in Orders, NEW n \in Nat, HandleFill(o, n)
    PROVE  NothingLost'
<1>1. /\ wire'.fills = wire.fills \ {<<o, n>>} /\ wire'.orders = wire.orders
      /\ seen' = seen \cup {<<o, n>>}
      /\ UNCHANGED <<filled, byOrders, copied>>
  BY DEF HandleFill
<1>2. TradesReported'
  BY <1>1 DEF NothingLost, TradesReported
<1>3. CASE FillsSkip(o, n)
  <2>1. UNCHANGED <<byFills, piped, tasks, refused>>
    BY <1>3 DEF HandleFill
  <2>2. \A p \in Orders : \A k \in 1..filled[p] : Claimed(p, k)' => Claimed(p, k)
    BY <1>1, <1>3, <2>1 DEF Claimed, FillsSkip
  <2>3. LastLotReported' /\ ClaimsHandled'
    BY <1>1, <2>1, <2>2 DEF NothingLost, LastLotReported, ClaimsHandled, Handled, Pending
  <2> QED
    BY <1>2, <2>3 DEF NothingLost
<1>4. CASE ~FillsSkip(o, n)
  <2>1. /\ byFills' = byFills \cup {o} /\ piped' = [piped EXCEPT ![o] = @ + 1]
        /\ Trigger({<<o, n>>}) /\ o \notin byOrders
    BY <1>4 DEF HandleFill, FillsSkip
  <2>2. Handled \cup {<<o, n>>} \subseteq Handled'
    BY <1>1, <2>1, TriggerHandles
  <2>3. \A p \in Orders \ {o} : piped'[p] = piped[p]
    BY <2>1 DEF CopyInv, LotTypes
  <2>4. LastLotReported'
    BY <1>1, <2>1, <2>3 DEF NothingLost, LastLotReported
  <2>5. \A p \in Orders : \A k \in 1..filled[p] :
            Claimed(p, k)' => Claimed(p, k) \/ <<p, k>> = <<o, n>>
    BY <1>1, <2>1, <2>3 DEF Claimed
  <2>6. ClaimsHandled'
    BY <1>1, <2>2, <2>5 DEF NothingLost, ClaimsHandled
  <2> QED
    BY <1>2, <2>4, <2>6 DEF NothingLost
<1> QED
  BY <1>3, <1>4

\* An order's quantity is looked at: everything up to it is copied, unless user_trades
\* claimed the order.
LEMMA AccountHandleOrder ==
    ASSUME CopyInv, TypeInv, NothingLost, NEW o \in Orders, NEW cum \in Nat,
           HandleOrder(o, cum)
    PROVE  NothingLost'
<1>1. /\ wire'.orders = wire.orders \ {<<o, cum>>} /\ wire'.fills = wire.fills
      /\ UNCHANGED <<filled, seen, byFills, copied>>
  BY DEF HandleOrder
<1>2. \A p \in Orders : piped[p] \in Nat /\ filled[p] \in Nat /\ piped[p] <= filled[p]
  BY DEF CopyInv, LotTypes, TypeInv, TypeOK
<1>3. CASE OrdersDelta(o, cum) = {}
  <2>1. UNCHANGED <<byOrders, piped, tasks, refused>>
    BY <1>3 DEF HandleOrder
  <2>2. o \in byFills \/ cum <= piped[o]
    <3>1. o \notin byFills => (piped[o] + 1)..cum = {}
      BY <1>3 DEF OrdersDelta
    <3> QED
      BY <1>2, <3>1
  <2>3. LastLotReported'
    <3> SUFFICES ASSUME NEW p \in Orders \ byFills, filled[p] > piped[p]
                 PROVE  <<p, filled[p]>> \in wire'.orders
      BY <1>1, <2>1 DEF LastLotReported
    <3>1. <<p, filled[p]>> \in wire.orders
      BY DEF NothingLost, LastLotReported
    <3>2. <<p, filled[p]>> # <<o, cum>>
      BY <1>2, <2>2
    <3> QED
      BY <1>1, <3>1, <3>2
  <2>4. TradesReported' /\ ClaimsHandled'
    BY <1>1, <2>1 DEF NothingLost, TradesReported, ClaimsHandled, Handled, Pending, Claimed
  <2> QED
    BY <2>3, <2>4 DEF NothingLost
<1>4. CASE OrdersDelta(o, cum) # {}
  <2>1. /\ byOrders' = byOrders \cup {o} /\ piped' = [piped EXCEPT ![o] = cum]
        /\ Trigger(OrdersDelta(o, cum))
    BY <1>4 DEF HandleOrder
  <2>2. o \notin byFills /\ OrdersDelta(o, cum) = { <<o, n>> : n \in (piped[o] + 1)..cum }
    BY <1>4 DEF OrdersDelta
  <2>3. Handled \cup OrdersDelta(o, cum) \subseteq Handled'
    BY <1>1, <2>1, TriggerHandles
  <2>4. piped'[o] = cum /\ \A p \in Orders \ {o} : piped'[p] = piped[p]
    BY <2>1 DEF CopyInv, LotTypes
  <2>5. LastLotReported'
    <3> SUFFICES ASSUME NEW p \in Orders \ byFills, filled[p] > piped'[p]
                 PROVE  <<p, filled[p]>> \in wire'.orders
      BY <1>1 DEF LastLotReported
    <3>1. filled[p] > piped[p]
      <4>1. piped[o] < cum
        BY <1>2, <1>4, <2>2
      <4> QED
        BY <1>2, <2>4, <4>1
    <3>2. <<p, filled[p]>> \in wire.orders
      BY <3>1 DEF NothingLost, LastLotReported
    <3>3. <<p, filled[p]>> # <<o, cum>>
      BY <1>2, <2>4
    <3> QED
      BY <1>1, <3>2, <3>3
  <2>6. TradesReported'
    BY <1>1, <2>1 DEF NothingLost, TradesReported
  <2>7. ASSUME NEW p \in Orders, NEW n \in 1..filled[p], Claimed(p, n)'
        PROVE  <<p, n>> \in Handled'
    <3>1. CASE p # o
      <4>1. Claimed(p, n)
        BY <1>1, <2>1, <2>4, <2>7, <3>1 DEF Claimed
      <4> QED
        BY <2>3, <4>1 DEF NothingLost, ClaimsHandled
    <3>2. CASE p = o /\ n > piped[o]
      <4>1. n \in (piped[o] + 1)..cum
        BY <1>2, <2>1, <2>4, <2>7, <3>2 DEF Claimed
      <4> QED
        BY <2>2, <2>3, <3>2, <4>1
    <3>3. CASE p = o /\ n <= piped[o]
      <4>1. o \in byOrders
        BY <1>2, <2>2, <3>3 DEF CopyInv, UntouchedOrders
      <4>2. Claimed(p, n)
        BY <3>3, <4>1 DEF Claimed
      <4> QED
        BY <2>3, <4>2 DEF NothingLost, ClaimsHandled
    <3> QED
      BY <1>2, <3>1, <3>2, <3>3
  <2>8. ClaimsHandled'
    BY <1>1, <2>7 DEF ClaimsHandled
  <2> QED
    BY <2>5, <2>6, <2>8 DEF NothingLost
<1> QED
  BY <1>3, <1>4

\* A running call hands on or drops what it carries.
LEMMA AccountTaskStep ==
    ASSUME NothingLost, NEW t \in tasks, TaskStep(t) PROVE NothingLost'
<1>1. UNCHANGED <<filled, wire, seen, byFills, byOrders, piped>>
  BY DEF TaskStep
<1>2. ASSUME tasks' = tasks \ {t}, copied \subseteq copied', refused \subseteq refused',
             t.lots \subseteq copied' \cup refused'
      PROVE  Handled \subseteq Handled'
  BY <1>2 DEF Handled, Pending
<1>3. ASSUME NEW u, u.lots = t.lots, tasks' = (tasks \ {t}) \cup {u},
             UNCHANGED <<copied, refused>>
      PROVE  Handled \subseteq Handled'
  BY <1>3 DEF Handled, Pending
<1>4. ASSUME NEW total, Forward(t, total) PROVE Handled \subseteq Handled'
  BY <1>2, <1>4 DEF Forward
<1>5. CASE Drop(t)
  <2>1. Handled \subseteq Handled'
    BY <1>2, <1>5 DEF Drop
  <2> QED
    BY <1>1, <2>1 DEF NothingLost, LastLotReported, TradesReported, ClaimsHandled, Claimed
<1>6. CASE AfterSymbol(t) \/ AfterPrice(t)
  <2> DEFINE total == tracker + Cardinality(t.lots)
             new == [lots |-> t.lots, stage |-> "price", total |-> total]
  <2>1. \/ Drop(t)
        \/ \E n : Forward(t, n)
        \/ tasks' = (tasks \ {t}) \cup {new} /\ UNCHANGED <<copied, refused>>
    BY <1>6 DEF AfterSymbol, AfterPrice
  <2>2. new.lots = t.lots
    OBVIOUS
  <2> HIDE DEF total, new
  <2>3. CASE ~Drop(t)
    <3>1. Handled \subseteq Handled'
      BY <1>3, <1>4, <2>1, <2>2, <2>3
    <3> QED
      BY <1>1, <3>1 DEF NothingLost, LastLotReported, TradesReported, ClaimsHandled, Claimed
  <2> QED
    BY <1>5, <2>3
<1> QED
  BY <1>6 DEF TaskStep

\* Every step keeps the account.
LEMMA NextAccountInv ==
    ASSUME CopyInv, TypeInv, AccountInv, [Next]_vars PROVE AccountInv'
<1> USE BoundsAssumption
<1>1. ASSUME spent'.drops = spent.drops, NothingLost => NothingLost' PROVE AccountInv'
  BY <1>1 DEF AccountInv
<1>2. ASSUME spent'.drops = spent.drops + 1 PROVE AccountInv'
  BY <1>2 DEF AccountInv
<1>3. ASSUME spent'.drops = spent.drops,
             UNCHANGED <<filled, seen, byFills, byOrders, piped, tasks, copied, refused>>,
             wire.fills \subseteq wire'.fills, wire.orders \subseteq wire'.orders
      PROVE  AccountInv'
  BY <1>1, <1>3, AccountIdle
<1>4. ASSUME NEW o \in Orders, Fill(o) PROVE AccountInv'
  <2>1. spent' = [spent EXCEPT !.fills = @ + 1]
    BY <1>4 DEF Fill
  <2>2. spent'.drops = spent.drops
    BY <2>1
  <2> QED
    BY <1>1, <1>4, <2>2, AccountFill
<1>5. ASSUME NEW o \in Orders, Update(o) PROVE AccountInv'
  <2>1. wire.fills \subseteq wire'.fills /\ wire.orders \subseteq wire'.orders
    <3>1. CASE wire' = [wire EXCEPT !.orders = wire.orders \cup {<<o, filled[o]>>}]
      BY <3>1
    <3>2. CASE wire' = [wire EXCEPT !.sizes = Append(wire.sizes, position)]
      BY <3>2
    <3>3. ASSUME NEW n, wire' = [wire EXCEPT !.fills = wire.fills \cup {<<o, n>>}]
          PROVE  wire.fills \subseteq wire'.fills /\ wire.orders \subseteq wire'.orders
      BY <3>3
    <3> QED
      BY <1>5, <3>1, <3>2, <3>3 DEF Update
  <2> QED
    BY <1>3, <1>5, <2>1 DEF Update, dedup
<1>6. ASSUME NEW k \in 1..MaxFills, Reduce(k) PROVE AccountInv'
  BY <1>3, <1>6 DEF Reduce, dedup
<1>7. ASSUME NEW o \in Orders, NEW n \in 1..MaxFills, HandleFill(o, n) PROVE AccountInv'
  BY <1>1, <1>7, AccountHandleFill DEF HandleFill
<1>8. ASSUME NEW o \in Orders, NEW n \in 1..MaxFills, HandleOrder(o, n) PROVE AccountInv'
  BY <1>1, <1>8, AccountHandleOrder DEF HandleOrder
<1>9. CASE HandleSize
  BY <1>3, <1>9 DEF HandleSize, dedup
<1>10. CASE HandleClose
  <2>1. wire'.fills = wire.fills /\ wire'.orders = wire.orders
    <3>1. CASE UNCHANGED wire
      BY <3>1
    <3>2. CASE wire' = [wire EXCEPT !.reducing = wire.reducing - 1]
      BY <3>2
    <3> QED
      BY <1>10, <3>1, <3>2 DEF HandleClose
  <2> QED
    BY <1>3, <1>10, <2>1 DEF HandleClose, dedup
<1>11. CASE CloseEnds \/ Unlock
  BY <1>3, <1>11 DEF CloseEnds, Unlock, dedup
<1>12. ASSUME NEW t \in tasks, TaskStep(t) PROVE AccountInv'
  BY <1>1, <1>12, AccountTaskStep DEF TaskStep
<1>13. CASE RestRead \/ RestAct
  BY <1>3, <1>13 DEF RestRead, RestAct, dedup
<1>14. CASE Reconnect \/ Restart
  <2>1. spent' = [spent EXCEPT !.drops = @ + 1]
    BY <1>14 DEF Reconnect, Restart
  <2>2. spent'.drops = spent.drops + 1
    BY <2>1
  <2> QED
    BY <1>2, <2>2
<1>15. CASE UNCHANGED vars
  BY <1>3, <1>15 DEF vars, dedup
<1> QED
  BY <1>4, <1>5, <1>6, <1>7, <1>8, <1>9, <1>10, <1>11, <1>12, <1>13, <1>14, <1>15 DEF Next

\* Nothing was filled and nothing lost at the start.
LEMMA InitAccountInv == Init => AccountInv
BY DEF Init, AccountInv, NothingSpent, NothingLost, LastLotReported, TradesReported,
       ClaimsHandled

\* As long as no connection was lost, a lot whose messages have all been handled was
\* handed to the followers or dropped by a named guard: neither channel leaves to the
\* other a lot that the other leaves to it.
THEOREM LotsAccounted == Spec => []EveryLotAccounted
<1>1. CopyInv /\ TypeInv /\ AccountInv => EveryLotAccounted
  <2> SUFFICES ASSUME CopyInv, TypeInv, AccountInv, wire.fills = {}, wire.orders = {},
                      tasks = {}, spent.drops = 0
               PROVE  AllLots = copied \cup refused
    BY DEF EveryLotAccounted
  <2>1. NothingLost /\ Handled = copied \cup refused
    BY DEF AccountInv, Handled, Pending
  <2>2. ASSUME NEW o \in Orders, NEW n \in 1..filled[o] PROVE <<o, n>> \in copied \cup refused
    <3>1. CASE o \in byOrders
      <4>1. ~(filled[o] > piped[o]) /\ filled[o] \in Nat /\ piped[o] \in Nat
        BY <2>1, <3>1 DEF NothingLost, LastLotReported, CopyInv, OneChannel, LotTypes
      <4>2. Claimed(o, n)
        BY <3>1, <4>1 DEF Claimed
      <4> QED
        BY <2>1, <4>2 DEF NothingLost, ClaimsHandled
    <3>2. CASE o \notin byOrders
      <4>1. Claimed(o, n)
        BY <2>1, <3>2 DEF NothingLost, TradesReported, Claimed
      <4> QED
        BY <2>1, <4>1 DEF NothingLost, ClaimsHandled
    <3> QED
      BY <3>1, <3>2
  <2>3. AllLots \subseteq copied \cup refused
    BY <2>2 DEF AllLots, LotsOf
  <2> QED
    BY <2>3 DEF TypeInv, TypeOK
<1> QED
  BY InitCopyInv, NextCopyInv, InitTypeInv, NextTypeInv, InitAccountInv, NextAccountInv,
     <1>1, PTL DEF Spec

-----------------------------------------------------------------------------
(* Each lot is decided once *)

\* A lot that was dropped had been claimed, and nothing carries it or handed it on.
DropInv ==
    /\ \A o \in Orders, n \in Nat : <<o, n>> \in refused => Claimed(o, n)
    /\ refused \cap (copied \cup Pending) = {}

\* What a step decides: no lot, lots that are handed on, or lots that are dropped.
DecidesNone == UNCHANGED <<filled, copied, refused, twice>>
Hands(lots) == /\ copied' = copied \cup lots
               /\ UNCHANGED <<filled, refused, twice>>
Drops(lots) == /\ refused' = refused \cup lots
               /\ UNCHANGED <<filled, copied, twice>>
DecidesOpen ==
    \/ DecidesNone
    \/ \E lots \in SUBSET AllLots :
          /\ lots \cap (copied \cup refused) = {}
          /\ Hands(lots) \/ Drops(lots)

\* Lots that nothing claims are dropped, or carried by the call that is started.
LEMMA TriggerDrops ==
    ASSUME DropInv, NEW lots \in SUBSET AllLots, Trigger(lots),
           UNCHANGED <<filled, copied, twice>>,
           lots \cap (copied \cup refused \cup Pending) = {}
    PROVE  /\ DecidesOpen
           /\ refused' \subseteq refused \cup lots
           /\ refused' \cap (copied' \cup Pending') = {}
<1> DEFINE new == [lots |-> lots, stage |-> "symbol", total |-> 0]
<1>1. new.lots = lots
  OBVIOUS
<1> HIDE DEF new
<1>2. CASE tasks' = tasks /\ refused' = refused \cup lots
  BY <1>2 DEF DecidesOpen, Drops, DropInv, Pending
<1>3. CASE tasks' = tasks \cup {new} /\ refused' = refused
  <2>1. Pending' = Pending \cup lots
    BY <1>1, <1>3 DEF Pending
  <2> QED
    BY <1>3, <2>1 DEF DecidesOpen, DecidesNone, DropInv
<1> QED
  BY <1>2, <1>3 DEF Trigger, new

\* A user_trades message.
LEMMA HandleFillDecides ==
    ASSUME CopyInv, TypeInv, DropInv, NEW o \in Orders, NEW n \in Nat, HandleFill(o, n)
    PROVE  DropInv' /\ DecidesOpen
<1>1. /\ seen' = seen \cup {<<o, n>>}
      /\ UNCHANGED <<filled, byOrders, copied, twice>>
  BY DEF HandleFill
<1>2. CASE FillsSkip(o, n)
  <2>1. UNCHANGED <<piped, tasks, refused>>
    BY <1>2 DEF HandleFill
  <2> QED
    BY <1>1, <2>1 DEF DropInv, Claimed, Pending, DecidesOpen, DecidesNone
<1>3. CASE ~FillsSkip(o, n)
  <2>1. /\ piped' = [piped EXCEPT ![o] = @ + 1]
        /\ Trigger({<<o, n>>})
        /\ o \notin byOrders /\ <<o, n>> \notin seen
    BY <1>3 DEF HandleFill, FillsSkip
  <2>2. ~Claimed(o, n) /\ <<o, n>> \in AllLots
    BY <2>1 DEF Claimed, HandleFill, TypeInv, TypeOK
  <2>3. <<o, n>> \notin copied \cup refused \cup Pending
    BY <2>2 DEF CopyInv, HandedAreClaimed, DropInv
  <2>4. /\ DecidesOpen
        /\ refused' \subseteq refused \cup {<<o, n>>}
        /\ refused' \cap (copied' \cup Pending') = {}
    BY <1>1, <2>1, <2>2, <2>3, TriggerDrops
  <2>5. ASSUME NEW p \in Orders, NEW k \in Nat, <<p, k>> \in refused'
        PROVE  Claimed(p, k)'
    <3>1. CASE <<p, k>> = <<o, n>>
      BY <1>1, <2>1, <3>1 DEF Claimed
    <3>2. CASE <<p, k>> # <<o, n>>
      <4>1. Claimed(p, k)
        BY <2>4, <2>5, <3>2 DEF DropInv
      <4>2. p \in byOrders => piped'[p] = piped[p]
        BY <2>1 DEF CopyInv, LotTypes
      <4> QED
        BY <1>1, <4>1, <4>2 DEF Claimed
    <3> QED
      BY <3>1, <3>2
  <2> QED
    BY <2>4, <2>5 DEF DropInv
<1> QED
  BY <1>2, <1>3

\* An orders message.
LEMMA HandleOrderDecides ==
    ASSUME CopyInv, TypeInv, DropInv, NEW o \in Orders, NEW cum \in Nat, HandleOrder(o, cum)
    PROVE  DropInv' /\ DecidesOpen
<1>1. UNCHANGED <<filled, seen, byFills, copied, twice>>
  BY DEF HandleOrder
<1>2. CASE OrdersDelta(o, cum) = {}
  <2>1. UNCHANGED <<byOrders, piped, tasks, refused>>
    BY <1>2 DEF HandleOrder
  <2> QED
    BY <1>1, <2>1 DEF DropInv, Claimed, Pending, DecidesOpen, DecidesNone
<1>3. CASE OrdersDelta(o, cum) # {}
  <2> DEFINE delta == OrdersDelta(o, cum)
  <2>1. /\ byOrders' = byOrders \cup {o}
        /\ piped' = [piped EXCEPT ![o] = cum]
        /\ Trigger(delta)
    BY <1>3 DEF HandleOrder
  <2>2. o \notin byFills /\ delta = { <<o, n>> : n \in (piped[o] + 1)..cum }
    BY <1>3 DEF OrdersDelta
  <2>3. piped[o] \in Nat /\ piped[o] < cum /\ filled[o] \in Nat
    BY <1>3, <2>2 DEF CopyInv, LotTypes
  <2>4. cum <= filled[o]
    BY LotIs DEF HandleOrder, TypeInv, TypeOK
  <2>5. \A n \in (piped[o] + 1)..cum :
            n \in Nat /\ n > piped[o] /\ n <= cum /\ n \in 1..filled[o]
    BY <2>3, <2>4
  <2>6. \A n \in (piped[o] + 1)..cum : ~Claimed(o, n)
    BY <2>2, <2>3, <2>5 DEF Claimed, CopyInv, UntouchedOrders
  <2>7. \A n \in (piped[o] + 1)..cum : <<o, n>> \notin copied \cup refused \cup Pending
    BY <2>5, <2>6 DEF CopyInv, HandedAreClaimed, DropInv
  <2>8. delta \in SUBSET AllLots /\ delta \cap (copied \cup refused \cup Pending) = {}
    BY <2>2, <2>5, <2>7, LotIs
  <2> HIDE DEF delta
  <2>9. /\ DecidesOpen
        /\ refused' \subseteq refused \cup delta
        /\ refused' \cap (copied' \cup Pending') = {}
    BY <1>1, <2>1, <2>8, TriggerDrops
  <2>10. ASSUME NEW p \in Orders, NEW k \in Nat, <<p, k>> \in refused'
         PROVE  Claimed(p, k)'
    <3>1. piped'[p] = IF p = o THEN cum ELSE piped[p]
      BY <2>1 DEF CopyInv, LotTypes
    <3>2. CASE <<p, k>> \in delta
      BY <2>1, <2>2, <2>5, <3>1, <3>2 DEF Claimed
    <3>3. CASE <<p, k>> \notin delta
      <4>1. Claimed(p, k)
        BY <2>9, <2>10, <3>3 DEF DropInv
      <4>2. CASE p # o
        BY <1>1, <2>1, <3>1, <4>1, <4>2 DEF Claimed
      <4>3. CASE p = o /\ o \in byOrders
        BY <2>1, <2>3, <3>1, <4>1, <4>3 DEF Claimed
      <4>4. CASE p = o /\ o \notin byOrders
        BY <2>2, <4>1, <4>4 DEF Claimed, CopyInv, UntouchedOrders
      <4> QED
        BY <4>2, <4>3, <4>4
    <3> QED
      BY <3>2, <3>3
  <2> QED
    BY <2>9, <2>10 DEF DropInv
<1> QED
  BY <1>2, <1>3

\* A running call hands on what it carries, or drops it, or goes on carrying it.
LEMMA TaskStepDecides ==
    ASSUME CopyInv, TypeInv, DropInv, NEW t \in tasks, TaskStep(t)
    PROVE  DropInv' /\ DecidesOpen
<1>1. UNCHANGED <<filled, seen, byOrders, piped>>
  BY DEF TaskStep
<1>2. /\ t.lots \subseteq AllLots /\ t.lots \subseteq Pending
      /\ t.lots \cap copied = {} /\ t.lots \cap refused = {}
      /\ \A u \in tasks \ {t} : u.lots \cap t.lots = {}
  BY DEF TypeInv, TypeOK, CopyInv, CarriedOnce, DropInv, Pending
<1>3. ASSUME NEW total, Forward(t, total)
      PROVE  DropInv' /\ DecidesOpen
  <2>1. Hands(t.lots) /\ tasks' = tasks \ {t}
    BY <1>1, <1>2, <1>3 DEF Forward, Hands
  <2>2. Pending' \subseteq Pending
    BY <2>1 DEF Pending
  <2> QED
    BY <1>1, <1>2, <2>1, <2>2 DEF DropInv, Claimed, Hands, DecidesOpen
<1>4. CASE Drop(t)
  <2>1. Drops(t.lots) /\ tasks' = tasks \ {t}
    BY <1>1, <1>4 DEF Drop, Drops
  <2>2. Pending' \subseteq Pending /\ Pending' \cap t.lots = {}
    BY <1>2, <2>1 DEF Pending
  <2>3. \A o \in Orders, n \in Nat : <<o, n>> \in t.lots => Claimed(o, n)
    BY <1>2 DEF CopyInv, HandedAreClaimed
  <2> QED
    BY <1>1, <1>2, <2>1, <2>2, <2>3 DEF DropInv, Claimed, Drops, DecidesOpen
<1>5. CASE AfterSymbol(t)
  <2> DEFINE total == tracker + Cardinality(t.lots)
             u == [lots |-> t.lots, stage |-> "price", total |-> total]
  <2>1. \/ Drop(t)
        \/ Forward(t, total)
        \/ tasks' = (tasks \ {t}) \cup {u} /\ UNCHANGED <<copied, refused, twice>>
    BY <1>5 DEF AfterSymbol
  <2>2. u.lots = t.lots
    OBVIOUS
  <2> HIDE DEF total, u
  <2>3. CASE tasks' = (tasks \ {t}) \cup {u} /\ UNCHANGED <<copied, refused, twice>>
    <3>1. Pending' \subseteq Pending
      BY <1>2, <2>2, <2>3 DEF Pending
    <3> QED
      BY <1>1, <2>3, <3>1 DEF DropInv, Claimed, DecidesOpen, DecidesNone
  <2> QED
    BY <1>3, <1>4, <2>1, <2>3
<1>6. CASE AfterPrice(t)
  BY <1>3, <1>4, <1>6 DEF AfterPrice
<1> QED
  BY <1>5, <1>6 DEF TaskStep

\* A step of the exchange, of the closes or of the poll decides about no lot.
LEMMA OthersDecideNone ==
    ASSUME DropInv, UNCHANGED <<seen, byOrders, piped, tasks, copied, refused>>
    PROVE  DropInv'
BY DEF DropInv, Claimed, Pending

-----------------------------------------------------------------------------
(* The steps in the contract *)

\* A function on the numbers up to k is a sequence of length k.
LEMMA FunctionsAreSeq ==
    ASSUME NEW S, NEW k \in Nat, NEW f \in [1..k -> S]
    PROVE  f \in Seq(S) /\ Len(f) = k
<1>1. f \in Seq(S)
  BY SeqDef
<1>2. Len(f) \in Nat /\ 1..Len(f) = 1..k
  BY <1>1, LenProperties
<1>3. \A m \in Nat : 1..m = 1..k => m = k
  <2> SUFFICES ASSUME NEW m \in Nat, 1..m = 1..k PROVE m = k
    OBVIOUS
  <2>1. (m > 0 => m <= k) /\ (k > 0 => k <= m)
    BY m \in 1..m <=> m > 0, k \in 1..k <=> k > 0
  <2> QED
    BY <2>1
<1> QED
  BY <1>1, <1>2, <1>3

\* The lots of the contract are those of the intake, and the open ones the undecided.
LEMMA FateIs ==
    ASSUME TypeInv
    PROVE  /\ \A o \in Orders : filled[o] \in Nat /\ Len(FateOf[o]) = filled[o]
           /\ \A o \in Orders : \A n \in 1..filled[o] : FateOf[o][n] = FateOfLot(<<o, n>>)
           /\ AllLots \ (copied \cup refused \cup twice) \subseteq Contract!OpenLots
<1>1. \A o \in Orders : filled[o] \in Nat
  BY DEF TypeInv, TypeOK
<1>2. \A o \in Orders : FateOf[o] = [n \in 1..filled[o] |-> FateOfLot(<<o, n>>)]
  BY DEF FateOf
<1>3. ASSUME NEW o \in Orders PROVE Len(FateOf[o]) = filled[o]
  <2>1. PICK k \in Nat : k = filled[o]
    BY <1>1
  <2>2. FateOf[o] \in [1..k -> {"twice", "handed", "dropped", "open"}]
    BY <1>2, <2>1 DEF FateOfLot
  <2> QED
    BY <2>1, <2>2, FunctionsAreSeq
<1>4. \A o \in Orders : \A n \in 1..filled[o] : FateOf[o][n] = FateOfLot(<<o, n>>)
  BY <1>2
<1>5. ASSUME NEW o \in Orders, NEW n \in 1..filled[o],
             <<o, n>> \notin copied \cup refused \cup twice
      PROVE  <<o, n>> \in Contract!OpenLots
  <2>1. FateOf[o][n] = "open"
    BY <1>4, <1>5 DEF FateOfLot
  <2> QED
    BY <1>3, <2>1 DEF Contract!OpenLots
<1> QED
  BY <1>1, <1>3, <1>4, <1>5 DEF AllLots, LotsOf

\* A decision about open lots is one of the contract.
LEMMA DecidesInContract ==
    ASSUME TypeInv, twice = {}, NEW lots \in SUBSET AllLots,
           lots \cap (copied \cup refused) = {}, Hands(lots) \/ Drops(lots)
    PROVE  Contract!Next
<1>1. lots \in SUBSET Contract!OpenLots
  BY FateIs
<1>2. \A o \in Orders : Len(FateOf[o]) = filled[o]
  BY FateIs
<1>3. ASSUME NEW outcome,
             \A o \in Orders : \A n \in 1..filled[o] :
                 FateOfLot(<<o, n>>)' =
                     IF <<o, n>> \in lots THEN outcome ELSE FateOfLot(<<o, n>>)
      PROVE  Contract!Decide(lots, outcome)
  <2> DEFINE new(o) == [n \in 1..Len(FateOf[o]) |->
                           IF <<o, n>> \in lots THEN outcome ELSE FateOf[o][n]]
  <2>1. filled' = filled
    BY DEF Hands, Drops
  <2>2. ASSUME NEW o \in Orders
        PROVE  new(o) = [n \in 1..filled[o] |-> FateOfLot(<<o, n>>)']
    BY <1>2, <1>3, FateIs
  <2>3. FateOf' = [o \in Orders |-> [n \in 1..filled[o] |-> FateOfLot(<<o, n>>)']]
    BY <2>1 DEF FateOf
  <2> HIDE DEF new
  <2>4. FateOf' = [o \in Orders |-> new(o)]
    BY <2>2, <2>3
  <2> QED
    BY <2>4 DEF Contract!Decide, new
<1>4. CASE Hands(lots)
  <2>1. Contract!Decide(lots, "handed")
    BY <1>3, <1>4 DEF Hands, FateOfLot
  <2> QED
    BY <1>1, <2>1 DEF Contract!Next
<1>5. CASE Drops(lots)
  <2>1. Contract!Decide(lots, "dropped")
    BY <1>3, <1>5 DEF Drops, FateOfLot
  <2> QED
    BY <1>1, <2>1 DEF Contract!Next
<1> QED
  BY <1>4, <1>5

\* A step that decides only open lots.
LEMMA OpenInContract ==
    ASSUME TypeInv, twice = {}, DecidesOpen
    PROVE  Contract!Next \/ UNCHANGED FateOf
<1>1. CASE DecidesNone
  BY <1>1 DEF DecidesNone, FateOf, FateOfLot
<1> QED
  BY <1>1, DecidesInContract DEF DecidesOpen

\* A new lot is open.
LEMMA FillInContract ==
    ASSUME TypeInv, NEW o \in Orders, Fill(o)
    PROVE  Contract!Next
<1> DEFINE old(p) == [n \in 1..filled[p] |-> FateOfLot(<<p, n>>)]
           Fates == {"twice", "handed", "dropped", "open"}
<1>1. /\ \A p \in Orders : filled[p] \in Nat
      /\ filled' = [filled EXCEPT ![o] = filled[o] + 1]
      /\ UNCHANGED <<copied, refused, twice>>
  BY DEF TypeInv, TypeOK, Fill
<1>2. FateOfLot(<<o, filled[o] + 1>>) = "open"
  <2>1. <<o, filled[o] + 1>> \notin AllLots
    BY <1>1, LotIs
  <2> QED
    BY <2>1 DEF FateOfLot, TypeInv, TypeOK
<1>3. \A p \in Orders, n \in Nat : FateOfLot(<<p, n>>)' = FateOfLot(<<p, n>>)
  BY <1>1 DEF FateOfLot
<1>4. filled'[o] = filled[o] + 1 /\ \A p \in Orders \ {o} : filled'[p] = filled[p]
  BY <1>1 DEF TypeInv, TypeOK
<1>5. FateOf = [p \in Orders |-> old(p)]
  BY DEF FateOf
<1>6. \A l : FateOfLot(l) \in Fates
  BY DEF FateOfLot
<1>7. Append(old(o), "open") = [n \in 1..(filled[o] + 1) |-> FateOfLot(<<o, n>>)]
  <2> DEFINE longer == [n \in 1..(filled[o] + 1) |-> FateOfLot(<<o, n>>)]
  <2>0. PICK k \in Nat : k = filled[o]
    BY <1>1
  <2>1. old(o) \in Seq(Fates) /\ Len(old(o)) = k
    <3>1. old(o) \in [1..k -> Fates]
      BY <1>6, <2>0
    <3> HIDE DEF old, Fates
    <3> QED
      BY <3>1, FunctionsAreSeq
  <2>2. longer \in Seq(Fates) /\ Len(longer) = k + 1
    <3>1. longer \in [1..(k + 1) -> Fates]
      BY <1>6, <2>0
    <3> HIDE DEF longer, Fates
    <3> QED
      BY <3>1, FunctionsAreSeq
  <2>3. \A n \in 1..k : longer[n] = old(o)[n]
    BY <2>0
  <2>4. longer[k + 1] = "open"
    BY <1>2, <2>0
  <2> HIDE DEF old, longer, Fates
  <2>5. "open" \in Fates
    BY DEF Fates
  <2>6. /\ Append(old(o), "open") \in Seq(Fates) /\ Len(Append(old(o), "open")) = k + 1
        /\ \A n \in 1..k : Append(old(o), "open")[n] = old(o)[n]
        /\ Append(old(o), "open")[k + 1] = "open"
    BY <2>1, <2>5
  <2>7. \A n \in 1..(k + 1) : Append(old(o), "open")[n] = longer[n]
    BY <2>3, <2>4, <2>6
  <2>8. Append(old(o), "open") = longer
    BY <2>2, <2>6, <2>7, SeqEqual
  <2> QED
    BY <2>8 DEF longer
<1>8. FateOf' = [p \in Orders |-> [n \in 1..filled'[p] |-> FateOfLot(<<p, n>>)']]
  BY DEF FateOf
<1>9. ASSUME NEW p \in Orders
      PROVE  [n \in 1..filled'[p] |-> FateOfLot(<<p, n>>)'] =
                 IF p = o THEN Append(old(o), "open") ELSE old(p)
  <2>1. CASE p = o
    <3>1. \A n \in 1..(filled[o] + 1) : FateOfLot(<<o, n>>)' = FateOfLot(<<o, n>>)
      BY <1>1, <1>3
    <3> HIDE DEF old
    <3> QED
      BY <1>4, <1>7, <2>1, <3>1
  <2>2. CASE p # o
    BY <1>1, <1>3, <1>4, <2>2
  <2> QED
    BY <2>1, <2>2
<1> HIDE DEF old
<1>10. FateOf' = [FateOf EXCEPT ![o] = Append(FateOf[o], "open")]
  BY <1>5, <1>8, <1>9
<1> QED
  BY <1>10 DEF Contract!Next, Contract!Fill

\* A process that starts again has decided nothing.
LEMMA RestartInContract ==
    ASSUME TypeInv, Restart
    PROVE  DropInv' /\ Contract!Next
<1>1. /\ filled' = filled
      /\ copied' = {} /\ refused' = {} /\ twice' = {}
  BY DEF Restart
<1>2. \A l : FateOfLot(l)' = "open"
  BY <1>1 DEF FateOfLot
<1>3. \A o \in Orders : Len(FateOf[o]) = filled[o]
  BY FateIs
<1>4. FateOf' = [o \in Orders |-> [n \in 1..Len(FateOf[o]) |-> "open"]]
  BY <1>1, <1>2, <1>3 DEF FateOf
<1> QED
  BY <1>1, <1>4 DEF DropInv, Contract!Next, Contract!Forget

\* Every step keeps the decisions apart and is a step of the contract, or none.
LEMMA NextDecides ==
    ASSUME CopyInv, TypeInv, DropInv, [Next]_vars
    PROVE  DropInv' /\ (Contract!Next \/ UNCHANGED FateOf)
<1> USE BoundsAssumption
<1>0. twice = {}
  BY DEF CopyInv, NoLotCopiedTwice
<1>1. ASSUME UNCHANGED <<filled, seen, byOrders, piped, tasks, copied, refused, twice>>
      PROVE  DropInv' /\ UNCHANGED FateOf
  BY <1>1, OthersDecideNone DEF FateOf, FateOfLot
<1>2. ASSUME NEW o \in Orders, Fill(o) PROVE DropInv' /\ Contract!Next
  <2>1. UNCHANGED <<seen, byOrders, piped, tasks, copied, refused>>
    BY <1>2 DEF Fill, dedup
  <2> QED
    BY <1>2, <2>1, OthersDecideNone, FillInContract
<1>3. ASSUME NEW o \in Orders, NEW n \in 1..MaxFills, HandleFill(o, n)
      PROVE  DropInv' /\ (Contract!Next \/ UNCHANGED FateOf)
  <2>1. n \in Nat
    OBVIOUS
  <2> QED
    BY <1>0, <1>3, <2>1, HandleFillDecides, OpenInContract
<1>4. ASSUME NEW o \in Orders, NEW n \in 1..MaxFills, HandleOrder(o, n)
      PROVE  DropInv' /\ (Contract!Next \/ UNCHANGED FateOf)
  <2>1. n \in Nat
    OBVIOUS
  <2> QED
    BY <1>0, <1>4, <2>1, HandleOrderDecides, OpenInContract
<1>5. ASSUME NEW t \in tasks, TaskStep(t)
      PROVE  DropInv' /\ (Contract!Next \/ UNCHANGED FateOf)
  BY <1>0, <1>5, TaskStepDecides, OpenInContract
<1>6. CASE Restart
  BY <1>6, RestartInContract
<1>7. ASSUME NEW o \in Orders, Update(o) PROVE DropInv' /\ UNCHANGED FateOf
  BY <1>1, <1>7 DEF Update, dedup
<1>8. ASSUME NEW k \in 1..MaxFills, Reduce(k) PROVE DropInv' /\ UNCHANGED FateOf
  BY <1>1, <1>8 DEF Reduce, dedup
<1>9. CASE HandleSize \/ HandleClose
  BY <1>1, <1>9 DEF HandleSize, HandleClose, dedup
<1>10. CASE CloseEnds \/ Unlock
  BY <1>1, <1>10 DEF CloseEnds, Unlock, dedup
<1>11. CASE RestRead \/ RestAct
  BY <1>1, <1>11 DEF RestRead, RestAct, dedup
<1>12. CASE Reconnect
  BY <1>1, <1>12 DEF Reconnect, dedup
<1>13. CASE UNCHANGED vars
  BY <1>1, <1>13 DEF vars, dedup
<1> QED
  BY <1>2, <1>3, <1>4, <1>5, <1>6, <1>7, <1>8, <1>9, <1>10, <1>11, <1>12, <1>13 DEF Next

\* Two channels that report every fill, and the calls that run beside them, decide each
\* lot once: it is handed to the followers or dropped, never both and never twice, until
\* the process starts again.
THEOREM IntakeImplementsContract == Spec => ImplementsContract
<1>1. Init => DropInv
  BY DEF Init, DropInv, Pending
<1>2. Init => Contract!Init
  BY DEF Init, Contract!Init, FateOf
<1>3. CopyInv /\ TypeInv /\ DropInv /\ [Next]_vars => DropInv' /\ [Contract!Next]_FateOf
  BY NextDecides
<1> QED
  BY InitCopyInv, NextCopyInv, InitTypeInv, NextTypeInv, <1>1, <1>2, <1>3, PTL
     DEF Spec, ImplementsContract, Contract!Spec

-----------------------------------------------------------------------------
(***************************************************************************)
(* The copying of one leg (FollowerCopy, here an instance), for any fills  *)
(* and bounds: the chain of a leg keeps live orders out of the time        *)
(* between the poll's second look and its order, and the window keeps the  *)
(* decisions apart as long as none is taken beside it.                     *)
(***************************************************************************)
CONSTANTS Fills, FillLots, OtherLegs, MaxUpsets
VARIABLES master, others, peak, reduces, failures, held, shown, rows, inflight, legClosing,
          chain, job, poll, tracked, counted, lastRest, legCloser, unguarded

C == INSTANCE FollowerCopy WITH closing <- legClosing, closer <- legCloser

\* What FollowerCopy assumes of its fills.
CopyConstants == C!Poller \notin Fills /\ FillLots \in Nat \ {0}

\* The poll's job orders only while it is the first of the chain.
JobsAreJobs == DOMAIN job = C!Jobs
OrdersInTurn == job[C!Poller].step = "order" => C!Turn(C!Poller)

ChainInv == chain \in Seq(C!Jobs) /\ JobsAreJobs /\ OrdersInTurn

USE DEF CopyConstants

-----------------------------------------------------------------------------
(* The jobs *)

\* A job replaced by another leaves the rest of them alone.
LEMMA JobReplaced ==
    ASSUME CopyConstants, JobsAreJobs, NEW j \in C!Jobs, NEW r, job' = [job EXCEPT ![j] = r]
    PROVE  /\ JobsAreJobs' /\ job'[j] = r
           /\ \A k \in C!Jobs : k # j => job'[k] = job[k]
BY DEF JobsAreJobs

\* The fields of a job that goes on.
LEMMA AtFields ==
    ASSUME NEW r, NEW s, NEW n
    PROVE  C!At(r, s, n).step = s /\ C!At(r, s, n).target = r.target /\ C!At(r, s, n).lots = n
BY DEF C!At

\* A job that goes on has the step and the lots it goes on to.
LEMMA StepWritten ==
    ASSUME CopyConstants, JobsAreJobs, NEW j \in C!Jobs, NEW s, NEW n,
           job' = [job EXCEPT ![j] = C!At(job[j], s, n)]
    PROVE  /\ JobsAreJobs'
           /\ job'[j].step = s /\ job'[j].target = job[j].target /\ job'[j].lots = n
           /\ \A k \in C!Jobs : k # j => job'[k] = job[k]
<1>1. /\ JobsAreJobs' /\ job'[j] = C!At(job[j], s, n)
      /\ \A k \in C!Jobs : k # j => job'[k] = job[k]
  BY JobReplaced
<1> QED
  BY <1>1, AtFields

\* A job that has ended aims at nothing, and the poll's has given the poll back.
LEMMA FinishFields ==
    ASSUME CopyConstants, JobsAreJobs, NEW j \in C!Jobs, C!Finish(j)
    PROVE  /\ JobsAreJobs'
           /\ job'[j].step \in {"idle", "done"} /\ job'[j].target = 0 /\ job'[j].lots = 0
           /\ \A k \in C!Jobs : k # j => job'[k] = job[k]
           /\ j = C!Poller => /\ job'[j].step = "idle"
                              /\ tracked' = poll /\ lastRest' = poll /\ poll' = C!None
           /\ j # C!Poller => UNCHANGED <<tracked, lastRest, poll>>
<1>1. C!Idle.step = "idle" /\ C!Idle.target = 0 /\ C!Idle.lots = 0
  BY DEF C!Idle
<1>2. C!Done.step = "done" /\ C!Done.target = 0 /\ C!Done.lots = 0
  BY <1>1, AtFields DEF C!Done
<1>3. job' = [job EXCEPT ![j] = IF j \in Fills THEN C!Done ELSE C!Idle]
  BY DEF C!Finish
<1>4. /\ JobsAreJobs' /\ job'[j] = IF j \in Fills THEN C!Done ELSE C!Idle
      /\ \A k \in C!Jobs : k # j => job'[k] = job[k]
  BY <1>3, JobReplaced
<1>5. /\ j = C!Poller => tracked' = poll /\ lastRest' = poll /\ poll' = C!None
      /\ j # C!Poller => UNCHANGED <<tracked, lastRest, poll>>
  BY DEF C!Finish
<1> QED
  BY <1>1, <1>2, <1>4, <1>5

-----------------------------------------------------------------------------
(* The chain *)

\* Nobody waits at first.
LEMMA InitChain ==
    ASSUME CopyConstants
    PROVE  C!Init => ChainInv
BY DEF C!Init, ChainInv, JobsAreJobs, OrdersInTurn, C!Idle, C!Jobs

\* A job that enters the chain waits behind those that are there.
LEMMA EnterKeeps ==
    ASSUME CopyConstants, ChainInv, NEW j \in C!Jobs, C!Enter(j)
    PROVE  ChainInv'
<1>1. chain \in Seq(C!Jobs) /\ chain' = Append(chain, j)
  BY DEF ChainInv, C!Enter
<1>2. chain' \in Seq(C!Jobs) /\ chain' # <<>>
  BY <1>1
<1>3. chain # <<>> => Head(chain') = Head(chain)
  BY <1>1
<1>4. /\ JobsAreJobs' /\ job'[j].step = "wait"
      /\ \A k \in C!Jobs : k # j => job'[k] = job[k]
  BY StepWritten DEF ChainInv, C!Enter
<1>5. job'[C!Poller].step = "order" => job[C!Poller].step = "order"
  BY <1>4 DEF C!Jobs
<1> QED
  BY <1>1, <1>2, <1>3, <1>4, <1>5 DEF ChainInv, OrdersInTurn, C!Turn

\* A step that leaves the chain alone and does not begin an order of the poll's job.
LEMMA ChainAlone ==
    ASSUME CopyConstants, ChainInv, chain' = chain, JobsAreJobs',
           job'[C!Poller].step = "order" => job[C!Poller].step = "order"
    PROVE  ChainInv'
BY DEF ChainInv, OrdersInTurn, C!Turn

\* A step that leaves the chain and the jobs alone.
LEMMA JobsAlone ==
    ASSUME CopyConstants, ChainInv, chain' = chain, job' = job
    PROVE  ChainInv'
BY DEF ChainInv, JobsAreJobs, OrdersInTurn, C!Turn

\* A job that ends outside the chain, or goes on to anything but an order.
LEMMA StepAlone ==
    ASSUME CopyConstants, ChainInv, NEW j \in C!Jobs, chain' = chain,
           C!Finish(j) \/ \E s, n : s # "order" /\ C!GoOn(j, s, n)
    PROVE  ChainInv'
<1>1. JobsAreJobs' /\ job'[j].step # "order" /\ \A k \in C!Jobs : k # j => job'[k] = job[k]
  <2>1. CASE C!Finish(j)
    BY <2>1, FinishFields DEF ChainInv
  <2>2. ASSUME NEW s, NEW n, s # "order", C!GoOn(j, s, n)
        PROVE  JobsAreJobs' /\ job'[j].step # "order"
               /\ \A k \in C!Jobs : k # j => job'[k] = job[k]
    BY <2>2, StepWritten DEF ChainInv, C!GoOn
  <2> QED
    BY <2>1, <2>2
<1>2. C!Poller \in C!Jobs
  BY DEF C!Jobs
<1> QED
  BY <1>1, <1>2, ChainAlone

\* A job that passes a guard, or ends under it.
LEMMA PassAlone ==
    ASSUME CopyConstants, ChainInv, NEW j \in C!Jobs, NEW s, NEW guard, NEW t, t # "order",
           C!Pass(j, s, guard, t)
    PROVE  ChainInv'
BY StepAlone DEF C!Pass

\* A job that decides is not in the chain.
LEMMA DecideKeeps ==
    ASSUME CopyConstants, ChainInv, NEW j \in C!Jobs, C!Decide(j)
    PROVE  ChainInv'
<1>1. CASE C!TestLock(j)
  BY <1>1, PassAlone DEF C!TestLock
<1>2. CASE C!TestWindow(j)
  BY <1>2, PassAlone DEF C!TestWindow
<1>3. CASE C!ReadRows(j)
  BY <1>3, StepAlone DEF C!ReadRows
<1>4. CASE C!ReadLeg(j)
  BY <1>4, StepAlone DEF C!ReadLeg
<1> QED
  BY <1>1, <1>2, <1>3, <1>4 DEF C!Decide

\* A step after which the poll's job is not ordering may take the first job off.
LEMMA NotOrdering ==
    ASSUME CopyConstants, ChainInv, chain # <<>>, C!Leave, JobsAreJobs',
           job'[C!Poller].step # "order"
    PROVE  ChainInv'
<1>1. Tail(chain) \in Seq(C!Jobs)
  BY DEF ChainInv
<1> QED
  BY <1>1 DEF ChainInv, OrdersInTurn, C!Leave

\* The message of a fill is handled, or lost.
LEMMA ReceiveJob ==
    ASSUME CopyConstants, NEW f \in Fills, C!Receive(f)
    PROVE  \E r : /\ job' = [job EXCEPT ![f] = r]
                  /\ \/ /\ r.step = "lock" /\ r.target = tracked + FillLots /\ r.lots = 0
                        /\ tracked' = tracked + FillLots
                        /\ counted' = C!Larger(counted, tracked + FillLots)
                     \/ /\ r.step = "done" /\ r.target = 0 /\ r.lots = 0
                        /\ UNCHANGED <<tracked, counted>>
<1>1. C!Done.step = "done" /\ C!Done.target = 0 /\ C!Done.lots = 0
  BY AtFields DEF C!Done, C!Idle
<1>2. PICK r : r = [step |-> "lock", target |-> tracked + FillLots, lots |-> 0, key |-> <<f>>]
  OBVIOUS
<1>3. r.step = "lock" /\ r.target = tracked + FillLots /\ r.lots = 0
  BY <1>2
<1> QED
  BY <1>1, <1>2, <1>3 DEF C!Receive

\* Live fills keep the order of the chain.
LEMMA LiveKeeps ==
    ASSUME CopyConstants, ChainInv, NEW f \in Fills, C!LiveStep(f)
    PROVE  ChainInv'
<1>0. f \in C!Jobs /\ C!Poller \in C!Jobs /\ f # C!Poller /\ JobsAreJobs
  BY DEF ChainInv, C!Jobs
<1>1. CASE C!Receive(f)
  <2>1. chain' = chain /\ \E r : job' = [job EXCEPT ![f] = r]
    BY <1>1, ReceiveJob DEF C!Receive
  <2> QED
    BY <1>0, <2>1, JobReplaced, ChainAlone
<1>2. CASE C!Decide(f)
  BY <1>0, <1>2, DecideKeeps
<1>3. CASE C!LiveRun(f)
  BY <1>0, <1>3, PassAlone DEF C!LiveRun
<1>4. CASE C!Enter(f)
  BY <1>0, <1>4, EnterKeeps
<1>5. CASE C!LiveOrder(f)
  <2>1. job[C!Poller].step # "order" /\ chain # <<>> /\ C!Leave
    BY <1>0, <1>5 DEF C!LiveOrder, C!Turn, ChainInv, OrdersInTurn
  <2>2. JobsAreJobs' /\ job'[C!Poller] = job[C!Poller]
    <3>1. CASE C!GoOn(f, "persist", job[f].lots)
      BY <1>0, <3>1, StepWritten DEF C!GoOn
    <3>2. CASE C!Finish(f)
      BY <1>0, <3>2, FinishFields
    <3> QED
      BY <1>5, <3>1, <3>2 DEF C!LiveOrder, C!Place
  <2> QED
    BY <2>1, <2>2, NotOrdering
<1>6. CASE C!Persist(f)
  BY <1>0, <1>6, StepAlone DEF C!Persist
<1> QED
  BY <1>1, <1>2, <1>3, <1>4, <1>5, <1>6 DEF C!LiveStep

\* The poll's job begins to order in its turn only, and keeps it until it has ordered.
LEMMA RestKeeps ==
    ASSUME CopyConstants, ChainInv, C!RestStep
    PROVE  ChainInv'
<1>0. C!Poller \in C!Jobs /\ JobsAreJobs
  BY DEF ChainInv, C!Jobs
<1>1. CASE C!Decide(C!Poller)
  BY <1>0, <1>1, DecideKeeps
<1>2. CASE C!RestAgain
  BY <1>0, <1>2, PassAlone DEF C!RestAgain
<1>3. CASE C!Enter(C!Poller)
  BY <1>0, <1>3, EnterKeeps
<1>4. CASE C!RestStart
  <2>1. CASE shown >= job[C!Poller].target
    <3>1. C!Leave /\ C!Finish(C!Poller) /\ chain # <<>>
      BY <1>4, <2>1 DEF C!RestStart, C!Turn
    <3>2. JobsAreJobs' /\ job'[C!Poller].step # "order"
      BY <1>0, <3>1, FinishFields
    <3> QED
      BY <3>1, <3>2, NotOrdering
  <2>2. CASE ~(shown >= job[C!Poller].target)
    <3>1. /\ chain' = chain /\ C!Turn(C!Poller)
          /\ C!GoOn(C!Poller, "order", job[C!Poller].target - shown)
      BY <1>4, <2>2 DEF C!RestStart
    <3>2. JobsAreJobs'
      BY <1>0, <3>1, StepWritten DEF C!GoOn
    <3> QED
      BY <3>1, <3>2 DEF ChainInv, OrdersInTurn, C!Turn
  <2> QED
    BY <2>1, <2>2
<1>5. CASE C!RestOrder
  <2>1. chain # <<>> /\ C!Leave
    BY <1>5 DEF C!RestOrder, ChainInv, OrdersInTurn, C!Turn
  <2>2. JobsAreJobs' /\ job'[C!Poller].step # "order"
    <3>1. CASE C!GoOn(C!Poller, "persist", job[C!Poller].lots)
      <4>1. JobsAreJobs' /\ job'[C!Poller].step = "persist"
        BY <1>0, <3>1, StepWritten DEF C!GoOn
      <4> QED
        BY <4>1
    <3>2. CASE C!Finish(C!Poller)
      BY <1>0, <3>2, FinishFields
    <3> QED
      BY <1>5, <3>1, <3>2 DEF C!RestOrder
  <2> QED
    BY <2>1, <2>2, NotOrdering
<1>6. CASE C!Persist(C!Poller)
  BY <1>0, <1>6, StepAlone DEF C!Persist
<1>7. CASE C!Trim
  BY <1>0, <1>7, PassAlone DEF C!Trim
<1>8. CASE C!TrimSize
  BY <1>0, <1>8, StepAlone DEF C!TrimSize
<1>9. CASE C!Cut
  BY <1>0, <1>9, StepAlone DEF C!Cut
<1>10. CASE C!Clear
  BY <1>0, <1>10, StepAlone DEF C!Clear
<1> QED
  BY <1>1, <1>2, <1>3, <1>4, <1>5, <1>6, <1>7, <1>8, <1>9, <1>10 DEF C!RestStep

\* What the poll hands its job to do.
LEMMA PollJob ==
    ASSUME CopyConstants, C!PollOpen
    PROVE  \/ poll' = C!None /\ UNCHANGED job
           \/ /\ poll' = poll
              /\ \E r : /\ job' = [job EXCEPT ![C!Poller] = r]
                        /\ \/ /\ r.step = "trim" /\ r.target = 0 /\ r.lots = lastRest - poll
                              /\ lastRest > poll
                           \/ r.step = "lock" /\ r.target = poll /\ r.lots = 0
<1>1. PICK q : q = C!At(C!Idle, "trim", lastRest - poll)
  OBVIOUS
<1>2. C!Idle.target = 0
  BY DEF C!Idle
<1>3. q.step = "trim" /\ q.target = 0 /\ q.lots = lastRest - poll
  BY <1>1, <1>2, AtFields
<1>4. PICK key : key = IF lastRest \in {0, poll} THEN <<poll>> ELSE <<lastRest, poll>>
  OBVIOUS
<1>5. PICK r : r = [step |-> "lock", target |-> poll, lots |-> 0, key |-> key]
  OBVIOUS
<1>6. r.step = "lock" /\ r.target = poll /\ r.lots = 0
  BY <1>5
<1>7. CASE lastRest > poll
  BY <1>1, <1>3, <1>7 DEF C!PollOpen
<1>8. CASE ~(lastRest > poll)
  BY <1>4, <1>5, <1>6, <1>8 DEF C!PollOpen
<1> QED
  BY <1>7, <1>8

\* Every step keeps the invariant.
LEMMA NextKeeps ==
    ASSUME CopyConstants
    PROVE  ChainInv /\ [C!Next]_(C!vars) => ChainInv'
<1> SUFFICES ASSUME ChainInv, [C!Next]_(C!vars) PROVE ChainInv'
  OBVIOUS
<1>0. JobsAreJobs /\ C!Poller \in C!Jobs
  BY DEF ChainInv, C!Jobs
<1>1. ASSUME NEW f \in Fills, C!Fill(f) PROVE ChainInv'
  <2>0. f \in C!Jobs /\ f # C!Poller /\ chain' = chain
    BY <1>1 DEF C!Jobs, C!Fill
  <2>1. \E r : job' = [job EXCEPT ![f] = r]
    BY <1>1 DEF C!Fill
  <2> QED
    BY <1>0, <2>0, <2>1, JobReplaced, ChainAlone
<1>2. ASSUME NEW f \in Fills, C!LiveStep(f) PROVE ChainInv'
  BY <1>2, LiveKeeps
<1>3. ASSUME NEW k \in C!Lots, C!Reduce(k) PROVE ChainInv'
  BY <1>3, JobsAlone DEF C!Reduce
<1>4. CASE C!SizeMessage \/ C!FlatMessage
  BY <1>4, JobsAlone DEF C!SizeMessage, C!FlatMessage
<1>5. CASE C!Settle \/ C!Expire \/ C!Unlock
  BY <1>5, JobsAlone DEF C!Settle, C!Expire, C!Unlock
<1>6. CASE C!PollRead \/ C!PollMissing
  BY <1>6, JobsAlone DEF C!PollRead, C!PollMissing
<1>7. CASE C!PollOpen
  <2>1. chain' = chain
    BY <1>7 DEF C!PollOpen
  <2>2. CASE UNCHANGED job
    BY <2>1, <2>2, JobsAlone
  <2>3. ASSUME NEW r, job' = [job EXCEPT ![C!Poller] = r], r.step # "order" PROVE ChainInv'
    BY <1>0, <2>1, <2>3, JobReplaced, ChainAlone
  <2> QED
    BY <1>7, <2>2, <2>3, PollJob
<1>8. CASE C!RestStep
  BY <1>8, RestKeeps
<1>9. CASE C!CloseStep
  BY <1>9, JobsAlone DEF C!CloseStep, C!CloseRead, C!CloseLook, C!CloseOrder, C!CloseRows,
                         C!CloseCheck
<1>10. CASE UNCHANGED C!vars
  BY <1>10, JobsAlone DEF C!vars
<1> QED
  BY <1>1, <1>2, <1>3, <1>4, <1>5, <1>6, <1>7, <1>8, <1>9, <1>10 DEF C!Next

\* No live order comes between the poll's second look at the position and its order:
\* in its turn the poll's job is the first of the chain, and a live order must be, too.
THEOREM RestOrdersAlone ==
    ASSUME CopyConstants
    PROVE  C!Spec => C!NoLiveOrderInsideARestOrder
<1>1. ChainInv => (job[C!Poller].step = "order" => \A f \in Fills : ~C!LiveOrder(f))
  <2> SUFFICES ASSUME ChainInv, job[C!Poller].step = "order", NEW f \in Fills, C!LiveOrder(f)
               PROVE  FALSE
    OBVIOUS
  <2>1. Head(chain) = C!Poller
    BY DEF ChainInv, OrdersInTurn, C!Turn
  <2>2. Head(chain) = f
    BY DEF C!LiveOrder, C!Turn
  <2> QED
    BY <2>1, <2>2
<1> QED
  BY InitChain, NextKeeps, <1>1, PTL DEF C!Spec, C!NoLiveOrderInsideARestOrder

-----------------------------------------------------------------------------
(* Lots ordered beside one another *)

\* What the follower may be brought to: the largest the master's leg has been, or that a
\* fill's message made of it.
Ceiling == C!Larger(peak, counted)

\* What is counted, read and ordered are numbers; no job aims over the ceiling, and the
\* poll's job is at work only for a leg the poll has fetched.
LegTypes ==
    /\ master \in Nat /\ peak \in Nat /\ master <= peak /\ counted \in Nat
    /\ held \in Nat /\ shown \in Nat /\ tracked \in Nat /\ lastRest \in Nat
    /\ inflight \in BOOLEAN /\ unguarded \in BOOLEAN
    /\ poll \in Nat \cup {C!None} /\ poll <= peak
    /\ legCloser.lots \in Nat
    /\ IsFiniteSet(rows) /\ \A r \in rows : r.qty \in Nat
JobTypes ==
    /\ \A j \in C!Jobs : job[j].target \in 0..Ceiling /\ job[j].lots \in Nat
    /\ job[C!Poller].step # "idle" => poll \in Nat /\ poll > 0

\* A job that stands in the chain.
Waits(j) == job[j].step \in {"wait", "order"}
\* A live fill that knows what it will order.
Sized(f) == job[f].step \in {"run", "enter", "wait"}

\* Unless a window failed to cover a decision: inside a window nobody decides, outside it
\* nobody waits, and one job at most waits at all; the position endpoint hides no lots
\* from whoever decides or waits; and what they are about to order fits.
OneAtATime ==
    /\ inflight => \A j \in C!Jobs : ~C!Deciding(j)
    /\ ~inflight => chain = <<>>
    /\ \A j \in C!Jobs : Waits(j) => chain = <<j>>
NothingHidden == ~inflight \/ chain # <<>> => held <= shown
LotsFit ==
    /\ \A f \in Fills : Sized(f) => held + job[f].lots <= Ceiling
    /\ job[C!Poller].step = "order" => held + job[C!Poller].lots <= Ceiling
    /\ held <= Ceiling
Guarded == unguarded \/ (OneAtATime /\ NothingHidden /\ LotsFit)

LegInv == ChainInv /\ LegTypes /\ JobTypes /\ Guarded

\* The ceiling is a number over the peak, and no total counted lowers it.
LEMMA CeilingGrows ==
    ASSUME LegTypes, LegTypes', peak' >= peak, counted' >= counted
    PROVE  /\ Ceiling \in Nat /\ Ceiling' \in Nat /\ Ceiling' >= Ceiling
           /\ peak <= Ceiling /\ counted <= Ceiling
BY DEF Ceiling, LegTypes, C!Larger

\* The ceiling is a number over the peak.
LEMMA CeilingType ==
    ASSUME LegTypes
    PROVE  Ceiling \in Nat /\ peak <= Ceiling /\ counted <= Ceiling
BY DEF Ceiling, LegTypes, C!Larger

\* The lots of the rows are a number.
LEMMA RowLots ==
    ASSUME LegTypes PROVE C!Db \in Nat
<1>1. C!Db = SumOf([r \in rows |-> r.qty], rows)
  <2>1. PICK R : R = rows
    OBVIOUS
  <2>2. C!MapThenSumSet(LAMBDA r : r.qty, R) = SumOf([r \in R |-> r.qty], R)
    BY ZenonT(30) DEF SumOf, MapThenSumSet, MapThenFoldSet, C!MapThenSumSet, C!MapThenFoldSet
  <2> QED
    BY Zenon, <2>1, <2>2 DEF C!Db
<1>2. NatOn([r \in rows |-> r.qty], rows)
  BY DEF NatOn, LegTypes
<1> QED
  BY <1>1, <1>2, SumNat DEF LegTypes

\* What is missing of a target is missing beside what the endpoint reports.
LEMMA MissingFits ==
    ASSUME CopyConstants, JobTypes, LegTypes, NEW j \in C!Jobs, NEW n \in Nat
    PROVE  /\ C!Missing(j, n) \in Nat
           /\ C!Missing(j, n) # 0 => n + C!Missing(j, n) <= job[j].target
<1>1. job[j].lots \in Nat /\ job[j].target \in Nat
  BY CeilingType DEF JobTypes
<1> QED
  BY <1>1 DEF C!Missing, C!Larger

\* A step that orders nothing: no job begins to wait; one that begins to decide does so
\* outside the window; and one that begins to know its lots found them missing.
LEMMA GuardStays ==
    ASSUME CopyConstants, LegTypes, LegTypes', JobTypes, Guarded,
           UNCHANGED <<inflight, chain>>, unguarded' = unguarded \/ unguarded' = TRUE,
           held' <= held, peak' >= peak, counted' >= counted,
           shown' = shown \/ shown' = held,
           \A j \in C!Jobs : /\ Waits(j)' => Waits(j)
                             /\ C!Deciding(j)' => C!Deciding(j) \/ ~inflight,
           \A f \in Fills : Sized(f)' =>
               \/ Sized(f) /\ job'[f].lots = job[f].lots
               \/ unguarded'
               \/ ~inflight /\ job'[f].lots \in Nat /\ shown + job'[f].lots <= Ceiling,
           job'[C!Poller].step = "order" =>
               job[C!Poller].step = "order" /\ job'[C!Poller].lots = job[C!Poller].lots
    PROVE  Guarded'
<1> SUFFICES ASSUME ~unguarded' PROVE Guarded'
  BY DEF Guarded
<1>1. OneAtATime /\ NothingHidden /\ LotsFit
  BY DEF Guarded
<1>2. OneAtATime'
  BY <1>1 DEF OneAtATime
<1>3. NothingHidden'
  BY <1>1 DEF NothingHidden, LegTypes
<1>4. /\ Ceiling \in Nat /\ Ceiling' \in Nat /\ Ceiling <= Ceiling'
      /\ held' <= Ceiling' /\ held \in Nat /\ held' \in Nat /\ shown \in Nat
  <2>1. held \in Nat /\ held' \in Nat /\ shown \in Nat
    BY DEF LegTypes
  <2> QED
    BY <1>1, <2>1, CeilingGrows DEF LotsFit
<1>5. ASSUME NEW f \in Fills, Sized(f)' PROVE held' + job'[f].lots <= Ceiling'
  <2>0. f \in C!Jobs
    BY DEF C!Jobs
  <2>1. CASE Sized(f) /\ job'[f].lots = job[f].lots
    <3>1. held + job[f].lots <= Ceiling /\ job[f].lots \in Nat
      BY <1>1, <2>0, <2>1 DEF LotsFit, JobTypes
    <3> QED
      BY <1>4, <2>1, <3>1
  <2>2. CASE ~inflight /\ job'[f].lots \in Nat /\ shown + job'[f].lots <= Ceiling
    <3>1. held <= shown
      BY <1>1, <2>2 DEF NothingHidden
    <3> QED
      BY <1>4, <2>2, <3>1
  <2> QED
    BY <1>5, <2>1, <2>2
<1>6. ASSUME job'[C!Poller].step = "order" PROVE held' + job'[C!Poller].lots <= Ceiling'
  <2>1. /\ held + job[C!Poller].lots <= Ceiling /\ job[C!Poller].lots \in Nat
        /\ job'[C!Poller].lots = job[C!Poller].lots
    BY <1>1, <1>6 DEF LotsFit, JobTypes, C!Jobs
  <2> QED
    BY <1>4, <2>1
<1>7. LotsFit'
  BY <1>4, <1>5, <1>6 DEF LotsFit
<1> QED
  BY <1>2, <1>3, <1>7 DEF Guarded

\* A job that joins the chain opens a window; had another decided beside it, the window
\* would not cover that one.
LEMMA GuardEnters ==
    ASSUME CopyConstants, ChainInv, LegTypes, JobTypes, Guarded, NEW j \in C!Jobs,
           C!Enter(j), UNCHANGED <<held, shown, peak, counted>>
    PROVE  Guarded'
<1> SUFFICES ASSUME ~unguarded' PROVE Guarded'
  BY DEF Guarded
<1>0. job[j].step = "enter" /\ C!Deciding(j)
  BY DEF C!Enter, C!Deciding
<1>1. /\ OneAtATime /\ NothingHidden /\ LotsFit
      /\ \A k \in C!Jobs \ {j} : ~C!Deciding(k)
  BY DEF Guarded, C!Enter
<1>2. ~inflight /\ chain = <<>> /\ chain' = <<j>> /\ inflight' = TRUE
  <2>1. ~inflight /\ chain = <<>>
    BY <1>0, <1>1 DEF OneAtATime
  <2>2. chain' = Append(chain, j) /\ inflight' = TRUE
    BY DEF C!Enter
  <2> QED
    BY <2>1, <2>2
<1>3. /\ job'[j].step = "wait" /\ job'[j].lots = job[j].lots
      /\ \A k \in C!Jobs : k # j => job'[k] = job[k]
  BY StepWritten DEF C!Enter, ChainInv
<1>4. \A k \in C!Jobs : ~Waits(k)
  BY <1>1, <1>2 DEF OneAtATime
<1>5. OneAtATime'
  BY <1>1, <1>2, <1>3, <1>4 DEF OneAtATime, Waits, C!Deciding
<1>6. NothingHidden'
  BY <1>1, <1>2 DEF NothingHidden
<1>7. Ceiling' = Ceiling
  BY DEF Ceiling, C!Larger
<1>8. LotsFit'
  BY <1>0, <1>1, <1>3, <1>7 DEF LotsFit, Sized, C!Jobs
<1> QED
  BY <1>5, <1>6, <1>8 DEF Guarded

\* The job at the head of the chain orders what fits, or nothing, and leaves.
LEMMA GuardOrders ==
    ASSUME CopyConstants, ChainInv, LegTypes, JobTypes, Guarded, NEW j \in C!Jobs,
           Waits(j), C!Leave, UNCHANGED <<shown, peak, counted, unguarded>>,
           job'[j].step \in {"idle", "done", "persist"},
           \A k \in C!Jobs : k # j => job'[k] = job[k],
           \/ /\ held' = held + job[j].lots /\ inflight' = TRUE
              /\ job[j].step = IF j \in Fills THEN "wait" ELSE "order"
           \/ held' = held /\ inflight' = inflight
    PROVE  Guarded'
<1> SUFFICES ASSUME ~unguarded PROVE Guarded'
  BY DEF Guarded
<1>1. OneAtATime /\ NothingHidden /\ LotsFit
  BY DEF Guarded
<1>2. chain = <<j>> /\ inflight
  BY <1>1 DEF OneAtATime
<1>3. chain' = <<>> /\ inflight'
  <2>1. Tail(<<j>>) = <<>>
    OBVIOUS
  <2> QED
    BY <1>2, <2>1 DEF C!Leave
<1>4. \A k \in C!Jobs : ~Waits(k)' /\ ~C!Deciding(k)'
  <2>1. ASSUME NEW k \in C!Jobs, k # j PROVE ~Waits(k)' /\ ~C!Deciding(k)'
    <3>1. <<k>> # <<j>>
      BY <2>1
    <3>2. ~Waits(k) /\ ~C!Deciding(k) /\ job'[k] = job[k]
      BY <1>1, <1>2, <2>1, <3>1 DEF OneAtATime
    <3> QED
      BY <3>2 DEF Waits, C!Deciding
  <2>2. ~Waits(j)' /\ ~C!Deciding(j)'
    BY DEF Waits, C!Deciding
  <2> QED
    BY <2>1, <2>2
<1>5. Ceiling' = Ceiling
  BY DEF Ceiling, C!Larger
<1>6. held' <= Ceiling'
  <2>1. held <= Ceiling
    BY <1>1 DEF LotsFit
  <2>2. CASE /\ held' = held + job[j].lots
             /\ job[j].step = IF j \in Fills THEN "wait" ELSE "order"
    BY <1>1, <1>5, <2>2 DEF LotsFit, Sized, C!Jobs
  <2> QED
    BY <1>5, <2>1, <2>2
<1>7. OneAtATime' /\ NothingHidden'
  BY <1>3, <1>4 DEF OneAtATime, NothingHidden
<1>8. LotsFit'
  <2>1. \A f \in Fills : ~Sized(f)'
    BY <1>4 DEF Sized, Waits, C!Deciding, C!Jobs
  <2>2. job'[C!Poller].step # "order"
    BY <1>4 DEF Waits, C!Jobs
  <2> QED
    BY <1>6, <2>1, <2>2 DEF LotsFit
<1> QED
  BY <1>7, <1>8 DEF Guarded

\* A row that is opened, or was open before.
LEMMA RowOpened ==
    ASSUME LegTypes, NEW key, NEW qty \in Nat, C!OpenRow(key, qty)
    PROVE  IsFiniteSet(rows') /\ \A r \in rows' : r.qty \in Nat
<1> DEFINE new == [key |-> key, qty |-> qty]
<1>1. rows' = rows \/ rows' = rows \cup {new}
  BY DEF C!OpenRow
<1>2. new.qty = qty
  OBVIOUS
<1> HIDE DEF new
<1>3. IsFiniteSet(rows \cup {new})
  BY FS_AddElement DEF LegTypes
<1> QED
  BY <1>1, <1>2, <1>3 DEF LegTypes

\* What is sold is held.
LEMMA SoldTypes ==
    ASSUME LegTypes, NEW n \in Nat, C!Sell(n) PROVE held' \in Nat /\ held' <= held
BY DEF LegTypes, C!Sell, C!Smaller

\* A step that changes one job at most, and no lots.
LEMMA OneJob ==
    ASSUME CopyConstants, LegTypes, JobTypes, NEW j \in C!Jobs, UNCHANGED <<peak, counted>>,
           job'[j].target \in 0..Ceiling, job'[j].lots \in Nat,
           \A k \in C!Jobs : k # j => job'[k] = job[k],
           \/ j = C!Poller /\ (job'[j].step # "idle" => poll' \in Nat /\ poll' > 0)
           \/ j # C!Poller /\ poll' = poll
    PROVE  JobTypes'
<1>1. Ceiling' = Ceiling
  BY DEF Ceiling, C!Larger
<1> QED
  BY <1>1 DEF JobTypes, LegTypes, C!Jobs

\* A job that ends keeps the types.
LEMMA FinishKeeps ==
    ASSUME CopyConstants, LegInv, NEW j \in C!Jobs, job[j].step # "idle", C!Finish(j),
           UNCHANGED <<master, peak, counted, shown, legCloser>>,
           held' \in Nat, inflight' \in BOOLEAN, unguarded' \in BOOLEAN,
           IsFiniteSet(rows') /\ \A r \in rows' : r.qty \in Nat
    PROVE  /\ LegTypes' /\ JobTypes'
           /\ job'[j].step \in {"idle", "done"}
           /\ \A k \in C!Jobs : k # j => job'[k] = job[k]
<1> USE DEF LegInv
<1>1. /\ job'[j].step \in {"idle", "done"} /\ job'[j].target = 0 /\ job'[j].lots = 0
      /\ \A k \in C!Jobs : k # j => job'[k] = job[k]
      /\ j = C!Poller => /\ job'[j].step = "idle"
                         /\ tracked' = poll /\ lastRest' = poll /\ poll' = C!None
      /\ j # C!Poller => UNCHANGED <<tracked, lastRest, poll>>
  BY FinishFields DEF ChainInv
<1>2. peak \in Nat /\ 0 \in 0..Ceiling
  BY CeilingType DEF LegTypes
<1>3. JobTypes'
  BY <1>1, <1>2, OneJob
<1>4. tracked' \in Nat /\ lastRest' \in Nat /\ poll' \in Nat \cup {C!None} /\ poll' <= peak
  BY <1>1, <1>2 DEF LegTypes, JobTypes, C!None
<1>5. LegTypes'
  BY <1>4 DEF LegTypes
<1> QED
  BY <1>1, <1>3, <1>5

\* A job that goes on keeps the types.
LEMMA GoesOn ==
    ASSUME CopyConstants, LegInv, NEW j \in C!Jobs, job[j].step # "idle",
           NEW s, NEW n \in Nat, C!GoOn(j, s, n),
           UNCHANGED <<master, peak, counted, shown, legCloser>>,
           held' \in Nat, inflight' \in BOOLEAN, unguarded' \in BOOLEAN, rows' = rows
    PROVE  /\ LegTypes' /\ JobTypes' /\ job'[j].step = s /\ job'[j].lots = n
           /\ \A k \in C!Jobs : k # j => job'[k] = job[k]
<1>0. /\ job' = [job EXCEPT ![j] = C!At(job[j], s, n)] /\ UNCHANGED <<tracked, lastRest, poll>>
      /\ JobsAreJobs
  BY DEF LegInv, ChainInv, C!GoOn
<1>1. /\ job'[j].step = s /\ job'[j].target = job[j].target /\ job'[j].lots = n
      /\ \A k \in C!Jobs : k # j => job'[k] = job[k]
  <2>1. /\ job'[j] = C!At(job[j], s, n)
        /\ \A k \in C!Jobs : k # j => job'[k] = job[k]
    BY <1>0, JobReplaced
  <2> QED
    BY <2>1, AtFields
<1>2. JobTypes'
  BY <1>0, <1>1, OneJob DEF LegInv, JobTypes
<1>3. LegTypes'
  BY <1>0 DEF LegInv, LegTypes
<1> QED
  BY <1>1, <1>2, <1>3

\* A job that ends outside the chain keeps the invariant.
LEMMA EndFits ==
    ASSUME CopyConstants, LegInv, NEW j \in C!Jobs, job[j].step # "idle", C!Finish(j),
           UNCHANGED <<master, peak, counted, held, shown, inflight, chain, legCloser>>,
           unguarded' = unguarded \/ unguarded' = TRUE,
           IsFiniteSet(rows') /\ \A r \in rows' : r.qty \in Nat
    PROVE  LegTypes' /\ JobTypes' /\ Guarded'
<1> USE DEF LegInv
<1>0. inflight' \in BOOLEAN /\ unguarded' \in BOOLEAN
  BY Zenon DEF LegTypes
<1>1. held' \in Nat /\ held' <= held /\ peak' >= peak /\ counted' >= counted
  BY DEF LegTypes
<1>2. /\ LegTypes' /\ JobTypes'
      /\ job'[j].step \in {"idle", "done"}
      /\ \A k \in C!Jobs : k # j => job'[k] = job[k]
  BY <1>0, <1>1, FinishKeeps
<1>3. \A k \in C!Jobs : /\ Waits(k)' => Waits(k)
                        /\ C!Deciding(k)' => C!Deciding(k)
  BY <1>2 DEF Waits, C!Deciding
<1>4. \A f \in Fills : Sized(f)' => Sized(f) /\ job'[f].lots = job[f].lots
  BY <1>2 DEF Sized, C!Jobs
<1>5. job'[C!Poller].step = "order" =>
          job[C!Poller].step = "order" /\ job'[C!Poller].lots = job[C!Poller].lots
  BY <1>2 DEF C!Jobs
<1> QED
  BY <1>1, <1>2, <1>3, <1>4, <1>5, GuardStays

\* A job that goes on outside the chain: it begins to decide outside the window, and a live
\* fill comes to know lots that are missing.
LEMMA GoFits ==
    ASSUME CopyConstants, LegInv, NEW j \in C!Jobs, job[j].step # "idle",
           NEW s, NEW n \in Nat, C!GoOn(j, s, n), s \notin {"wait", "order"},
           UNCHANGED <<master, peak, counted, shown, rows, inflight, chain, legCloser>>,
           unguarded' = unguarded \/ unguarded' = TRUE, held' \in Nat, held' <= held,
           ~inflight \/ C!Deciding(j) \/ s \notin {"db", "look", "run", "enter"}
               \/ (j = C!Poller /\ s # "enter"),
           j \in Fills /\ s \in {"run", "enter"} =>
               \/ Sized(j) /\ n = job[j].lots
               \/ unguarded'
               \/ C!Deciding(j) /\ shown + n <= Ceiling
    PROVE  LegTypes' /\ JobTypes' /\ Guarded'
<1> USE DEF LegInv
<1>0. inflight' \in BOOLEAN /\ unguarded' \in BOOLEAN
  BY Zenon DEF LegTypes
<1>1. peak' >= peak /\ counted' >= counted
  BY DEF LegTypes
<1>2. /\ LegTypes' /\ JobTypes' /\ job'[j].step = s /\ job'[j].lots = n
      /\ \A k \in C!Jobs : k # j => job'[k] = job[k]
  BY <1>0, <1>1, GoesOn
<1>3. CASE unguarded'
  BY <1>2, <1>3 DEF Guarded
<1>4. CASE ~unguarded'
  <2>0. OneAtATime
    BY <1>4 DEF Guarded
  <2>1. \A k \in C!Jobs : /\ Waits(k)' => Waits(k)
                          /\ C!Deciding(k)' => C!Deciding(k) \/ ~inflight
    BY <1>2 DEF Waits, C!Deciding, C!Jobs
  <2>2. C!Deciding(j) => ~inflight
    BY <2>0 DEF OneAtATime
  <2>3. \A f \in Fills : Sized(f)' =>
               \/ Sized(f) /\ job'[f].lots = job[f].lots
               \/ ~inflight /\ job'[f].lots \in Nat /\ shown + job'[f].lots <= Ceiling
    <3> SUFFICES ASSUME NEW f \in Fills, Sized(f)'
                 PROVE  \/ Sized(f) /\ job'[f].lots = job[f].lots
                        \/ ~inflight /\ job'[f].lots \in Nat /\ shown + job'[f].lots <= Ceiling
      OBVIOUS
    <3>1. CASE f # j
      BY <1>2, <3>1 DEF Sized, C!Jobs
    <3>2. CASE f = j
      <4>1. s \in {"run", "enter"}
        BY <1>2, <3>2 DEF Sized
      <4> QED
        BY <1>2, <1>4, <2>2, <3>2, <4>1
    <3> QED
      BY <3>1, <3>2
  <2>4. job'[C!Poller].step = "order" =>
            job[C!Poller].step = "order" /\ job'[C!Poller].lots = job[C!Poller].lots
    BY <1>2 DEF C!Jobs
  <2> QED
    BY <1>1, <1>2, <2>1, <2>3, <2>4, GuardStays
<1> QED
  BY <1>1, <1>2, <1>3, <1>4

\* A job at a guard passes it, or ends under it.
LEMMA PassFits ==
    ASSUME CopyConstants, LegInv, NEW j \in C!Jobs, NEW s, NEW guard, NEW t,
           C!Pass(j, s, guard, t), s # "idle", t \notin {"wait", "order"},
           guard \/ ~inflight \/ C!Deciding(j) \/ t \notin {"db", "look", "run", "enter"},
           j \in Fills /\ t \in {"run", "enter"} => Sized(j)
    PROVE  LegTypes' /\ JobTypes' /\ Guarded'
<1>0. /\ job[j].step # "idle" /\ job[j].lots \in Nat
      /\ UNCHANGED <<master, peak, counted, held, shown, rows, inflight, chain, legCloser,
                     unguarded>>
      /\ held \in Nat /\ IsFiniteSet(rows) /\ \A r \in rows : r.qty \in Nat
  BY DEF C!Pass, C!market, LegInv, JobTypes, LegTypes
<1>1. CASE guard
  <2>1. C!Finish(j)
    BY <1>1 DEF C!Pass
  <2> QED
    BY <1>0, <2>1, EndFits
<1>2. CASE ~guard
  <2>1. C!GoOn(j, t, job[j].lots)
    BY <1>2 DEF C!Pass
  <2> QED
    BY <1>0, <1>2, <2>1, GoFits
<1> QED
  BY <1>1, <1>2

\* Joining the chain keeps the invariant.
LEMMA EnterFits ==
    ASSUME CopyConstants, LegInv, NEW j \in C!Jobs, C!Enter(j)
    PROVE  LegTypes' /\ JobTypes' /\ Guarded'
<1> USE DEF LegInv
<1>1. /\ job[j].step = "enter" /\ job[j].lots \in Nat /\ held \in Nat
      /\ UNCHANGED <<master, peak, counted, held, shown, rows, tracked, lastRest, poll,
                     legCloser>>
      /\ C!GoOn(j, "wait", job[j].lots)
      /\ inflight' \in BOOLEAN /\ unguarded' \in BOOLEAN
  BY DEF C!Enter, C!market, C!engine, C!GoOn, JobTypes, LegTypes
<1>2. LegTypes' /\ JobTypes'
  BY <1>1, GoesOn
<1> QED
  BY <1>1, <1>2, GuardEnters

\* A job that decides keeps the invariant: outside the window a live fill sees all the
\* lots there are, unless the endpoint did not answer.
LEMMA DecideFits ==
    ASSUME CopyConstants, LegInv, NEW j \in C!Jobs, C!Decide(j)
    PROVE  LegTypes' /\ JobTypes' /\ Guarded'
<1> USE DEF LegInv, C!market
<1>0. /\ job[j].target \in Nat /\ job[j].target <= Ceiling /\ job[j].lots \in Nat
      /\ shown \in Nat /\ held \in Nat /\ Ceiling \in Nat /\ FillLots \in Nat
      /\ IsFiniteSet(rows) /\ \A r \in rows : r.qty \in Nat
  BY CeilingType DEF JobTypes, LegTypes
<1>1. CASE C!TestLock(j)
  BY <1>1, PassFits DEF C!TestLock
<1>2. CASE C!TestWindow(j)
  BY <1>2, PassFits DEF C!TestWindow
<1>3. CASE C!ReadRows(j)
  <2>1. /\ job[j].step = "db" /\ C!GoOn(j, "look", C!Db)
        /\ UNCHANGED <<master, peak, counted, held, shown, rows, inflight, chain, legCloser,
                       unguarded>>
    BY <1>3 DEF C!ReadRows
  <2>2. C!Deciding(j) \/ j = C!Poller
    BY <2>1 DEF C!Deciding, C!Jobs
  <2> QED
    BY <1>0, <2>1, <2>2, RowLots, GoFits
<1>4. CASE C!ReadLeg(j)
  <2>1. PICK n \in {0, shown} :
            /\ \/ n = shown /\ UNCHANGED <<failures, unguarded>>
               \/ n = 0 /\ unguarded' = TRUE
            /\ IF C!Missing(j, n) = 0
               THEN C!Finish(j)
               ELSE IF j \in Fills
               THEN C!GoOn(j, "run", C!Smaller(FillLots, C!Missing(j, n)))
               ELSE C!GoOn(j, "again", 0)
    BY <1>4 DEF C!ReadLeg
  <2>2. /\ job[j].step = "look" /\ n \in Nat
        /\ unguarded' = unguarded \/ unguarded' = TRUE
        /\ UNCHANGED <<master, peak, counted, held, shown, rows, inflight, chain, legCloser>>
    BY <1>0, <1>4, <2>1 DEF C!ReadLeg
  <2>3. PICK d : d = C!Missing(j, n)
    OBVIOUS
  <2>4. d \in Nat /\ (d # 0 => n + d <= job[j].target)
    BY <2>2, <2>3, MissingFits
  <2>5. CASE d = 0
    BY <1>0, <2>1, <2>2, <2>3, <2>5, EndFits
  <2>6. CASE d # 0 /\ j \in Fills
    <3>0. held' \in Nat /\ held' <= held
      BY <1>0, <2>2
    <3>1. PICK m : m = C!Smaller(FillLots, d)
      OBVIOUS
    <3>2. m \in Nat /\ m <= d
      BY <1>0, <2>4, <3>1 DEF C!Smaller
    <3>3. C!GoOn(j, "run", m)
      BY <2>1, <2>3, <2>6, <3>1
    <3>4. n = shown => shown + m <= Ceiling
      BY <1>0, <2>4, <2>6, <3>2
    <3>5. C!Deciding(j)
      BY <2>2, <2>6 DEF C!Deciding
    <3>6. unguarded' \/ shown + m <= Ceiling
      BY <2>1, <3>4
    <3> QED
      BY <2>2, <3>0, <3>2, <3>3, <3>5, <3>6, GoFits
  <2>7. CASE d # 0 /\ j \notin Fills
    <3>0. held' \in Nat /\ held' <= held /\ j = C!Poller /\ 0 \in Nat
      BY <1>0, <2>2, <2>7 DEF C!Jobs
    <3>1. C!GoOn(j, "again", 0)
      BY <2>1, <2>3, <2>7
    <3> QED
      BY <2>2, <2>7, <3>0, <3>1, GoFits
  <2> QED
    BY <2>5, <2>6, <2>7
<1> QED
  BY <1>1, <1>2, <1>3, <1>4 DEF C!Decide

\* The message of a fill counts its lots, and raises the ceiling to the total.
LEMMA ReceiveFits ==
    ASSUME CopyConstants, LegInv, NEW f \in Fills, C!Receive(f)
    PROVE  LegTypes' /\ JobTypes' /\ Guarded'
<1> USE DEF LegInv
<1>0. /\ f \in C!Jobs /\ f # C!Poller /\ JobsAreJobs /\ FillLots \in Nat
      /\ UNCHANGED <<master, peak, held, shown, rows, inflight, chain, poll, lastRest,
                     legCloser, unguarded>>
  BY DEF C!Jobs, ChainInv, C!Receive
<1>1. PICK r : /\ job' = [job EXCEPT ![f] = r]
               /\ \/ /\ r.step = "lock" /\ r.target = tracked + FillLots /\ r.lots = 0
                     /\ tracked' = tracked + FillLots
                     /\ counted' = C!Larger(counted, tracked + FillLots)
                  \/ /\ r.step = "done" /\ r.target = 0 /\ r.lots = 0
                     /\ UNCHANGED <<tracked, counted>>
  BY ReceiveJob
<1>2. job'[f] = r /\ \A k \in C!Jobs : k # f => job'[k] = job[k]
  BY <1>0, <1>1, JobReplaced
<1>3. /\ tracked \in Nat /\ tracked' \in Nat /\ counted' \in Nat /\ counted' >= counted
      /\ peak' >= peak /\ held' <= held
      /\ r.lots = 0 /\ r.target \in Nat /\ (r.target = 0 \/ r.target <= counted')
  BY <1>0, <1>1 DEF LegTypes, C!Larger
<1>4. LegTypes'
  BY <1>0, <1>3 DEF LegTypes
<1>5. JobTypes'
  <2>1. /\ Ceiling \in Nat /\ Ceiling' \in Nat /\ Ceiling <= Ceiling' /\ counted' <= Ceiling'
    BY <1>3, <1>4, CeilingGrows, CeilingType DEF Ceiling, LegTypes, C!Larger
  <2>2. r.target \in 0..Ceiling' /\ r.lots \in Nat
    BY <1>3, <1>4, <2>1 DEF LegTypes
  <2>3. \A j \in C!Jobs : job[j].target \in 0..Ceiling' /\ job[j].lots \in Nat
    BY <2>1 DEF JobTypes
  <2>4. \A j \in C!Jobs : job'[j].target \in 0..Ceiling' /\ job'[j].lots \in Nat
    BY <1>2, <2>2, <2>3
  <2>5. job'[C!Poller] = job[C!Poller] /\ poll' = poll
    BY <1>0, <1>2 DEF C!Jobs
  <2> QED
    BY <2>4, <2>5 DEF JobTypes
<1>6. \A k \in C!Jobs : /\ Waits(k)' => Waits(k)
                        /\ C!Deciding(k)' => C!Deciding(k)
  BY <1>1, <1>2 DEF Waits, C!Deciding
<1>7. \A k \in Fills : Sized(k)' => Sized(k) /\ job'[k].lots = job[k].lots
  BY <1>1, <1>2 DEF Sized, C!Jobs
<1>8. job'[C!Poller] = job[C!Poller]
  BY <1>0, <1>2 DEF C!Jobs
<1> QED
  BY <1>0, <1>3, <1>4, <1>5, <1>6, <1>7, <1>8, GuardStays

\* A live fill that ordered, or failed to, leaves the chain.
LEMMA LiveOrderFits ==
    ASSUME CopyConstants, LegInv, NEW f \in Fills, C!LiveOrder(f)
    PROVE  LegTypes' /\ JobTypes' /\ Guarded'
<1> USE DEF LegInv, C!market
<1>1. /\ f \in C!Jobs /\ job[f].step = "wait" /\ Waits(f) /\ C!Leave /\ job[f].lots \in Nat
      /\ UNCHANGED <<master, peak, counted, shown, rows, legCloser, unguarded>>
      /\ held \in Nat /\ IsFiniteSet(rows) /\ \A r \in rows : r.qty \in Nat
  BY DEF C!LiveOrder, C!Place, JobTypes, LegTypes, C!Jobs, Waits
<1>2. inflight \in BOOLEAN /\ unguarded' \in BOOLEAN
  BY Zenon, <1>1 DEF LegTypes
<1>3. CASE /\ C!Buy(job[f].lots) /\ inflight' = TRUE
           /\ C!GoOn(f, "persist", job[f].lots)
  <2>1. held' = held + job[f].lots /\ held' \in Nat /\ inflight' \in BOOLEAN
    BY <1>1, <1>3 DEF C!Buy
  <2>2. /\ LegTypes' /\ JobTypes' /\ job'[f].step = "persist"
        /\ \A k \in C!Jobs : k # f => job'[k] = job[k]
    BY <1>1, <1>2, <1>3, <2>1, GoesOn
  <2> QED
    BY <1>1, <1>3, <2>1, <2>2, GuardOrders
<1>4. CASE C!Fail /\ C!Finish(f) /\ UNCHANGED inflight
  <2>1. held' = held /\ held' \in Nat /\ inflight' \in BOOLEAN
    BY <1>1, <1>2, <1>4 DEF C!Fail
  <2>2. /\ LegTypes' /\ JobTypes' /\ job'[f].step \in {"idle", "done"}
        /\ \A k \in C!Jobs : k # f => job'[k] = job[k]
    BY <1>1, <1>2, <1>4, <2>1, FinishKeeps
  <2> QED
    BY <1>1, <1>4, <2>1, <2>2, GuardOrders
<1> QED
  BY <1>3, <1>4 DEF C!LiveOrder, C!Place

\* A job that has ordered opens its row.
LEMMA PersistFits ==
    ASSUME CopyConstants, LegInv, NEW j \in C!Jobs, C!Persist(j)
    PROVE  LegTypes' /\ JobTypes' /\ Guarded'
<1> USE DEF LegInv, C!market
<1>0. job[j].lots \in Nat /\ job[j].target \in Nat
  BY CeilingType DEF JobTypes
<1>1. /\ job[j].step = "persist" /\ C!Finish(j)
      /\ UNCHANGED <<master, peak, counted, held, shown, inflight, chain, legCloser, unguarded>>
  BY DEF C!Persist
<1>2. PICK qty \in {job[j].lots, job[j].target} : C!OpenRow(job[j].key, qty)
  BY DEF C!Persist
<1>3. IsFiniteSet(rows') /\ \A r \in rows' : r.qty \in Nat
  BY <1>0, <1>2, RowOpened
<1> QED
  BY <1>1, <1>3, EndFits

\* Live fills keep the invariant.
LEMMA LiveFits ==
    ASSUME CopyConstants, LegInv, NEW f \in Fills, C!LiveStep(f)
    PROVE  LegTypes' /\ JobTypes' /\ Guarded'
<1>0. f \in C!Jobs
  BY DEF C!Jobs
<1>1. ASSUME C!LiveRun(f) PROVE LegTypes' /\ JobTypes' /\ Guarded'
  <2>1. C!Deciding(f) /\ Sized(f) /\ C!Pass(f, "run", legClosing, "enter")
    BY <1>1 DEF C!LiveRun, C!Pass, C!Deciding, Sized
  <2> QED
    BY <1>0, <2>1, PassFits
<1> QED
  BY <1>0, <1>1, ReceiveFits, DecideFits, EnterFits, LiveOrderFits, PersistFits
     DEF C!LiveStep

\* In its turn the poll's job orders what it does not see: nothing is hidden from it.
LEMMA GuardLooksAgain ==
    ASSUME CopyConstants, ChainInv, LegTypes, JobTypes, Guarded,
           job[C!Poller].step = "wait", shown < job[C!Poller].target,
           UNCHANGED <<inflight, chain, unguarded, held, shown, peak, counted>>,
           job'[C!Poller].step = "order",
           job'[C!Poller].lots = job[C!Poller].target - shown,
           \A k \in C!Jobs : k # C!Poller => job'[k] = job[k]
    PROVE  Guarded'
<1> SUFFICES ASSUME ~unguarded PROVE Guarded'
  BY DEF Guarded
<1>0. C!Poller \in C!Jobs /\ Waits(C!Poller)
  BY DEF C!Jobs, Waits
<1>1. OneAtATime /\ NothingHidden /\ LotsFit
  BY DEF Guarded
<1>2. chain = <<C!Poller>>
  BY <1>0, <1>1 DEF OneAtATime
<1>3. held <= shown
  BY <1>1, <1>2 DEF NothingHidden
<1>4. OneAtATime'
  BY <1>1, <1>2 DEF OneAtATime, Waits, C!Deciding
<1>5. NothingHidden'
  BY <1>3 DEF NothingHidden
<1>6. Ceiling' = Ceiling
  BY DEF Ceiling, C!Larger
<1>7. held' + job'[C!Poller].lots <= Ceiling'
  <2>1. job[C!Poller].target \in 0..Ceiling /\ Ceiling \in Nat /\ held \in Nat /\ shown \in Nat
    BY <1>0, CeilingType DEF LegTypes, JobTypes
  <2> QED
    BY <1>3, <1>6, <2>1
<1>8. LotsFit'
  BY <1>0, <1>1, <1>6, <1>7 DEF LotsFit, Sized, C!Jobs
<1> QED
  BY <1>4, <1>5, <1>8 DEF Guarded

\* In its turn the poll's job has nothing to do, or begins to order the rest.
LEMMA RestStartFits ==
    ASSUME CopyConstants, LegInv, C!RestStart
    PROVE  LegTypes' /\ JobTypes' /\ Guarded'
<1> USE DEF LegInv, C!market
<1>0. /\ C!Poller \in C!Jobs /\ job[C!Poller].target \in Nat
      /\ held \in Nat /\ held' \in Nat /\ shown \in Nat
      /\ job[C!Poller].step = "wait" /\ Waits(C!Poller)
      /\ UNCHANGED <<master, peak, counted, held, shown, inflight, legCloser, unguarded>>
  BY CeilingType DEF C!RestStart, C!Jobs, JobTypes, LegTypes, Waits
<1>1. inflight' \in BOOLEAN /\ unguarded' \in BOOLEAN
  BY Zenon, <1>0 DEF LegTypes
<1>2. CASE shown >= job[C!Poller].target
  <2>1. /\ C!Leave /\ C!OpenRow(job[C!Poller].key, job[C!Poller].target)
        /\ C!Finish(C!Poller)
    BY <1>2 DEF C!RestStart
  <2>2. IsFiniteSet(rows') /\ \A r \in rows' : r.qty \in Nat
    BY <1>0, <2>1, RowOpened
  <2>3. /\ LegTypes' /\ JobTypes' /\ job'[C!Poller].step \in {"idle", "done"}
        /\ \A k \in C!Jobs : k # C!Poller => job'[k] = job[k]
    BY <1>0, <1>1, <2>1, <2>2, FinishKeeps
  <2> QED
    BY <1>0, <2>1, <2>3, GuardOrders
<1>3. CASE ~(shown >= job[C!Poller].target)
  <2>1. PICK n : n = job[C!Poller].target - shown
    OBVIOUS
  <2>2. n \in Nat /\ shown < job[C!Poller].target
    BY <1>0, <1>3, <2>1
  <2>3. C!GoOn(C!Poller, "order", n) /\ chain' = chain /\ rows' = rows
    BY <1>3, <2>1 DEF C!RestStart
  <2>4. /\ LegTypes' /\ JobTypes' /\ job'[C!Poller].step = "order" /\ job'[C!Poller].lots = n
        /\ \A k \in C!Jobs : k # C!Poller => job'[k] = job[k]
    BY <1>0, <1>1, <2>2, <2>3, GoesOn
  <2> QED
    BY <1>0, <2>1, <2>2, <2>3, <2>4, GuardLooksAgain
<1> QED
  BY <1>2, <1>3

\* The poll's job that ordered, or failed to, leaves the chain.
LEMMA RestOrderFits ==
    ASSUME CopyConstants, LegInv, C!RestOrder
    PROVE  LegTypes' /\ JobTypes' /\ Guarded'
<1> USE DEF LegInv, C!market
<1>1. /\ C!Poller \in C!Jobs /\ C!Poller \notin Fills
      /\ job[C!Poller].step = "order" /\ Waits(C!Poller) /\ C!Leave
      /\ job[C!Poller].lots \in Nat
      /\ UNCHANGED <<master, peak, counted, shown, rows, legCloser, unguarded>>
      /\ held \in Nat /\ IsFiniteSet(rows) /\ \A r \in rows : r.qty \in Nat
  BY DEF C!RestOrder, JobTypes, LegTypes, C!Jobs, Waits
<1>2. inflight \in BOOLEAN /\ unguarded' \in BOOLEAN
  BY Zenon, <1>1 DEF LegTypes
<1>3. CASE /\ C!Buy(job[C!Poller].lots) /\ inflight' = TRUE
           /\ C!GoOn(C!Poller, "persist", job[C!Poller].lots)
  <2>1. held' = held + job[C!Poller].lots /\ held' \in Nat /\ inflight' \in BOOLEAN
    BY <1>1, <1>3 DEF C!Buy
  <2>2. /\ LegTypes' /\ JobTypes' /\ job'[C!Poller].step = "persist"
        /\ \A k \in C!Jobs : k # C!Poller => job'[k] = job[k]
    BY <1>1, <1>2, <1>3, <2>1, GoesOn
  <2> QED
    BY <1>1, <1>3, <2>1, <2>2, GuardOrders
<1>4. CASE C!Fail /\ C!Finish(C!Poller) /\ UNCHANGED inflight
  <2>1. held' = held /\ held' \in Nat /\ inflight' \in BOOLEAN
    BY <1>1, <1>2, <1>4 DEF C!Fail
  <2>2. /\ LegTypes' /\ JobTypes' /\ job'[C!Poller].step \in {"idle", "done"}
        /\ \A k \in C!Jobs : k # C!Poller => job'[k] = job[k]
    BY <1>1, <1>2, <1>4, <2>1, FinishKeeps
  <2> QED
    BY <1>1, <1>4, <2>1, <2>2, GuardOrders
<1> QED
  BY <1>3, <1>4 DEF C!RestOrder

\* A trim by the poll's job takes lots off, and clears the rows.
LEMMA TrimFits ==
    ASSUME CopyConstants, LegInv, C!Trim \/ C!TrimSize \/ C!Cut \/ C!Clear
    PROVE  LegTypes' /\ JobTypes' /\ Guarded'
<1> USE DEF LegInv, C!market
<1>0. /\ C!Poller \in C!Jobs /\ job[C!Poller].lots \in Nat /\ 0 \in Nat
      /\ shown \in Nat /\ held \in Nat /\ held <= held
      /\ IsFiniteSet(rows) /\ \A r \in rows : r.qty \in Nat
      /\ C!Poller \notin Fills
  BY DEF C!Jobs, JobTypes, LegTypes
<1>1. CASE C!Trim
  BY <1>0, <1>1, PassFits DEF C!Trim
<1>2. CASE C!TrimSize
  <2>1. PICK n : n = C!Smaller(job[C!Poller].lots, shown)
    OBVIOUS
  <2>2. n \in Nat
    BY <1>0, <2>1 DEF C!Smaller
  <2>3. /\ job[C!Poller].step = "size"
        /\ C!GoOn(C!Poller, "clear", 0) \/ C!GoOn(C!Poller, "cut", n)
        /\ UNCHANGED <<master, peak, counted, held, shown, rows, inflight, chain, legCloser,
                       unguarded>>
    BY <1>2, <2>1 DEF C!TrimSize
  <2> QED
    BY <1>0, <2>2, <2>3, GoFits
<1>3. CASE C!Cut
  <2>1. /\ job[C!Poller].step = "cut"
        /\ UNCHANGED <<master, peak, counted, shown, rows, inflight, chain, legCloser,
                       unguarded>>
    BY <1>3 DEF C!Cut
  <2>2. CASE C!Sell(job[C!Poller].lots) /\ C!GoOn(C!Poller, "clear", 0)
    <3>1. held' \in Nat /\ held' <= held
      BY <1>0, <2>2, SoldTypes
    <3> QED
      BY <1>0, <2>1, <2>2, <3>1, GoFits
  <2>3. CASE C!Fail /\ C!Finish(C!Poller)
    <3>1. held' = held
      BY <2>3 DEF C!Fail
    <3> QED
      BY <1>0, <2>1, <2>3, <3>1, EndFits
  <2> QED
    BY <1>3, <2>2, <2>3 DEF C!Cut
<1>4. CASE C!Clear
  <2>1. IsFiniteSet(rows') /\ \A r \in rows' : r.qty \in Nat
    BY <1>4, FS_EmptySet DEF C!Clear
  <2>2. /\ job[C!Poller].step = "clear" /\ C!Finish(C!Poller)
        /\ UNCHANGED <<master, peak, counted, held, shown, inflight, chain, legCloser,
                       unguarded>>
    BY <1>4 DEF C!Clear
  <2> QED
    BY <1>0, <2>1, <2>2, EndFits
<1> QED
  BY <1>1, <1>2, <1>3, <1>4

\* The steps of the poll's job keep the invariant.
LEMMA RestFits ==
    ASSUME CopyConstants, LegInv, C!RestStep
    PROVE  LegTypes' /\ JobTypes' /\ Guarded'
<1>0. C!Poller \in C!Jobs /\ C!Poller \notin Fills
  BY DEF C!Jobs
<1>1. ASSUME C!RestAgain PROVE LegTypes' /\ JobTypes' /\ Guarded'
  <2>1. C!Pass(C!Poller, "again", inflight, "enter")
    BY <1>1 DEF C!RestAgain
  <2> QED
    BY <1>0, <2>1, PassFits
<1> QED
  BY <1>0, <1>1, DecideFits, EnterFits, RestStartFits, RestOrderFits, PersistFits, TrimFits
     DEF C!RestStep

\* A step that leaves the jobs and the chain alone, and the lots that are read as numbers.
LEMMA NoJobStep ==
    ASSUME CopyConstants, LegInv, UNCHANGED <<peak, counted, inflight, chain, job, unguarded>>,
           master' \in Nat, master' <= peak, held' \in Nat, held' <= held,
           shown' = shown \/ shown' = held, tracked' \in Nat, lastRest' \in Nat,
           \/ poll' = poll
           \/ /\ job[C!Poller].step = "idle"
              /\ poll' \in Nat \cup {C!None} /\ poll' <= peak,
           legCloser'.lots \in Nat, rows' = rows \/ rows' = {}
    PROVE  LegTypes' /\ JobTypes' /\ Guarded'
<1> USE DEF LegInv
<1>1. IsFiniteSet(rows') /\ \A r \in rows' : r.qty \in Nat
  BY FS_EmptySet DEF LegTypes
<1>2. LegTypes'
  BY <1>1 DEF LegTypes
<1>3. Ceiling' = Ceiling
  BY DEF Ceiling, C!Larger
<1>4. JobTypes'
  BY <1>3 DEF JobTypes
<1>5. peak' >= peak /\ counted' >= counted
  BY DEF LegTypes
<1> QED
  BY <1>2, <1>4, <1>5, GuardStays DEF Waits, Sized, C!Deciding

\* The lots of a close are a number.
LEMMA CloseLots ==
    ASSUME NEW s, NEW n \in Nat PROVE C!CloseAt(s, n).lots \in Nat
BY DEF C!CloseAt, C!NoClose

\* A close or a trim that begins has a number of lots.
LEMMA BeginLots ==
    ASSUME NEW kind, NEW n \in Nat, C!Begin(kind, n) PROVE legCloser'.lots \in Nat
BY DEF C!Begin

\* Closing takes lots off, and leaves everything else alone.
LEMMA CloseFits ==
    ASSUME CopyConstants, LegInv, C!CloseStep
    PROVE  LegTypes' /\ JobTypes' /\ Guarded'
<1> USE DEF LegInv, C!market
<1>0. /\ master \in Nat /\ master <= peak /\ held \in Nat /\ shown \in Nat
      /\ tracked \in Nat /\ lastRest \in Nat /\ legCloser.lots \in Nat /\ 0 \in Nat
  BY DEF LegTypes
<1>1. CASE C!CloseRead
  <2>1. legCloser' = C!CloseAt("check", 0) \/ legCloser' = C!CloseAt("look", legCloser.lots)
    BY <1>1 DEF C!CloseRead
  <2>2. legCloser'.lots \in Nat
    BY <1>0, <2>1, CloseLots
  <2> QED
    BY <1>0, <1>1, <2>2, NoJobStep DEF C!CloseRead
<1>2. CASE C!CloseLook
  <2>1. PICK n : n = IF legCloser.kind \in {"ws", "trim"} THEN C!Smaller(legCloser.lots, shown)
                     ELSE shown
    OBVIOUS
  <2>2. n \in Nat
    BY <1>0, <2>1 DEF C!Smaller
  <2>3. legCloser' = C!CloseAt("check", 0) \/ legCloser' = C!CloseAt("order", n)
    BY <1>2, <2>1 DEF C!CloseLook
  <2>4. legCloser'.lots \in Nat
    BY <1>0, <2>2, <2>3, CloseLots
  <2>5. /\ rows' = rows \/ rows' = {}
        /\ UNCHANGED <<master, peak, counted, held, shown, inflight, chain, job, poll, tracked,
                       lastRest, unguarded>>
    BY <1>2 DEF C!CloseLook
  <2> QED
    BY <1>0, <2>4, <2>5, NoJobStep
<1>3. CASE C!CloseOrder
  <2>1. /\ legCloser' = C!CloseAt("rows", 0) \/ legCloser' = C!CloseAt("check", 0)
        /\ C!Sell(legCloser.lots) \/ C!Fail
        /\ UNCHANGED <<master, peak, counted, shown, rows, inflight, chain, job, poll, tracked,
                       lastRest, unguarded>>
    BY <1>3 DEF C!CloseOrder
  <2>2. legCloser'.lots \in Nat
    BY <1>0, <2>1, CloseLots
  <2>3. held' \in Nat /\ held' <= held
    BY <1>0, <2>1, SoldTypes DEF C!Fail
  <2> QED
    BY <1>0, <2>1, <2>2, <2>3, NoJobStep
<1>4. CASE C!CloseRows
  <2>1. legCloser' = C!CloseAt("check", 0)
    BY <1>4 DEF C!CloseRows
  <2>2. legCloser'.lots \in Nat
    BY <1>0, <2>1, CloseLots
  <2> QED
    BY <1>0, <1>4, <2>2, NoJobStep DEF C!CloseRows
<1>5. CASE C!CloseCheck
  <2>1. legCloser' = C!NoClose
    BY <1>5 DEF C!CloseCheck
  <2>2. legCloser'.lots \in Nat
    BY <2>1 DEF C!NoClose
  <2>3. tracked' \in Nat /\ lastRest' \in Nat
    BY <1>0, <1>5 DEF C!CloseCheck
  <2> QED
    BY <1>0, <1>5, <2>2, <2>3, NoJobStep DEF C!CloseCheck
<1> QED
  BY <1>1, <1>2, <1>3, <1>4, <1>5 DEF C!CloseStep

\* A fill raises the master's leg: what was fitting still fits.
LEMMA FillFits ==
    ASSUME CopyConstants, LegInv, NEW f \in Fills, C!Fill(f)
    PROVE  LegTypes' /\ JobTypes' /\ Guarded'
<1> USE DEF LegInv
<1>0. /\ f \in C!Jobs /\ f # C!Poller /\ JobsAreJobs /\ FillLots \in Nat
  BY DEF C!Jobs, ChainInv
<1>1. /\ master' = master + FillLots /\ peak' = C!Larger(peak, master + FillLots)
      /\ UNCHANGED <<held, shown, rows, inflight, chain, poll, tracked, counted, lastRest,
                     legCloser, unguarded>>
  BY DEF C!Fill
<1>2. /\ master' \in Nat /\ peak' \in Nat /\ master' <= peak' /\ peak' >= peak
      /\ counted' >= counted /\ held' <= held
  BY <1>0, <1>1 DEF LegTypes, C!Larger
<1>3. LegTypes'
  BY <1>1, <1>2 DEF LegTypes
<1>4. PICK r : r = C!At(C!Idle, "sent", 0)
  OBVIOUS
<1>5. r.step = "sent" /\ r.target = 0 /\ r.lots = 0
  <2>1. C!Idle.target = 0
    BY DEF C!Idle
  <2> QED
    BY <1>4, <2>1, AtFields
<1>6. job' = [job EXCEPT ![f] = r]
  BY <1>4 DEF C!Fill
<1>7. job'[f] = r /\ \A k \in C!Jobs : k # f => job'[k] = job[k]
  BY <1>0, <1>6, JobReplaced
<1>8. JobTypes'
  <2>1. Ceiling \in Nat /\ Ceiling' \in Nat /\ Ceiling <= Ceiling'
    BY <1>2, <1>3, CeilingGrows
  <2>2. r.target \in 0..Ceiling' /\ r.lots \in Nat
    BY <1>5, <2>1
  <2>3. \A j \in C!Jobs : job[j].target \in 0..Ceiling' /\ job[j].lots \in Nat
    BY <2>1 DEF JobTypes
  <2>4. \A j \in C!Jobs : job'[j].target \in 0..Ceiling' /\ job'[j].lots \in Nat
    BY <1>7, <2>2, <2>3
  <2>5. job'[C!Poller] = job[C!Poller] /\ poll' = poll
    BY <1>0, <1>1, <1>7 DEF C!Jobs
  <2> QED
    BY <2>4, <2>5 DEF JobTypes
<1>9. \A k \in C!Jobs : /\ Waits(k)' => Waits(k)
                        /\ C!Deciding(k)' => C!Deciding(k)
  BY <1>5, <1>7 DEF Waits, C!Deciding
<1>10. \A k \in Fills : Sized(k)' => Sized(k) /\ job'[k].lots = job[k].lots
  BY <1>5, <1>7 DEF Sized, C!Jobs
<1>11. job'[C!Poller] = job[C!Poller]
  BY <1>0, <1>7 DEF C!Jobs
<1> QED
  BY <1>1, <1>2, <1>3, <1>8, <1>9, <1>10, <1>11, GuardStays

\* The master's reductions, and its messages about the size of the leg, move no job.
LEMMA MasterFits ==
    ASSUME CopyConstants, LegInv
    PROVE  /\ \A k \in Nat : C!Reduce(k) => LegTypes' /\ JobTypes' /\ Guarded'
           /\ C!SizeMessage \/ C!FlatMessage => LegTypes' /\ JobTypes' /\ Guarded'
<1> USE DEF LegInv, C!market
<1>0. /\ master \in Nat /\ peak \in Nat /\ master <= peak /\ held \in Nat /\ shown \in Nat
      /\ tracked \in Nat /\ lastRest \in Nat /\ legCloser.lots \in Nat
  BY DEF LegTypes
<1>1. C!CloseMessage => legCloser'.lots \in Nat
  BY <1>0, BeginLots DEF C!CloseMessage, C!BeginClose
<1>2. ASSUME NEW k \in Nat, C!Reduce(k) PROVE LegTypes' /\ JobTypes' /\ Guarded'
  <2>1. /\ master' = master - k /\ k <= master
        /\ C!CloseMessage \/ legCloser' = legCloser
        /\ UNCHANGED <<peak, counted, held, shown, rows, inflight, chain, job, poll, tracked,
                       lastRest, unguarded>>
    BY <1>2 DEF C!Reduce
  <2>2. master' \in Nat /\ master' <= peak
    BY <1>0, <2>1
  <2> QED
    BY <1>0, <1>1, <2>1, <2>2, NoJobStep
<1>3. CASE C!SizeMessage
  <2>1. /\ tracked' = master
        /\ \/ /\ tracked > master /\ C!Begin("trim", tracked - master) /\ lastRest' = master
           \/ UNCHANGED <<legCloser, lastRest>>
        /\ UNCHANGED <<master, peak, counted, held, shown, rows, inflight, chain, job, poll,
                       unguarded>>
    BY <1>3 DEF C!SizeMessage
  <2>2. legCloser'.lots \in Nat /\ lastRest' \in Nat
    <3>1. tracked > master => tracked - master \in Nat
      BY <1>0
    <3> QED
      BY <1>0, <2>1, <3>1, BeginLots
  <2> QED
    BY <1>0, <2>1, <2>2, NoJobStep
<1>4. CASE C!FlatMessage
  BY <1>0, <1>1, <1>4, NoJobStep DEF C!FlatMessage
<1> QED
  BY <1>2, <1>3, <1>4

\* A window that ends over a waiting job, or over lots the endpoint does not show yet, did
\* not cover a decision.
LEMMA ExpireFits ==
    ASSUME CopyConstants, LegInv, C!Expire
    PROVE  LegTypes' /\ JobTypes' /\ Guarded'
<1> USE DEF LegInv, C!market, C!engine
<1>1. /\ inflight /\ inflight' = FALSE
      /\ unguarded' = (unguarded \/ chain # <<>> \/ shown # held)
      /\ UNCHANGED <<master, peak, counted, held, shown, rows, chain, job, poll, tracked,
                     lastRest, legCloser>>
  BY DEF C!Expire
<1>2. unguarded' \in BOOLEAN /\ inflight' \in BOOLEAN
  BY <1>1
<1>3. LegTypes'
  BY <1>1, <1>2 DEF LegTypes
<1>4. Ceiling' = Ceiling
  BY <1>1 DEF Ceiling, C!Larger
<1>5. JobTypes'
  BY <1>1, <1>4 DEF JobTypes
<1> SUFFICES ASSUME ~unguarded' PROVE Guarded'
  BY <1>3, <1>5 DEF Guarded
<1>6. OneAtATime /\ LotsFit /\ chain = <<>> /\ shown = held
  BY <1>1 DEF Guarded
<1>7. OneAtATime'
  BY <1>1, <1>6 DEF OneAtATime, Waits, C!Deciding
<1>8. NothingHidden'
  BY <1>1, <1>6 DEF NothingHidden, LegTypes
<1>9. LotsFit'
  BY <1>1, <1>4, <1>6 DEF LotsFit, Sized
<1> QED
  BY <1>3, <1>7, <1>8, <1>9 DEF Guarded

\* The poll begins a job for a leg that it fetched.
LEMMA PollFits ==
    ASSUME CopyConstants, LegInv, C!PollOpen
    PROVE  LegTypes' /\ JobTypes' /\ Guarded'
<1> USE DEF LegInv, C!market
<1>0. /\ C!Poller \in C!Jobs /\ C!Poller \notin Fills /\ JobsAreJobs
      /\ poll \in Nat /\ poll > 0 /\ poll <= peak /\ lastRest \in Nat /\ peak \in Nat
      /\ poll <= Ceiling /\ Ceiling \in Nat
      /\ job[C!Poller].step = "idle"
  BY CeilingType DEF C!Jobs, ChainInv, LegTypes, C!PollOpen, C!None
<1>1. UNCHANGED <<master, peak, counted, held, shown, rows, inflight, chain, tracked, lastRest,
                  legCloser, unguarded>>
  BY DEF C!PollOpen
<1>2. CASE poll' = C!None /\ UNCHANGED job
  <2>1. C!None \in Nat \cup {C!None} /\ C!None <= peak
    BY <1>0 DEF C!None
  <2> QED
    BY <1>0, <1>1, <1>2, <2>1, NoJobStep DEF LegTypes
<1>3. ASSUME NEW r, job' = [job EXCEPT ![C!Poller] = r], poll' = poll,
             \/ /\ r.step = "trim" /\ r.target = 0 /\ r.lots = lastRest - poll
                /\ lastRest > poll
             \/ r.step = "lock" /\ r.target = poll /\ r.lots = 0
      PROVE  LegTypes' /\ JobTypes' /\ Guarded'
  <2>1. job'[C!Poller] = r /\ \A k \in C!Jobs : k # C!Poller => job'[k] = job[k]
    BY <1>0, <1>3, JobReplaced
  <2>2. LegTypes'
    BY <1>1, <1>3 DEF LegTypes
  <2>3. r.target \in 0..Ceiling /\ r.lots \in Nat
    BY <1>0, <1>3
  <2>4. JobTypes'
    BY <1>0, <1>1, <1>3, <2>1, <2>3, OneJob
  <2>5. \A k \in C!Jobs : /\ Waits(k)' => Waits(k)
                          /\ C!Deciding(k)' => C!Deciding(k)
    BY <1>3, <2>1 DEF Waits, C!Deciding
  <2>6. \A f \in Fills : Sized(f)' => Sized(f) /\ job'[f].lots = job[f].lots
    BY <1>0, <2>1 DEF Sized, C!Jobs
  <2>7. job'[C!Poller].step # "order" /\ held' <= held /\ peak' >= peak /\ counted' >= counted
    BY <1>1, <1>3, <2>1 DEF LegTypes
  <2> QED
    BY <1>1, <2>2, <2>4, <2>5, <2>6, <2>7, GuardStays
<1> QED
  BY <1>2, <1>3, PollJob

\* Every step keeps the invariant.
LEMMA NextLegInv ==
    ASSUME CopyConstants
    PROVE  LegInv /\ [C!Next]_(C!vars) => LegInv'
<1> SUFFICES ASSUME LegInv, [C!Next]_(C!vars) PROVE LegInv'
  OBVIOUS
<1>0. ChainInv'
  BY NextKeeps DEF LegInv
<1>1. /\ master \in Nat /\ master <= peak /\ held \in Nat /\ shown \in Nat /\ peak \in Nat
      /\ tracked \in Nat /\ lastRest \in Nat /\ legCloser.lots \in Nat
      /\ C!None \in Nat \cup {C!None} /\ C!None <= peak
  BY DEF LegInv, LegTypes, C!None
<1>2. CASE \E f \in Fills : C!Fill(f) \/ C!LiveStep(f)
  BY <1>0, <1>2, FillFits, LiveFits DEF LegInv
<1>3. CASE \E k \in C!Lots : C!Reduce(k)
  <2>1. PICK k \in C!Lots : C!Reduce(k)
    BY <1>3
  <2>2. k \in Nat
    BY <1>1, <2>1 DEF C!Reduce, C!Lots
  <2> QED
    BY <1>0, <2>1, <2>2, MasterFits DEF LegInv
<1>4. CASE C!SizeMessage \/ C!FlatMessage
  BY <1>0, <1>4, MasterFits DEF LegInv
<1>5. CASE C!Settle
  BY <1>0, <1>1, <1>5, NoJobStep DEF C!Settle, C!market, C!engine, LegInv
<1>6. CASE C!Expire
  BY <1>0, <1>6, ExpireFits DEF LegInv
<1>7. CASE C!Unlock
  BY <1>0, <1>1, <1>7, NoJobStep DEF C!Unlock, C!market, LegInv
<1>8. CASE C!PollRead
  <2>1. poll = C!None /\ poll' = master
    BY <1>8 DEF C!PollRead
  <2>2. job[C!Poller].step = "idle"
    BY <2>1 DEF C!None, LegInv, JobTypes
  <2> QED
    BY <1>0, <1>1, <1>8, <2>1, <2>2, NoJobStep DEF C!PollRead, C!market, LegInv
<1>9. CASE C!PollOpen
  BY <1>0, <1>9, PollFits DEF LegInv
<1>10. CASE C!PollMissing
  <2>1. poll' = C!None /\ poll = 0 /\ job[C!Poller].step = "idle"
    BY <1>10 DEF C!PollMissing, LegInv, JobTypes
  <2>2. legCloser'.lots \in Nat
    <3>1. C!BeginClose("rest", 0) \/ C!BeginClose("orphan", 0) \/ legCloser' = legCloser
      BY <1>10 DEF C!PollMissing
    <3> QED
      BY <1>1, <3>1, BeginLots DEF C!BeginClose
  <2> QED
    BY <1>0, <1>1, <1>10, <2>1, <2>2, NoJobStep DEF C!PollMissing, C!market, LegInv
<1>11. CASE C!RestStep
  BY <1>0, <1>11, RestFits DEF LegInv
<1>12. CASE C!CloseStep
  BY <1>0, <1>12, CloseFits DEF LegInv
<1>13. CASE UNCHANGED C!vars
  BY <1>0, <1>1, <1>13, NoJobStep DEF C!vars, LegInv
<1> QED
  BY <1>2, <1>3, <1>4, <1>5, <1>6, <1>7, <1>8, <1>9, <1>10, <1>11, <1>12, <1>13 DEF C!Next

\* Nobody waits and nothing is held at the start.
LEMMA InitLegInv ==
    ASSUME CopyConstants PROVE C!Init => LegInv
<1> SUFFICES ASSUME C!Init PROVE LegInv
  OBVIOUS
<1>1. ChainInv
  BY InitChain
<1>2. C!Idle.step = "idle" /\ C!Idle.target = 0 /\ C!Idle.lots = 0 /\ C!NoClose.lots = 0
  BY DEF C!Idle, C!NoClose
<1>3. \A j \in C!Jobs : job[j].step = "idle" /\ job[j].target = 0 /\ job[j].lots = 0
  BY <1>2 DEF C!Init
<1>4. LegTypes
  <2>1. IsFiniteSet(rows) /\ \A r \in rows : r.qty \in Nat
    BY FS_EmptySet DEF C!Init
  <2>2. legCloser.lots \in Nat
    BY <1>2 DEF C!Init
  <2>3. inflight \in BOOLEAN /\ unguarded \in BOOLEAN
    BY Zenon DEF C!Init
  <2>4. /\ master = 0 /\ peak = 0 /\ held = 0 /\ shown = 0 /\ tracked = 0 /\ lastRest = 0
        /\ counted = 0 /\ poll = -1
    BY DEF C!Init, C!None
  <2> QED
    BY <2>1, <2>2, <2>3, <2>4 DEF LegTypes, C!None
<1>5. Ceiling \in Nat
  BY <1>4, CeilingType
<1>6. JobTypes
  BY <1>3, <1>5 DEF JobTypes, C!Init, C!Jobs
<1>7. Guarded
  BY <1>3, <1>5 DEF Guarded, OneAtATime, NothingHidden, LotsFit, Sized, Waits, C!Deciding,
                    C!Init, C!Jobs
<1> QED
  BY <1>1, <1>4, <1>6, <1>7 DEF LegInv

\* The follower never holds more than the master ever had, or than a fill's message made of
\* the tracker and its lots, unless a window did not cover a decision: it was not open yet
\* when another path decided, or ended before the lots were shown; or the endpoint did not
\* answer (followerBotOpenDeficitLots, markFollowerCopyInflight, the chain).
THEOREM OverfillNeedsAMissedWindow ==
    ASSUME CopyConstants
    PROVE  C!Spec => []C!OverfillNeedsAnUnguardedDecision
<1>1. LegInv => C!OverfillNeedsAnUnguardedDecision
  <2> SUFFICES ASSUME LegInv, ~unguarded PROVE held <= C!Larger(peak, counted)
    <3>1. LegInv => held \in Nat /\ Ceiling \in Nat
      BY CeilingType DEF LegInv, LegTypes
    <3> QED
      BY <3>1 DEF C!OverfillNeedsAnUnguardedDecision, Ceiling
  <2> QED
    BY DEF LegInv, Guarded, LotsFit, Ceiling
<1> QED
  BY InitLegInv, NextLegInv, <1>1, PTL DEF C!Spec

-----------------------------------------------------------------------------
(* The types of a leg, and who waits in its chain *)

\* The bounds of the module that the counters need.
CopyBounds == IsFiniteSet(Fills) /\ OtherLegs \subseteq BOOLEAN /\ MaxUpsets \in Nat

\* A job that orders or records lots has some; live jobs never look again.
LiveJobOK(f) ==
    /\ job[f].step \in C!JobSteps \ {"order"}
    /\ job[f].step = "idle" => job[f] = C!Idle
    /\ job[f].step \in {"run", "enter", "wait", "persist"} => job[f].lots > 0
PollJobOK ==
    /\ job[C!Poller].step \in C!JobSteps
    /\ job[C!Poller].step \in {"lock", "test", "db", "look", "again", "enter", "wait", "order",
                               "persist"} => job[C!Poller].target > 0
    /\ job[C!Poller].step \in {"order", "persist"} => job[C!Poller].lots > 0
JobOK(j) == (j \in Fills => LiveJobOK(j)) /\ (j = C!Poller => PollJobOK)
JobsOK == \A j \in C!Jobs : JobOK(j)

\* The chain holds the jobs that wait, each once.
InChain(j) == \E i \in DOMAIN chain : chain[i] = j
ChainHoldsWaiting ==
    /\ \A j \in C!Jobs : Waits(j) <=> InChain(j)
    /\ \A i, k \in DOMAIN chain : chain[i] = chain[k] => i = k

\* The master's leg was never larger than what was filled.
FilledFills == { f \in Fills : job[f] # C!Idle }
PeakCounted == peak <= FillLots * Cardinality(FilledFills)

RowsOK == \A r, s \in rows : r.qty > 0 /\ (r.key = s.key => r = s)

CountersOK ==
    /\ {reduces, failures} \subseteq 0..MaxUpsets
    /\ others \in BOOLEAN /\ legClosing \in BOOLEAN
    /\ legCloser.kind \in {"none", "ws", "trim", "rest", "orphan"}
    /\ legCloser.step \in {"none", "read", "look", "order", "rows", "check"}

LegTypeInv == LegInv /\ JobsOK /\ ChainHoldsWaiting /\ PeakCounted /\ RowsOK /\ CountersOK

\* How a step may move one job: along, into the chain or out of it.
Moves(j) ==
    /\ \A k \in C!Jobs : k # j => job'[k] = job[k]
    /\ JobOK(j)'
    /\ j \in Fills => job'[j].step # "idle"
Along(j) == Moves(j) /\ chain' = chain /\ (Waits(j)' <=> Waits(j))
Enters(j) == Moves(j) /\ chain' = Append(chain, j) /\ ~Waits(j) /\ Waits(j)'
Leaves(j) == Moves(j) /\ C!Turn(j) /\ C!Leave /\ ~Waits(j)'
JobMoves(j) == Along(j) \/ Enters(j) \/ Leaves(j)

\* What a step may do to the rows.
RowsMove ==
    \/ rows' = rows \/ rows' = {}
    \/ \E key, qty : qty \in Nat /\ qty > 0 /\ C!OpenRow(key, qty)

\* A job that ends moves on.
LEMMA FinishMoves ==
    ASSUME CopyConstants, LegTypeInv, NEW j \in C!Jobs, C!Finish(j)
    PROVE  Moves(j) /\ ~Waits(j)'
<1>1. /\ job'[j].step \in {"idle", "done"} /\ job'[j].target = 0 /\ job'[j].lots = 0
      /\ \A k \in C!Jobs : k # j => job'[k] = job[k]
      /\ j = C!Poller => job'[j].step = "idle"
  BY FinishFields DEF LegTypeInv, LegInv, ChainInv
<1>2. j \in Fills => job'[j].step = "done"
  <2>1. C!Done.step = "done"
    BY DEF C!Done, C!At
  <2>2. j \in Fills => job'[j] = C!Done
    BY JobReplaced DEF C!Finish, LegTypeInv, LegInv, ChainInv
  <2> QED
    BY <2>1, <2>2
<1>3. JobOK(j)'
  BY <1>1, <1>2 DEF JobOK, LiveJobOK, PollJobOK, C!JobSteps
<1> QED
  BY <1>1, <1>2, <1>3 DEF Moves, Waits

\* A job that goes on to a step with some lots keeps what it aims at.
Proceeds(j, s, n) ==
    /\ job'[j].step = s /\ job'[j].lots = n /\ job'[j].target = job[j].target
    /\ \A k \in C!Jobs : k # j => job'[k] = job[k]

\* A job replaced by itself at another step proceeds.
LEMMA AtProceeds ==
    ASSUME CopyConstants, LegTypeInv, NEW j \in C!Jobs, NEW s, NEW n,
           job' = [job EXCEPT ![j] = C!At(job[j], s, n)]
    PROVE  Proceeds(j, s, n)
<1>1. JobsAreJobs
  BY DEF LegTypeInv, LegInv, ChainInv
<1>2. /\ job'[j].step = s /\ job'[j].target = job[j].target /\ job'[j].lots = n
      /\ \A k \in C!Jobs : k # j => job'[k] = job[k]
  BY <1>1, StepWritten
<1> QED
  BY <1>2 DEF Proceeds

\* A job that goes on moves on.
LEMMA GoingOnMoves ==
    ASSUME CopyConstants, LegTypeInv, NEW j \in C!Jobs, NEW s \in C!JobSteps \ {"idle"},
           NEW n \in Nat, Proceeds(j, s, n),
           s \in {"order", "persist"} => n > 0,
           j \in Fills => s # "order" /\ (s \in {"run", "enter", "wait"} => n > 0),
           j = C!Poller => s \in {"trim", "size", "cut", "clear", "done"} \/ job[j].target > 0
    PROVE  Moves(j) /\ (Waits(j)' <=> s \in {"wait", "order"})
<1>1. JobOK(j)'
  BY DEF JobOK, LiveJobOK, PollJobOK, C!JobSteps, Proceeds
<1> QED
  BY <1>1 DEF Moves, Waits, Proceeds

\* A job outside the chain ends, or goes on outside it.
LEMMA StepOnMoves ==
    ASSUME CopyConstants, LegTypeInv, NEW j \in C!Jobs, ~Waits(j), chain' = chain,
           NEW s \in C!JobSteps \ {"idle", "wait", "order"}, NEW n \in Nat,
           C!Finish(j) \/ C!GoOn(j, s, n),
           s = "persist" => n > 0,
           j \in Fills => (s \in {"run", "enter"} => n > 0),
           j = C!Poller => s \in {"trim", "size", "cut", "clear", "done"} \/ job[j].target > 0
    PROVE  JobMoves(j)
<1>1. CASE C!Finish(j)
  BY <1>1, FinishMoves DEF JobMoves, Along
<1>2. CASE C!GoOn(j, s, n)
  <2>1. Proceeds(j, s, n)
    BY <1>2, AtProceeds DEF C!GoOn
  <2>2. Moves(j) /\ ~Waits(j)'
    BY <2>1, GoingOnMoves
  <2> QED
    BY <2>2 DEF JobMoves, Along
<1> QED
  BY <1>1, <1>2

\* A job at a guard passes it, or ends under it.
LEMMA PassMoves ==
    ASSUME CopyConstants, LegTypeInv, NEW j \in C!Jobs, NEW s, NEW guard,
           NEW t \in C!JobSteps \ {"idle", "wait", "order", "persist"}, C!Pass(j, s, guard, t),
           s \notin {"idle", "wait", "order"},
           j \in Fills => (t \in {"run", "enter"} => job[j].lots > 0),
           j = C!Poller => t \in {"trim", "size", "cut", "clear", "done"} \/ job[j].target > 0
    PROVE  JobMoves(j) /\ job[j].step # "idle" /\ RowsMove
<1>1. /\ job[j].step = s /\ ~Waits(j) /\ chain' = chain /\ rows' = rows
      /\ C!Finish(j) \/ C!GoOn(j, t, job[j].lots)
      /\ job[j].lots \in Nat
  BY DEF C!Pass, Waits, LegTypeInv, LegInv, JobTypes
<1> QED
  BY <1>1, StepOnMoves DEF RowsMove

\* A job that decides moves along, outside the chain.
LEMMA DecideMoves ==
    ASSUME CopyConstants, LegTypeInv, NEW j \in C!Jobs, C!Decide(j)
    PROVE  JobMoves(j) /\ job[j].step # "idle" /\ RowsMove
<1>0. /\ JobOK(j) /\ LegTypes /\ JobTypes /\ shown \in Nat /\ C!Db \in Nat
      /\ job[j].lots \in Nat /\ job[j].target \in Nat /\ FillLots \in Nat \ {0}
  BY RowLots, CeilingType DEF LegTypeInv, LegInv, JobsOK, JobTypes, LegTypes
<1>1. job[j].step \in {"lock", "test", "db", "look"} /\ (j = C!Poller => job[j].target > 0)
  BY <1>0 DEF C!Decide, C!TestLock, C!TestWindow, C!ReadRows, C!ReadLeg, C!Pass, JobOK,
              PollJobOK
<1>2. {"test", "db", "look", "run", "again"} \subseteq
          C!JobSteps \ {"idle", "wait", "order", "persist"}
  BY DEF C!JobSteps
<1>3. CASE C!TestLock(j)
  BY <1>1, <1>2, <1>3, PassMoves DEF C!TestLock
<1>4. CASE C!TestWindow(j)
  BY <1>1, <1>2, <1>4, PassMoves DEF C!TestWindow
<1>5. ASSUME NEW s \in {"look", "run", "again"}, NEW n \in Nat,
             C!Finish(j) \/ C!GoOn(j, s, n), chain' = chain, rows' = rows,
             s = "run" => n > 0
      PROVE  JobMoves(j) /\ job[j].step # "idle" /\ RowsMove
  BY <1>1, <1>2, <1>5, StepOnMoves DEF RowsMove, Waits
<1>6. CASE C!ReadRows(j)
  BY <1>0, <1>5, <1>6 DEF C!ReadRows
<1>7. CASE C!ReadLeg(j)
  <2>1. PICK n \in {0, shown} :
            IF C!Missing(j, n) = 0
            THEN C!Finish(j)
            ELSE IF j \in Fills
            THEN C!GoOn(j, "run", C!Smaller(FillLots, C!Missing(j, n)))
            ELSE C!GoOn(j, "again", 0)
    BY <1>7 DEF C!ReadLeg
  <2>2. chain' = chain /\ rows' = rows
    BY <1>7 DEF C!ReadLeg
  <2>3. PICK d : d = C!Missing(j, n)
    OBVIOUS
  <2>4. d \in Nat
    BY <1>0, <2>3, MissingFits
  <2>5. PICK m : m = C!Smaller(FillLots, d)
    OBVIOUS
  <2>6. m \in Nat /\ (d # 0 => m > 0)
    BY <1>0, <2>4, <2>5 DEF C!Smaller
  <2>7. C!Finish(j) \/ (d # 0 /\ C!GoOn(j, "run", m)) \/ C!GoOn(j, "again", 0)
    BY <2>1, <2>3, <2>5
  <2> QED
    BY <1>5, <2>2, <2>6, <2>7
<1> QED
  BY <1>3, <1>4, <1>6, <1>7 DEF C!Decide

\* A job joins the chain.
LEMMA EnterMoves ==
    ASSUME CopyConstants, LegTypeInv, NEW j \in C!Jobs, C!Enter(j)
    PROVE  JobMoves(j) /\ job[j].step # "idle" /\ RowsMove
<1>1. /\ job[j].step = "enter" /\ chain' = Append(chain, j) /\ rows' = rows
      /\ job' = [job EXCEPT ![j] = C!At(job[j], "wait", job[j].lots)]
      /\ job[j].lots \in Nat
      /\ (j \in Fills => job[j].lots > 0) /\ (j = C!Poller => job[j].target > 0)
  BY DEF C!Enter, LegTypeInv, LegInv, JobTypes, JobsOK, JobOK, LiveJobOK, PollJobOK
<1>2. Proceeds(j, "wait", job[j].lots)
  BY <1>1, AtProceeds
<1>3. "wait" \in C!JobSteps \ {"idle"}
  BY DEF C!JobSteps
<1>4. Moves(j) /\ Waits(j)'
  BY <1>1, <1>2, <1>3, GoingOnMoves
<1> QED
  BY <1>1, <1>4 DEF JobMoves, Enters, Waits, RowsMove

\* A job that has ordered opens its row.
LEMMA PersistMoves ==
    ASSUME CopyConstants, LegTypeInv, NEW j \in C!Jobs, C!Persist(j)
    PROVE  JobMoves(j) /\ job[j].step # "idle" /\ RowsMove
<1>1. /\ job[j].step = "persist" /\ job[j].lots \in Nat /\ job[j].lots > 0
      /\ j \notin Fills => job[j].target \in Nat /\ job[j].target > 0
      /\ C!Finish(j) /\ chain' = chain
  BY CeilingType DEF C!Persist, LegTypeInv, LegInv, JobTypes, JobsOK, JobOK, LiveJobOK,
                     PollJobOK, C!Jobs
<1>2. PICK qty \in {job[j].lots} \cup (IF j \in Fills THEN {} ELSE {job[j].target}) :
          C!OpenRow(job[j].key, qty)
  BY DEF C!Persist
<1>3. qty \in Nat /\ qty > 0
  BY <1>1, <1>2
<1> QED
  BY <1>1, <1>2, <1>3, FinishMoves DEF JobMoves, Along, Waits, RowsMove

\* A fill's job begins.
LEMMA FillMoves ==
    ASSUME CopyConstants, LegTypeInv, NEW f \in Fills, C!Fill(f)
    PROVE  Along(f) /\ job[f] = C!Idle /\ job'[f] # C!Idle
<1>0. f \in C!Jobs /\ f # C!Poller /\ job[f] = C!Idle /\ chain' = chain
  BY DEF C!Jobs, C!Fill
<1>1. C!Idle.step = "idle"
  BY DEF C!Idle
<1>2. PICK r : r = C!At(C!Idle, "sent", 0)
  OBVIOUS
<1>3. r.step = "sent" /\ job' = [job EXCEPT ![f] = r]
  BY <1>2, AtFields DEF C!Fill
<1>4. job'[f] = r /\ \A k \in C!Jobs : k # f => job'[k] = job[k]
  BY <1>0, <1>3, JobReplaced DEF LegTypeInv, LegInv, ChainInv
<1>5. JobOK(f)'
  BY <1>0, <1>3, <1>4 DEF JobOK, LiveJobOK, C!JobSteps
<1> QED
  BY <1>0, <1>1, <1>3, <1>4, <1>5 DEF Along, Moves, Waits

\* The message of a fill makes a job of it, or ends it.
LEMMA ReceiveMoves ==
    ASSUME CopyConstants, LegTypeInv, NEW f \in Fills, C!Receive(f)
    PROVE  JobMoves(f) /\ job[f].step # "idle" /\ RowsMove
<1>0. /\ f \in C!Jobs /\ f # C!Poller /\ job[f].step = "sent" /\ chain' = chain
      /\ rows' = rows
  BY DEF C!Jobs, C!Receive
<1>1. PICK r : job' = [job EXCEPT ![f] = r] /\ r.step \in {"lock", "done"}
  BY ReceiveJob
<1>2. job'[f] = r /\ \A k \in C!Jobs : k # f => job'[k] = job[k]
  BY <1>0, <1>1, JobReplaced DEF LegTypeInv, LegInv, ChainInv
<1>3. JobOK(f)'
  BY <1>0, <1>1, <1>2 DEF JobOK, LiveJobOK, C!JobSteps
<1> QED
  BY <1>0, <1>1, <1>2, <1>3 DEF JobMoves, Along, Moves, Waits, RowsMove

\* A live job moves along, into the chain or out of it.
LEMMA LiveMoves ==
    ASSUME CopyConstants, LegTypeInv, NEW f \in Fills, C!LiveStep(f)
    PROVE  JobMoves(f) /\ job[f].step # "idle" /\ RowsMove
<1>0. /\ f \in C!Jobs /\ f # C!Poller /\ LiveJobOK(f) /\ job[f].lots \in Nat
  BY DEF C!Jobs, LegTypeInv, LegInv, JobsOK, JobOK, JobTypes
<1>1. CASE C!LiveRun(f)
  <2>1. C!Pass(f, "run", legClosing, "enter") /\ job[f].lots > 0
    BY <1>0, <1>1 DEF C!LiveRun, C!Pass, LiveJobOK
  <2>2. "enter" \in C!JobSteps \ {"idle", "wait", "order", "persist"}
    BY DEF C!JobSteps
  <2> QED
    BY <1>0, <2>1, <2>2, PassMoves
<1>2. CASE C!LiveOrder(f)
  <2>1. job[f].step = "wait" /\ job[f].lots > 0 /\ rows' = rows /\ C!Turn(f) /\ C!Leave
    BY <1>0, <1>2 DEF C!LiveOrder, C!Place, LiveJobOK
  <2>2. CASE C!GoOn(f, "persist", job[f].lots)
    <3>1. Proceeds(f, "persist", job[f].lots)
      BY <1>0, <2>2, AtProceeds DEF C!GoOn
    <3>2. "persist" \in C!JobSteps \ {"idle"}
      BY DEF C!JobSteps
    <3>3. Moves(f) /\ ~Waits(f)'
      BY <1>0, <2>1, <3>1, <3>2, GoingOnMoves
    <3> QED
      BY <2>1, <3>3 DEF JobMoves, Leaves, RowsMove
  <2>3. CASE C!Finish(f)
    BY <1>0, <2>1, <2>3, FinishMoves DEF JobMoves, Leaves, RowsMove
  <2> QED
    BY <1>2, <2>2, <2>3 DEF C!LiveOrder, C!Place
<1> QED
  BY <1>0, <1>1, <1>2, ReceiveMoves, DecideMoves, EnterMoves, PersistMoves DEF C!LiveStep

\* The poll's job orders in its turn, or finds nothing to order.
LEMMA RestOrderMoves ==
    ASSUME CopyConstants, LegTypeInv, C!RestStart \/ C!RestOrder
    PROVE  JobMoves(C!Poller) /\ RowsMove
<1>0. /\ C!Poller \in C!Jobs /\ C!Poller \notin Fills /\ PollJobOK
      /\ job[C!Poller].lots \in Nat /\ job[C!Poller].target \in Nat /\ shown \in Nat
      /\ {"order", "persist"} \subseteq C!JobSteps \ {"idle"}
  BY CeilingType
     DEF C!Jobs, C!JobSteps, LegTypeInv, LegInv, JobsOK, JobOK, JobTypes, LegTypes
<1>1. CASE C!RestStart
  <2>1. job[C!Poller].step = "wait" /\ job[C!Poller].target > 0 /\ C!Turn(C!Poller)
    BY <1>0, <1>1 DEF C!RestStart, PollJobOK
  <2>2. CASE shown >= job[C!Poller].target
    <3>1. /\ C!Leave /\ C!Finish(C!Poller)
          /\ C!OpenRow(job[C!Poller].key, job[C!Poller].target)
      BY <1>1, <2>2 DEF C!RestStart
    <3>2. RowsMove
      BY <1>0, <2>1, <3>1 DEF RowsMove
    <3> QED
      BY <1>0, <2>1, <3>1, <3>2, FinishMoves DEF JobMoves, Leaves
  <2>3. CASE ~(shown >= job[C!Poller].target)
    <3>1. PICK n : n = job[C!Poller].target - shown
      OBVIOUS
    <3>2. n \in Nat /\ n > 0
      BY <1>0, <2>3, <3>1
    <3>3. C!GoOn(C!Poller, "order", n) /\ chain' = chain /\ rows' = rows
      BY <1>1, <2>3, <3>1 DEF C!RestStart
    <3>4. Proceeds(C!Poller, "order", n)
      BY <1>0, <3>3, AtProceeds DEF C!GoOn
    <3>5. Moves(C!Poller) /\ Waits(C!Poller)'
      BY <1>0, <2>1, <3>2, <3>4, GoingOnMoves
    <3> QED
      BY <2>1, <3>3, <3>5 DEF JobMoves, Along, Waits, RowsMove
  <2> QED
    BY <2>2, <2>3
<1>2. CASE C!RestOrder
  <2>1. /\ job[C!Poller].step = "order" /\ job[C!Poller].lots > 0
        /\ job[C!Poller].target > 0 /\ rows' = rows /\ C!Leave
    BY <1>0, <1>2 DEF C!RestOrder, PollJobOK
  <2>2. C!Turn(C!Poller)
    BY <2>1 DEF LegTypeInv, LegInv, ChainInv, OrdersInTurn
  <2>3. CASE C!GoOn(C!Poller, "persist", job[C!Poller].lots)
    <3>1. Proceeds(C!Poller, "persist", job[C!Poller].lots)
      BY <1>0, <2>3, AtProceeds DEF C!GoOn
    <3>2. Moves(C!Poller) /\ ~Waits(C!Poller)'
      BY <1>0, <2>1, <3>1, GoingOnMoves
    <3> QED
      BY <2>1, <2>2, <3>2 DEF JobMoves, Leaves, RowsMove
  <2>4. CASE C!Finish(C!Poller)
    BY <1>0, <2>1, <2>2, <2>4, FinishMoves DEF JobMoves, Leaves, RowsMove
  <2> QED
    BY <1>2, <2>3, <2>4 DEF C!RestOrder
<1> QED
  BY <1>1, <1>2

\* A trim by the poll's job moves along, outside the chain.
LEMMA TrimMoves ==
    ASSUME CopyConstants, LegTypeInv, C!Trim \/ C!TrimSize \/ C!Cut \/ C!Clear
    PROVE  JobMoves(C!Poller) /\ RowsMove
<1>0. /\ C!Poller \in C!Jobs /\ C!Poller \notin Fills
      /\ job[C!Poller].lots \in Nat /\ shown \in Nat
      /\ {"size", "cut", "clear"} \subseteq C!JobSteps \ {"idle", "wait", "order", "persist"}
  BY DEF C!Jobs, C!JobSteps, LegTypeInv, LegInv, JobTypes, LegTypes
<1>1. ASSUME NEW s \in {"cut", "clear"}, NEW n \in Nat,
             C!Finish(C!Poller) \/ C!GoOn(C!Poller, s, n), chain' = chain,
             ~Waits(C!Poller)
      PROVE  JobMoves(C!Poller)
  BY <1>0, <1>1, StepOnMoves
<1>2. CASE C!Trim
  BY <1>0, <1>2, PassMoves DEF C!Trim
<1>3. CASE C!TrimSize
  <2>1. PICK n : n = C!Smaller(job[C!Poller].lots, shown)
    OBVIOUS
  <2>2. n \in Nat
    BY <1>0, <2>1 DEF C!Smaller
  <2>3. C!GoOn(C!Poller, "clear", 0) \/ C!GoOn(C!Poller, "cut", n)
    BY <1>3, <2>1 DEF C!TrimSize
  <2>4. chain' = chain /\ rows' = rows /\ ~Waits(C!Poller)
    BY <1>3 DEF C!TrimSize, Waits
  <2> QED
    BY <1>1, <2>2, <2>3, <2>4 DEF RowsMove
<1>4. CASE C!Cut
  <2>1. /\ C!Finish(C!Poller) \/ C!GoOn(C!Poller, "clear", 0)
        /\ chain' = chain /\ rows' = rows /\ ~Waits(C!Poller)
    BY <1>4 DEF C!Cut, Waits
  <2> QED
    BY <1>1, <2>1 DEF RowsMove
<1>5. CASE C!Clear
  <2>1. /\ C!Finish(C!Poller) /\ chain' = chain /\ rows' = {} /\ ~Waits(C!Poller)
    BY <1>5 DEF C!Clear, Waits
  <2> QED
    BY <1>1, <2>1 DEF RowsMove
<1> QED
  BY <1>2, <1>3, <1>4, <1>5

\* The poll's job moves along, into the chain or out of it.
LEMMA RestMoves ==
    ASSUME CopyConstants, LegTypeInv, C!RestStep
    PROVE  JobMoves(C!Poller) /\ RowsMove
<1>0. C!Poller \in C!Jobs /\ C!Poller \notin Fills /\ PollJobOK
  BY DEF C!Jobs, LegTypeInv, JobsOK, JobOK
<1>1. CASE C!RestAgain
  <2>1. C!Pass(C!Poller, "again", inflight, "enter") /\ job[C!Poller].target > 0
    BY <1>0, <1>1 DEF C!RestAgain, C!Pass, PollJobOK
  <2>2. "enter" \in C!JobSteps \ {"idle", "wait", "order", "persist"}
    BY DEF C!JobSteps
  <2> QED
    BY <1>0, <2>1, <2>2, PassMoves
<1> QED
  BY <1>0, <1>1, DecideMoves, EnterMoves, RestOrderMoves, PersistMoves, TrimMoves
     DEF C!RestStep

\* The poll hands its job a leg to open, or to trim.
LEMMA PollMoves ==
    ASSUME CopyConstants, LegTypeInv, C!PollOpen
    PROVE  UNCHANGED <<job, chain>> \/ JobMoves(C!Poller)
<1>0. /\ C!Poller \in C!Jobs /\ C!Poller \notin Fills /\ JobsAreJobs /\ chain' = chain
      /\ poll > 0 /\ job[C!Poller].step = "idle"
  BY DEF C!Jobs, LegTypeInv, LegInv, ChainInv, C!PollOpen
<1>1. ASSUME NEW r, job' = [job EXCEPT ![C!Poller] = r],
             r.step = "trim" \/ (r.step = "lock" /\ r.target = poll)
      PROVE  JobMoves(C!Poller)
  <2>1. job'[C!Poller] = r /\ \A k \in C!Jobs : k # C!Poller => job'[k] = job[k]
    BY <1>0, <1>1, JobReplaced
  <2>2. JobOK(C!Poller)'
    BY <1>0, <1>1, <2>1 DEF JobOK, PollJobOK, C!JobSteps
  <2> QED
    BY <1>0, <1>1, <2>1, <2>2 DEF JobMoves, Along, Moves, Waits
<1> QED
  BY <1>0, <1>1, PollJob

\* The steps of a job raise no peak, and reduce nothing.
LEMMA JobStepsAlone ==
    ASSUME C!RestStep \/ (\E f \in Fills : C!LiveStep(f))
    PROVE  /\ UNCHANGED <<others, peak, reduces, legClosing, legCloser>>
           /\ failures' = failures \/ (C!UpsetsLeft /\ failures' = failures + 1)
<1> DEFINE Alone == UNCHANGED <<others, peak, reduces, legClosing, legCloser>>
           Failed == failures' = failures \/ (C!UpsetsLeft /\ failures' = failures + 1)
<1> USE DEF C!market, C!engine
<1>1. ASSUME NEW j, C!Decide(j) PROVE Alone /\ Failed
  <2>1. ASSUME NEW s, NEW guard, NEW t, C!Pass(j, s, guard, t) PROVE Alone /\ Failed
    BY <2>1 DEF C!Pass
  <2>2. CASE C!ReadRows(j)
    BY <2>2 DEF C!ReadRows
  <2>3. CASE C!ReadLeg(j)
    BY <2>3 DEF C!ReadLeg
  <2> QED
    BY <1>1, <2>1, <2>2, <2>3 DEF C!Decide, C!TestLock, C!TestWindow
<1>2. ASSUME NEW j, C!Enter(j) PROVE Alone /\ Failed
  BY <1>2 DEF C!Enter
<1>3. ASSUME NEW j, C!Persist(j) PROVE Alone /\ Failed
  BY <1>3 DEF C!Persist
<1>4. ASSUME NEW f \in Fills, C!LiveStep(f) PROVE Alone /\ Failed
  <2>1. CASE C!Receive(f)
    BY <2>1 DEF C!Receive
  <2>2. CASE C!LiveRun(f)
    BY <2>2 DEF C!LiveRun, C!Pass
  <2>3. CASE C!LiveOrder(f)
    BY <2>3 DEF C!LiveOrder, C!Place, C!Buy, C!Fail
  <2> QED
    BY <1>1, <1>2, <1>3, <1>4, <2>1, <2>2, <2>3 DEF C!LiveStep
<1>5. CASE C!RestStep
  <2>1. CASE C!RestAgain \/ C!Trim
    BY <2>1 DEF C!RestAgain, C!Trim, C!Pass
  <2>2. CASE C!RestStart
    BY <2>2 DEF C!RestStart
  <2>3. CASE C!RestOrder
    BY <2>3 DEF C!RestOrder, C!Buy, C!Fail
  <2>4. CASE C!TrimSize \/ C!Clear
    BY <2>4 DEF C!TrimSize, C!Clear
  <2>5. CASE C!Cut
    BY <2>5 DEF C!Cut, C!Sell, C!Fail
  <2> QED
    BY <1>1, <1>2, <1>3, <1>5, <2>1, <2>2, <2>3, <2>4, <2>5 DEF C!RestStep
<1> QED
  BY <1>4, <1>5

\* A step moves one job at most; only a fill moves a job that was idle, or raises the peak.
LEMMA StepMoves ==
    ASSUME CopyConstants, LegTypeInv, [C!Next]_(C!vars)
    PROVE  /\ RowsMove
           /\ \/ peak' = peak /\ UNCHANGED <<job, chain>>
              \/ peak' = peak /\ JobMoves(C!Poller)
              \/ peak' = peak /\ \E f \in Fills : JobMoves(f) /\ job[f].step # "idle"
              \/ \E f \in Fills : C!Fill(f) /\ Along(f) /\ job[f] = C!Idle /\ job'[f] # C!Idle
<1>1. CASE \E f \in Fills : C!Fill(f)
  BY <1>1, FillMoves DEF C!Fill, RowsMove
<1>2. CASE \E f \in Fills : C!LiveStep(f)
  BY <1>2, JobStepsAlone, LiveMoves
<1>3. CASE C!RestStep
  BY <1>3, JobStepsAlone, RestMoves
<1>4. CASE C!PollOpen
  BY <1>4, PollMoves DEF C!PollOpen, C!market, RowsMove
<1>5. CASE C!CloseStep
  BY <1>5 DEF C!CloseStep, C!CloseRead, C!CloseLook, C!CloseOrder, C!CloseRows, C!CloseCheck,
              C!market, RowsMove
<1>6. CASE (\E k \in C!Lots : C!Reduce(k)) \/ C!SizeMessage \/ C!FlatMessage
  BY <1>6 DEF C!Reduce, C!SizeMessage, C!FlatMessage, C!market, RowsMove
<1>7. CASE C!Settle \/ C!Expire \/ C!Unlock \/ C!PollRead \/ C!PollMissing
  BY <1>7 DEF C!Settle, C!Expire, C!Unlock, C!PollRead, C!PollMissing, C!market, RowsMove
<1>8. CASE UNCHANGED C!vars
  BY <1>8 DEF C!vars, RowsMove
<1> QED
  BY <1>1, <1>2, <1>3, <1>4, <1>5, <1>6, <1>7, <1>8 DEF C!Next

\* The jobs keep their shape.
LEMMA JobsShape ==
    ASSUME CopyConstants, LegTypeInv, [C!Next]_(C!vars) PROVE JobsOK'
<1>1. ASSUME NEW j \in C!Jobs, Moves(j) PROVE JobsOK'
  BY <1>1 DEF Moves, LegTypeInv, JobsOK, JobOK, LiveJobOK, PollJobOK
<1>2. ASSUME UNCHANGED job PROVE JobsOK'
  BY <1>2 DEF LegTypeInv, JobsOK, JobOK, LiveJobOK, PollJobOK
<1>3. C!Poller \in C!Jobs /\ Fills \subseteq C!Jobs
  BY DEF C!Jobs
<1> QED
  BY <1>1, <1>2, <1>3, StepMoves DEF JobMoves, Along, Enters, Leaves

\* A job that moves along, joins the chain or leaves it: the chain holds who waits.
LEMMA ChainMoves ==
    ASSUME CopyConstants, LegTypeInv, NEW j \in C!Jobs, JobMoves(j)
    PROVE  ChainHoldsWaiting'
<1>0. /\ chain \in Seq(C!Jobs) /\ ChainHoldsWaiting
      /\ \A k \in C!Jobs : k # j => (Waits(k)' <=> Waits(k))
  BY DEF LegTypeInv, LegInv, ChainInv, JobMoves, Along, Enters, Leaves, Moves, Waits
<1>1. CASE Along(j)
  BY <1>0, <1>1 DEF Along, ChainHoldsWaiting, InChain
<1>2. CASE Enters(j)
  <2>1. chain' = Append(chain, j) /\ ~InChain(j) /\ Waits(j)'
    BY <1>0, <1>2 DEF Enters, ChainHoldsWaiting
  <2>2. /\ Len(chain) \in Nat /\ DOMAIN chain = 1..Len(chain)
        /\ DOMAIN chain' = 1..(Len(chain) + 1)
        /\ chain'[Len(chain) + 1] = j
        /\ \A i \in DOMAIN chain : chain'[i] = chain[i]
    BY <1>0, <2>1
  <2>3. \A i \in DOMAIN chain : chain[i] # j
    BY <2>1 DEF InChain
  <2>4. \A k \in C!Jobs : InChain(k)' <=> (k = j \/ InChain(k))
    BY <2>2 DEF InChain
  <2>5. \A i, k \in DOMAIN chain' : chain'[i] = chain'[k] => i = k
    BY <1>0, <2>2, <2>3 DEF ChainHoldsWaiting
  <2> QED
    BY <1>0, <2>1, <2>4, <2>5 DEF ChainHoldsWaiting
<1>3. CASE Leaves(j)
  <2>1. chain # <<>> /\ chain' = Tail(chain) /\ chain[1] = j /\ ~Waits(j)'
    BY <1>0, <1>3 DEF Leaves, C!Turn, C!Leave
  <2>2. /\ Len(chain) \in Nat \ {0} /\ DOMAIN chain = 1..Len(chain)
        /\ DOMAIN chain' = 1..(Len(chain) - 1)
        /\ \A i \in DOMAIN chain' : chain'[i] = chain[i + 1]
    BY <1>0, <2>1
  <2>3. \A i \in DOMAIN chain : chain[i] = j => i = 1
    BY <1>0, <2>1, <2>2 DEF ChainHoldsWaiting
  <2>4. ~InChain(j)'
    BY <2>2, <2>3 DEF InChain
  <2>5. \A k \in C!Jobs : k # j => (InChain(k)' <=> InChain(k))
    <3> SUFFICES ASSUME NEW k \in C!Jobs, k # j PROVE InChain(k)' <=> InChain(k)
      OBVIOUS
    <3>1. InChain(k)' => InChain(k)
      BY <2>2 DEF InChain
    <3>2. ASSUME InChain(k) PROVE InChain(k)'
      <4>1. PICK i \in DOMAIN chain : chain[i] = k
        BY <3>2 DEF InChain
      <4>2. i # 1
        BY <2>1, <4>1
      <4>3. i - 1 \in DOMAIN chain' /\ chain'[i - 1] = chain[i]
        BY <2>2, <4>1, <4>2
      <4> QED
        BY <4>1, <4>3 DEF InChain
    <3> QED
      BY <3>1, <3>2
  <2>6. \A i, k \in DOMAIN chain' : chain'[i] = chain'[k] => i = k
    BY <1>0, <2>2 DEF ChainHoldsWaiting
  <2> QED
    BY <1>0, <2>1, <2>4, <2>5, <2>6 DEF ChainHoldsWaiting
<1> QED
  BY <1>1, <1>2, <1>3 DEF JobMoves

\* The chain holds who waits.
LEMMA ChainShape ==
    ASSUME CopyConstants, LegTypeInv, [C!Next]_(C!vars) PROVE ChainHoldsWaiting'
<1>1. ASSUME UNCHANGED <<job, chain>> PROVE ChainHoldsWaiting'
  BY <1>1 DEF LegTypeInv, ChainHoldsWaiting, InChain, Waits
<1>2. C!Poller \in C!Jobs /\ Fills \subseteq C!Jobs
  BY DEF C!Jobs
<1> QED
  BY <1>1, <1>2, ChainMoves, StepMoves DEF JobMoves

\* Every fill that raises the peak is one more that was filled.
LEMMA PeakShape ==
    ASSUME CopyConstants, CopyBounds, LegTypeInv, [C!Next]_(C!vars) PROVE PeakCounted'
<1>0. /\ master \in Nat /\ peak \in Nat /\ master <= peak /\ FillLots \in Nat
      /\ \A f \in Fills : f \in C!Jobs /\ LiveJobOK(f)
      /\ PeakCounted /\ C!Poller \notin Fills
  BY DEF LegTypeInv, LegInv, LegTypes, JobsOK, JobOK, C!Jobs
<1>1. C!Idle.step = "idle"
  BY DEF C!Idle
<1>2. ASSUME peak' = peak, \A f \in Fills : job'[f] = C!Idle <=> job[f] = C!Idle
      PROVE  PeakCounted'
  <2>1. FilledFills' = FilledFills
    BY <1>2 DEF FilledFills
  <2> QED
    BY <1>0, <1>2, <2>1 DEF PeakCounted
<1>3. ASSUME NEW f \in Fills, JobMoves(f), job[f].step # "idle", peak' = peak
      PROVE  PeakCounted'
  <2>1. job'[f].step # "idle" /\ \A k \in C!Jobs : k # f => job'[k] = job[k]
    BY <1>3 DEF JobMoves, Along, Enters, Leaves, Moves
  <2> QED
    BY <1>0, <1>1, <1>2, <1>3, <2>1
<1>4. ASSUME JobMoves(C!Poller), peak' = peak PROVE PeakCounted'
  <2>1. \A k \in C!Jobs : k # C!Poller => job'[k] = job[k]
    BY <1>4 DEF JobMoves, Along, Enters, Leaves, Moves
  <2> QED
    BY <1>0, <1>2, <1>4, <2>1
<1>5. ASSUME NEW f \in Fills, C!Fill(f), Along(f), job[f] = C!Idle, job'[f] # C!Idle
      PROVE  PeakCounted'
  <2>1. FilledFills' = FilledFills \cup {f} /\ f \notin FilledFills
    BY <1>0, <1>5 DEF FilledFills, Along, Moves
  <2>2. IsFiniteSet(FilledFills)
    BY FS_Subset DEF FilledFills, CopyBounds
  <2>3. /\ Cardinality(FilledFills) \in Nat
        /\ Cardinality(FilledFills') = Cardinality(FilledFills) + 1
    BY <2>1, <2>2, FS_CardinalityType, FS_AddElement
  <2>4. PICK c \in Nat : c = Cardinality(FilledFills)
    BY <2>3
  <2>5. peak <= FillLots * c /\ FillLots * (c + 1) = FillLots * c + FillLots
        /\ FillLots * c \in Nat
    BY <1>0, <2>4 DEF PeakCounted
  <2>6. peak' = C!Larger(peak, master + FillLots)
    BY <1>5 DEF C!Fill
  <2>7. peak' <= FillLots * c + FillLots
    BY <1>0, <2>5, <2>6 DEF C!Larger
  <2> QED
    BY <2>3, <2>4, <2>5, <2>7 DEF PeakCounted
<1>6. ASSUME UNCHANGED <<job, chain>>, peak' = peak PROVE PeakCounted'
  BY <1>2, <1>6
<1> QED
  BY <1>3, <1>4, <1>5, <1>6, StepMoves

\* A row is opened under a key of its own.
LEMMA RowsShape ==
    ASSUME CopyConstants, LegTypeInv, [C!Next]_(C!vars) PROVE RowsOK'
<1>1. RowsOK
  BY DEF LegTypeInv
<1>2. CASE rows' = rows \/ rows' = {}
  BY <1>1, <1>2 DEF RowsOK
<1>3. ASSUME NEW key, NEW qty \in Nat, qty > 0, C!OpenRow(key, qty) PROVE RowsOK'
  <2>1. PICK new : new = [key |-> key, qty |-> qty]
    OBVIOUS
  <2>2. new.key = key /\ new.qty = qty
    BY <2>1
  <2>3. rows' = rows \/ (rows' = rows \cup {new} /\ \A r \in rows : r.key # key)
    BY <1>3, <2>1 DEF C!OpenRow
  <2> QED
    BY <1>1, <1>3, <2>2, <2>3 DEF RowsOK
<1> QED
  BY <1>2, <1>3, StepMoves DEF RowsMove

\* The kinds and the steps of a close.
CloseTypes ==
    /\ legCloser.kind \in {"none", "ws", "trim", "rest", "orphan"}
    /\ legCloser.step \in {"none", "read", "look", "order", "rows", "check"}

\* A close that begins, goes on or is over keeps the types.
LEMMA CloseShape ==
    ASSUME CountersOK,
           \/ UNCHANGED legCloser \/ legCloser' = C!NoClose
           \/ \E kind \in {"ws", "trim", "rest", "orphan"} : \E n : C!Begin(kind, n)
           \/ \E s \in {"look", "order", "rows", "check"} : \E n : legCloser' = C!CloseAt(s, n)
    PROVE  CloseTypes'
<1>1. C!NoClose.kind = "none" /\ C!NoClose.step = "none"
  BY DEF C!NoClose
<1>2. CASE UNCHANGED legCloser \/ legCloser' = C!NoClose
  BY <1>1, <1>2 DEF CountersOK, CloseTypes
<1>3. ASSUME NEW kind \in {"none", "ws", "trim", "rest", "orphan"},
             NEW s \in {"read", "look", "order", "rows", "check"}, NEW n,
             legCloser' = [kind |-> kind, step |-> s, lots |-> n]
      PROVE  CloseTypes'
  <2>1. legCloser'.kind = kind /\ legCloser'.step = s
    BY <1>3
  <2> QED
    BY <2>1 DEF CloseTypes
<1>4. ASSUME NEW kind \in {"ws", "trim", "rest", "orphan"}, NEW n, C!Begin(kind, n)
      PROVE  CloseTypes'
  <2>1. legCloser' = [kind |-> kind, step |-> "read", lots |-> n]
    BY <1>4 DEF C!Begin
  <2> QED
    BY <1>3, <2>1
<1>5. ASSUME NEW s \in {"look", "order", "rows", "check"}, NEW n, legCloser' = C!CloseAt(s, n)
      PROVE  CloseTypes'
  <2>1. CASE legCloser' = C!NoClose
    BY <1>2, <2>1
  <2>2. CASE legCloser' = [kind |-> legCloser.kind, step |-> s, lots |-> n]
    BY <1>3, <2>2 DEF CountersOK
  <2> QED
    BY <1>5, <2>1, <2>2 DEF C!CloseAt
<1> QED
  BY <1>2, <1>4, <1>5

\* The steps of a close turn no lock and reduce nothing.
LEMMA CloseStepsAlone ==
    ASSUME CountersOK, C!CloseStep
    PROVE  /\ UNCHANGED <<others, reduces, legClosing>> /\ CloseTypes'
           /\ failures' = failures \/ (C!UpsetsLeft /\ failures' = failures + 1)
<1> USE DEF C!market
<1>0. ASSUME NEW s \in {"look", "order", "rows", "check"}, NEW n, legCloser' = C!CloseAt(s, n)
      PROVE  CloseTypes'
  BY <1>0, CloseShape
<1>1. /\ UNCHANGED <<others, reduces, legClosing>>
      /\ failures' = failures \/ (C!UpsetsLeft /\ failures' = failures + 1)
  BY DEF C!CloseStep, C!CloseRead, C!CloseLook, C!CloseOrder, C!CloseRows, C!CloseCheck,
         C!Sell, C!Fail
<1>2. CASE C!CloseRead
  <2>1. \E s \in {"look", "order", "rows", "check"} : \E n : legCloser' = C!CloseAt(s, n)
    BY <1>2 DEF C!CloseRead
  <2> QED
    BY <2>1, <1>1, <1>0
<1>3. CASE C!CloseLook
  <2>1. \E s \in {"look", "order", "rows", "check"} : \E n : legCloser' = C!CloseAt(s, n)
    BY <1>3 DEF C!CloseLook
  <2> QED
    BY <2>1, <1>1, <1>0
<1>4. CASE C!CloseOrder
  <2>1. \E s \in {"look", "order", "rows", "check"} : \E n : legCloser' = C!CloseAt(s, n)
    BY <1>4 DEF C!CloseOrder
  <2> QED
    BY <2>1, <1>1, <1>0
<1>5. CASE C!CloseRows
  <2>1. \E s \in {"look", "order", "rows", "check"} : \E n : legCloser' = C!CloseAt(s, n)
    BY <1>5 DEF C!CloseRows
  <2> QED
    BY <2>1, <1>1, <1>0
<1>6. CASE C!CloseCheck
  BY <1>1, <1>6, CloseShape DEF C!CloseCheck
<1> QED
  BY <1>1, <1>2, <1>3, <1>4, <1>5, <1>6 DEF C!CloseStep

\* The bounded counters, the locks and the close keep their values.
LEMMA CountersShape ==
    ASSUME CopyConstants, CopyBounds, LegTypeInv, [C!Next]_(C!vars) PROVE CountersOK'
<1>0. CountersOK /\ MaxUpsets \in Nat
  BY DEF LegTypeInv, CopyBounds
<1>1. ASSUME others' = others,
             \/ reduces' = reduces
             \/ C!UpsetsLeft /\ reduces' = reduces + 1 /\ failures' = failures,
             failures' = failures \/ (C!UpsetsLeft /\ failures' = failures + 1),
             legClosing' \in BOOLEAN, CloseTypes'
      PROVE  CountersOK'
  BY <1>0, <1>1 DEF CountersOK, CloseTypes, C!UpsetsLeft
<1>2. CASE C!RestStep \/ \E f \in Fills : C!LiveStep(f)
  BY <1>0, <1>1, <1>2, JobStepsAlone, CloseShape DEF CountersOK
<1>3. CASE C!CloseStep
  BY <1>0, <1>1, <1>3, CloseStepsAlone DEF CountersOK
<1>4. C!CloseMessage => legClosing' = TRUE /\ CloseTypes'
  BY <1>0, CloseShape DEF C!CloseMessage, C!BeginClose
<1>5. CASE \E k \in C!Lots : C!Reduce(k)
  <2>1. /\ UNCHANGED <<others, failures>> /\ C!UpsetsLeft /\ reduces' = reduces + 1
        /\ C!CloseMessage \/ UNCHANGED <<legCloser, legClosing>>
    BY <1>5 DEF C!Reduce
  <2> QED
    BY <1>0, <1>1, <1>4, <2>1, CloseShape DEF CountersOK
<1>6. CASE C!SizeMessage
  <2>1. UNCHANGED <<others, reduces, failures, legClosing>> /\ CloseTypes'
    BY <1>0, <1>6, CloseShape DEF C!SizeMessage, C!market
  <2> QED
    BY <1>0, <1>1, <2>1 DEF CountersOK
<1>7. CASE C!FlatMessage
  BY <1>1, <1>4, <1>7 DEF C!FlatMessage, C!market
<1>8. CASE C!PollMissing
  <2>1. /\ UNCHANGED <<others, reduces, failures>>
        /\ \/ C!BeginClose("rest", 0) \/ C!BeginClose("orphan", 0)
           \/ UNCHANGED legCloser /\ legClosing' \in {legClosing, legClosing \/ ~others}
    BY <1>8 DEF C!PollMissing, C!market
  <2>2. CloseTypes'
    BY <1>0, <2>1, CloseShape DEF C!BeginClose
  <2>3. legClosing' \in BOOLEAN
    BY Zenon, <1>0, <2>1 DEF C!BeginClose, CountersOK
  <2> QED
    BY <1>1, <2>1, <2>2, <2>3
<1>9. CASE C!Unlock
  <2>1. UNCHANGED <<others, reduces, failures, legCloser>> /\ legClosing' = FALSE
    BY <1>9 DEF C!Unlock, C!market
  <2> QED
    BY <1>0, <1>1, <2>1, CloseShape
<1>10. CASE \/ \E f \in Fills : C!Fill(f)
            \/ C!Settle \/ C!Expire \/ C!PollRead \/ C!PollOpen \/ UNCHANGED C!vars
  <2>1. UNCHANGED <<others, reduces, failures, legClosing, legCloser>>
    BY <1>10 DEF C!Fill, C!Settle, C!Expire, C!PollRead, C!PollOpen, C!vars, C!market, C!engine
  <2> QED
    BY <1>0, <1>1, <2>1, CloseShape DEF CountersOK
<1> QED
  BY <1>2, <1>3, <1>5, <1>6, <1>7, <1>8, <1>9, <1>10 DEF C!Next

\* The types hold at the start.
LEMMA InitLegTypeInv ==
    ASSUME CopyConstants, CopyBounds PROVE C!Init => LegTypeInv
<1> SUFFICES ASSUME C!Init PROVE LegTypeInv
  OBVIOUS
<1>1. C!Idle.step = "idle" /\ C!NoClose.kind = "none" /\ C!NoClose.step = "none"
  BY DEF C!Idle, C!NoClose
<1>2. \A j \in C!Jobs : job[j] = C!Idle
  BY DEF C!Init
<1>3. JobsOK
  BY <1>1, <1>2 DEF JobsOK, JobOK, LiveJobOK, PollJobOK, C!JobSteps
<1>4. ChainHoldsWaiting
  BY <1>1, <1>2 DEF ChainHoldsWaiting, InChain, Waits, C!Init
<1>5. PeakCounted
  <2>1. FilledFills = {}
    BY <1>2 DEF FilledFills, C!Jobs
  <2>2. Cardinality(FilledFills) = 0
    BY <2>1, FS_EmptySet
  <2> QED
    BY <2>2 DEF PeakCounted, C!Init
<1>6. RowsOK
  BY DEF RowsOK, C!Init
<1>0. legClosing \in BOOLEAN
  BY Zenon DEF C!Init
<1>8. CountersOK
  BY <1>1, <1>0 DEF CountersOK, CopyBounds, C!Init
<1> QED
  BY <1>3, <1>4, <1>5, <1>6, <1>8, InitLegInv DEF LegTypeInv

\* Each number keeps its bounds, no order or row is of no lots, each row has a key of its own,
\* and the chain of the leg holds exactly the jobs that wait, each once
\* (copyLegExecutionChains, recordTradePositionOpen).
THEOREM LegTypesHold ==
    ASSUME CopyConstants, CopyBounds
    PROVE  C!Spec => []C!TypeOK
<1>1. LegTypeInv /\ [C!Next]_(C!vars) => LegTypeInv'
  BY NextLegInv, JobsShape, ChainShape, PeakShape, RowsShape, CountersShape DEF LegTypeInv
<1>2. LegTypeInv => C!TypeOK
  <2> SUFFICES ASSUME LegTypeInv PROVE C!TypeOK
    OBVIOUS
  <2>1. PICK c \in Nat, n \in Nat :
            c = Cardinality(FilledFills) /\ n = Cardinality(Fills) /\ c <= n
    <3>1. FilledFills \subseteq Fills
      BY DEF FilledFills
    <3> QED
      BY <3>1, FS_Subset, FS_CardinalityType DEF CopyBounds
  <2>2. /\ master \in Nat /\ peak \in Nat /\ master <= peak /\ FillLots \in Nat
        /\ peak <= FillLots * c
        /\ poll = C!None \/ (poll \in Nat /\ poll <= peak)
    BY <2>1 DEF LegTypeInv, PeakCounted, LegInv, LegTypes, C!None
  <2>3. {master, peak} \subseteq C!Lots /\ poll \in C!Lots \cup {C!None}
    <3>1. FillLots * c <= FillLots * n /\ FillLots * c \in Nat /\ FillLots * n \in Nat
      BY <2>1, <2>2
    <3>2. peak <= FillLots * n
      <4>1. PICK x \in Nat, y \in Nat : x = FillLots * c /\ y = FillLots * n
        BY <3>1
      <4>2. peak <= x /\ x <= y
        BY <2>2, <3>1, <4>1
      <4> QED
        BY <2>2, <4>1, <4>2
    <3>3. C!Cardinality(Fills) = Cardinality(Fills)
      BY DEF C!Cardinality, Cardinality
    <3>4. C!Lots = 0..(FillLots * n)
      BY <2>1, <3>3 DEF C!Lots
    <3> QED
      BY <2>2, <3>1, <3>2, <3>4
  <2>4. \A j \in C!Jobs : /\ job[j].step \in C!JobSteps
                          /\ job[j].step = "order" => Head(chain) = j
    BY DEF LegTypeInv, JobsOK, JobOK, LiveJobOK, PollJobOK, C!Jobs, LegInv, ChainInv,
           OrdersInTurn, C!Turn
  <2>5. \A j \in C!Jobs : job[j].step \in {"wait", "order"} <=> \E i \in DOMAIN chain : chain[i] = j
    BY DEF LegTypeInv, ChainHoldsWaiting, Waits, InChain
  <2>6. \A i, k \in DOMAIN chain : chain[i] = chain[k] => i = k
    BY DEF LegTypeInv, ChainHoldsWaiting
  <2>7. {others, inflight, legClosing, unguarded} \subseteq BOOLEAN
    BY Zenon DEF LegTypeInv, CountersOK, LegInv, LegTypes
  <2> QED
    BY <2>3, <2>4, <2>5, <2>6, <2>7
       DEF C!TypeOK, LegTypeInv, CountersOK, RowsOK, LegInv, LegTypes
<1> QED
  BY InitLegTypeInv, <1>1, <1>2, PTL DEF C!Spec

-----------------------------------------------------------------------------
(***************************************************************************)
(* The automatic exits of one strategy (AutoExit, here an instance), for   *)
(* any legs, checks, times and bounds.  The cooldown that an exit starts   *)
(* and the age of the exit add up to the cooldown at least, and an exit    *)
(* begins only when the cooldown is over: whoever still runs is that old.  *)
(***************************************************************************)
CONSTANTS Legs, Ticks, Poll, LockTTL, Cooldown, SettleGrace, CacheTTL, BreachTicks,
          MaxMoves, MaxTurns, MaxFaults, NoCheck
VARIABLES exitMaster, market, bounds, cache, breaches, legCount, settle, lock, cool,
          exitClosing, flats, flying, check

X == INSTANCE AutoExit
        WITH master <- exitMaster, closing <- exitClosing, None <- NoCheck

\* What AutoExit assumes of its times.
ExitConstants == Cooldown \in Nat \ {0}

\* The age of an exit and what is left of the cooldown make up the cooldown.
AgeAndCooldown(c) ==
    check[c].age \in 0..Cooldown /\ cool + check[c].age >= Cooldown

ExitInv ==
    /\ DOMAIN check = X!Checks /\ cool \in 0..Cooldown
    /\ \A c \in X!Checks : X!Exiting(c) => AgeAndCooldown(c)
    /\ X!ExitsOverlapOnlyPastCooldown

USE DEF ExitConstants

\* A check that is not an exit after the step, beside checks that the step leaves alone.
LEMMA OtherExitsStay ==
    ASSUME ExitConstants, ExitInv, NEW c \in X!Checks, DOMAIN check' = X!Checks,
           ~X!Exiting(c)', \A d \in X!Checks \ {c} : check'[d] = check[d], cool' = cool
    PROVE  ExitInv'
<1>1. \A d \in X!Checks : X!Exiting(d)' => X!Exiting(d) /\ check'[d] = check[d]
  BY DEF X!Exiting
<1> QED
  BY <1>1 DEF ExitInv, AgeAndCooldown, X!ExitsOverlapOnlyPastCooldown

\* A check that is replaced by one that looks on, or ends.
LEMMA LooksOn ==
    ASSUME ExitConstants, ExitInv, NEW c \in X!Checks, NEW r,
           r = NoCheck \/ r.step \notin {"burst", "end"},
           check' = [check EXCEPT ![c] = r], cool' = cool
    PROVE  ExitInv'
<1>1. /\ DOMAIN check' = X!Checks /\ check'[c] = r
      /\ \A d \in X!Checks \ {c} : check'[d] = check[d]
  BY DEF ExitInv
<1>2. ~X!Exiting(c)'
  BY <1>1 DEF X!Exiting
<1> QED
  BY <1>1, <1>2, OtherExitsStay

\* An exit begins with a cooldown of its own, when that of the others is over.
LEMMA ExitBegins ==
    ASSUME ExitConstants, ExitInv, NEW c \in X!Checks, NEW r, X!Idle, X!BeginExit(c, r)
    PROVE  ExitInv'
<1>1. X!Exit(r).age = 0
  BY DEF X!Exit, X!Fresh
<1>2. /\ DOMAIN check' = X!Checks /\ check'[c].age = 0 /\ cool' = Cooldown /\ cool = 0
      /\ \A d \in X!Checks \ {c} : check'[d] = check[d]
  BY <1>1 DEF ExitInv, X!BeginExit, X!Idle
<1>3. \A d \in X!Checks \ {c} : X!Exiting(d)' => X!Exiting(d) /\ check[d].age = Cooldown
  BY <1>2 DEF ExitInv, AgeAndCooldown, X!Exiting
<1>4. \A d \in X!Checks : X!Exiting(d)' => AgeAndCooldown(d)'
  BY <1>2, <1>3 DEF AgeAndCooldown
<1>5. X!ExitsOverlapOnlyPastCooldown'
  BY <1>2, <1>3 DEF X!ExitsOverlapOnlyPastCooldown
<1> QED
  BY <1>2, <1>4, <1>5 DEF ExitInv

\* The verdict on a snapshot: the check ends, looks more closely, or begins an exit.
LEMMA WeighKeeps ==
    ASSUME ExitConstants, ExitInv, NEW c \in X!Checks, NEW r, X!Weigh(c, r)
    PROVE  ExitInv'
<1>1. ASSUME X!End(c), cool' = cool PROVE ExitInv'
  BY <1>1, LooksOn DEF X!End
<1>2. CASE X!WeighProfit(c, r)
  <2>1. cool' = cool
    BY <1>2 DEF X!WeighProfit, X!exits
  <2>2. PICK n : n = breaches'
    OBVIOUS
  <2> DEFINE look == [X!With(r, r.legs, "unknown") EXCEPT !.step = "diagnose", !.count = n]
  <2>3. X!End(c) \/ check' = [check EXCEPT ![c] = look]
    BY <1>2, <2>2 DEF X!WeighProfit
  <2>4. look.step = "diagnose"
    BY DEF X!With
  <2> HIDE DEF look
  <2> QED
    BY <1>1, <2>1, <2>3, <2>4, LooksOn
<1>3. CASE X!WeighPrice(c, r)
  <2>1. CASE X!Idle /\ X!BeginExit(c, r)
    BY <2>1, ExitBegins
  <2>2. CASE X!End(c) /\ UNCHANGED X!exits
    BY <1>1, <2>2 DEF X!exits
  <2> QED
    BY <1>3, <2>1, <2>2 DEF X!WeighPrice
<1> QED
  BY <1>2, <1>3 DEF X!Weigh

\* Time passes: every exit is as much older as the cooldown is shorter.
LEMMA TickKeeps ==
    ASSUME ExitConstants, ExitInv, X!Tick PROVE ExitInv'
<1>1. DOMAIN check' = X!Checks /\ cool' = IF cool > 0 THEN cool - 1 ELSE 0
  BY DEF X!Tick, X!Down
<1>2. cool' \in 0..Cooldown
  BY <1>1 DEF ExitInv
<1>3. ASSUME NEW c \in X!Checks, X!Exiting(c)'
      PROVE  /\ X!Exiting(c)
             /\ check'[c].age = IF Cooldown < check[c].age + 1 THEN Cooldown ELSE check[c].age + 1
  <2>1. CASE X!Exiting(c)
    <3>1. check'[c] = [check[c] EXCEPT !.age = X!Smaller(Cooldown, @ + 1)]
      BY <2>1 DEF X!Tick
    <3> QED
      BY <2>1, <3>1 DEF X!Smaller
  <2>2. CASE ~X!Exiting(c)
    BY <1>3, <2>2 DEF X!Tick, X!Exiting
  <2> QED
    BY <2>1, <2>2
<1>4. ASSUME NEW c \in X!Checks, X!Exiting(c)'
      PROVE  AgeAndCooldown(c)' /\ (check[c].age >= Cooldown => check'[c].age >= Cooldown)
  <2>1. check[c].age \in 0..Cooldown /\ cool + check[c].age >= Cooldown /\ cool \in 0..Cooldown
    BY <1>3, <1>4 DEF ExitInv, AgeAndCooldown
  <2>2. check'[c].age = IF Cooldown < check[c].age + 1 THEN Cooldown ELSE check[c].age + 1
    BY <1>3, <1>4
  <2> QED
    BY <1>1, <2>1, <2>2 DEF AgeAndCooldown
<1>5. X!ExitsOverlapOnlyPastCooldown'
  BY <1>3, <1>4 DEF ExitInv, X!ExitsOverlapOnlyPastCooldown
<1> QED
  BY <1>1, <1>2, <1>4, <1>5 DEF ExitInv

\* The burst of an exit may start the cooldown again.
LEMMA BurstKeeps ==
    ASSUME ExitConstants, ExitInv, NEW c \in X!Checks, X!Burst(c) PROVE ExitInv'
<1>1. cool' = Cooldown \/ cool' = cool
  BY DEF X!Burst
<1>2. /\ DOMAIN check' = X!Checks /\ check' = [check EXCEPT ![c].step = "end"]
      /\ X!Exiting(c)
  BY DEF X!Burst, X!Goto, X!At, X!Exiting, ExitInv
<1>3. \A d \in X!Checks : check'[d].age = check[d].age /\ (X!Exiting(d)' => X!Exiting(d))
  BY <1>2 DEF ExitInv, X!Exiting
<1>4. cool \in 0..Cooldown /\ cool' \in 0..Cooldown /\ cool' >= cool
  BY <1>1 DEF ExitInv
<1>5. \A d \in X!Checks : X!Exiting(d)' => AgeAndCooldown(d)'
  BY <1>3, <1>4 DEF ExitInv, AgeAndCooldown
<1>6. X!ExitsOverlapOnlyPastCooldown'
  BY <1>3 DEF ExitInv, X!ExitsOverlapOnlyPastCooldown
<1> QED
  BY <1>2, <1>4, <1>5, <1>6 DEF ExitInv

\* Every step keeps the invariant.
LEMMA NextExitInv ==
    ASSUME ExitConstants PROVE ExitInv /\ [X!Next]_(X!vars) => ExitInv'
<1> SUFFICES ASSUME ExitInv, [X!Next]_(X!vars) PROVE ExitInv'
  OBVIOUS
<1>1. ASSUME check' = check, cool' = cool PROVE ExitInv'
  BY <1>1 DEF ExitInv, AgeAndCooldown, X!Exiting, X!ExitsOverlapOnlyPastCooldown
<1>2. ASSUME NEW legs, X!MasterMoves(legs) PROVE ExitInv'
  BY <1>1, <1>2 DEF X!MasterMoves, X!exits
<1>3. ASSUME NEW m, X!MarketTurns(m) PROVE ExitInv'
  BY <1>1, <1>3 DEF X!MarketTurns, X!exits
<1>4. CASE X!Tick
  BY <1>4, TickKeeps
<1>5. CASE X!Restart
  <2>1. cool' = 0 /\ DOMAIN check' = X!Checks /\ \A c \in X!Checks : check'[c] = NoCheck
    BY <1>5 DEF X!Restart
  <2> QED
    BY <2>1 DEF ExitInv, X!Exiting, X!ExitsOverlapOnlyPastCooldown
<1>6. ASSUME NEW c \in X!Checks, NEW kind, X!Start(c, kind) PROVE ExitInv'
  <2>1. CASE X!Weigh(c, X!With(X!Fresh(kind), cache.legs, cache.profit))
    BY <2>1, WeighKeeps
  <2>2. CASE check' = [check EXCEPT ![c] = X!Fresh(kind)] /\ UNCHANGED X!exits
    <3>1. X!Fresh(kind).step = "ask"
      BY DEF X!Fresh
    <3> QED
      BY <2>2, <3>1, LooksOn DEF X!exits
  <2> QED
    BY <1>6, <2>1, <2>2 DEF X!Start
<1>7. ASSUME NEW c \in X!Checks, X!Answer(c) PROVE ExitInv'
  <2> DEFINE r == [X!With(check[c], exitMaster, market.profit) EXCEPT !.step = "answered"]
  <2>1. check' = [check EXCEPT ![c] = r] /\ cool' = cool
    BY <1>7 DEF X!Answer, X!exits
  <2>2. r.step = "answered"
    BY DEF X!With
  <2> HIDE DEF r
  <2> QED
    BY <2>1, <2>2, LooksOn
<1>8. ASSUME NEW c \in X!Checks, X!NoAnswer(c) PROVE ExitInv'
  <2>1. CASE X!End(c) /\ UNCHANGED X!exits
    BY <2>1, LooksOn DEF X!End, X!exits
  <2>2. CASE \E r : X!Weigh(c, r)
    BY <2>2, WeighKeeps
  <2> QED
    BY <1>8, <2>1, <2>2 DEF X!NoAnswer
<1>9. ASSUME NEW c \in X!Checks, X!Evaluate(c) PROVE ExitInv'
  BY <1>9, WeighKeeps DEF X!Evaluate
<1>10. ASSUME NEW c \in X!Checks, X!Diagnose(c) PROVE ExitInv'
  <2>1. CASE X!Idle /\ X!BeginExit(c, check[c])
    BY <2>1, ExitBegins
  <2>2. CASE X!End(c) /\ UNCHANGED X!exits
    BY <2>2, LooksOn DEF X!End, X!exits
  <2> QED
    BY <1>10, <2>1, <2>2 DEF X!Diagnose
<1>11. ASSUME NEW c \in X!Checks, X!Burst(c) PROVE ExitInv'
  BY <1>11, BurstKeeps
<1>12. ASSUME NEW c \in X!Checks, X!Finish(c) PROVE ExitInv'
  BY <1>12, LooksOn DEF X!Finish, X!End
<1>13. ASSUME NEW leg, X!FlatBegin(leg) \/ X!FlatEnd(leg) PROVE ExitInv'
  BY <1>1, <1>13 DEF X!FlatBegin, X!FlatEnd
<1>14. CASE UNCHANGED X!vars
  BY <1>1, <1>14 DEF X!vars, X!exits
<1> QED
  BY <1>2, <1>3, <1>4, <1>5, <1>6, <1>7, <1>8, <1>9, <1>10, <1>11, <1>12, <1>13,
     <1>14
  DEF X!Next

\* Two exits of a strategy run together only if one of them has run for the cooldown:
\* whatever ends the lock, by its timer or by another exit's end, and whatever restarts,
\* answers late or fails in between (tryAcquireAutoExitLock, lastAutoExitAt).
THEOREM ExitsOverlapLate ==
    ASSUME ExitConstants
    PROVE  X!Spec => []X!ExitsOverlapOnlyPastCooldown
<1>1. X!Init => ExitInv
  BY DEF X!Init, ExitInv, X!Exiting, X!ExitsOverlapOnlyPastCooldown
<1>2. ExitInv => X!ExitsOverlapOnlyPastCooldown
  BY DEF ExitInv
<1> QED
  BY <1>1, <1>2, NextExitInv, PTL DEF X!Spec

\* What AutoExit assumes of its other constants; no check or cache looks like NoCheck.
ExitBounds ==
    /\ {LockTTL, CacheTTL, BreachTicks} \subseteq Nat \ {0}
    /\ SettleGrace \in Nat /\ {MaxMoves, MaxTurns, MaxFaults} \subseteq Nat
    /\ IsFiniteSet(Legs)
    /\ NoCheck \notin X!Cache \cup X!Check

\* What a check may change of its own accord, with its type.
MemoryOK ==
    /\ breaches \in 0..BreachTicks
    /\ legCount \in 0..X!Cardinality(Legs)
    /\ settle \in 0..SettleGrace
ExitsOK ==
    /\ lock \in 0..LockTTL /\ cool \in 0..Cooldown
    /\ exitClosing \subseteq Legs /\ flying \in BOOLEAN
ChecksOK == check \in [X!Checks -> X!Check \cup {NoCheck}]

\* A snapshot has no more legs than there are.
LEMMA LegsCounted ==
    ASSUME ExitBounds, NEW S \in SUBSET Legs
    PROVE  X!Cardinality(S) \in 0..X!Cardinality(Legs) /\ X!Cardinality(Legs) \in Nat
<1>1. Cardinality(S) \in Nat /\ Cardinality(Legs) \in Nat /\ Cardinality(S) <= Cardinality(Legs)
  BY FS_Subset, FS_CardinalityType DEF ExitBounds
<1>2. X!Cardinality(S) = Cardinality(S) /\ X!Cardinality(Legs) = Cardinality(Legs)
  BY DEF X!Cardinality, Cardinality
<1> QED
  BY <1>1, <1>2

\* A check begins as a record of its type.
LEMMA FreshType ==
    ASSUME ExitConstants, ExitBounds, X!TypeOK, NEW kind \in X!Kinds
    PROVE  X!Fresh(kind) \in X!Check /\ X!Fresh(kind).kind = kind
BY DEF ExitBounds, X!TypeOK, X!Fresh, X!Check, X!Steps, X!Profits, X!Market

\* It keeps its type with a snapshot of the legs.
LEMMA WithType ==
    ASSUME NEW r \in X!Check, NEW legs \in SUBSET Legs, NEW profit \in X!Profits
    PROVE  X!With(r, legs, profit) \in X!Check
BY DEF X!With, X!Check

\* An exit that begins has the type of a check, and takes the legs that nobody closes.
LEMMA ExitType ==
    ASSUME ExitConstants, ExitBounds, X!TypeOK, NEW r \in X!Check
    PROVE  /\ X!Exit(r) \in X!Check
           /\ X!Exit(r).step = "burst" /\ X!Exit(r).took = r.legs \ exitClosing
<1>1. r.kind \in X!Kinds /\ r.legs \subseteq Legs
  BY DEF X!Check
<1>2. X!Fresh(r.kind) \in X!Check
  BY <1>1, FreshType
<1> QED
  BY <1>1, <1>2 DEF X!Exit, X!Check, X!Steps

\* A check that is replaced by another of its type.
LEMMA Replaced ==
    ASSUME ChecksOK, NEW c \in X!Checks, NEW r \in X!Check \cup {NoCheck},
           check' = [check EXCEPT ![c] = r]
    PROVE  ChecksOK'
BY DEF ChecksOK

\* The start of an exit keeps the types.
LEMMA BeginTypes ==
    ASSUME ExitConstants, ExitBounds, X!TypeOK, NEW c \in X!Checks, NEW r \in X!Check,
           X!BeginExit(c, r)
    PROVE  ExitsOK' /\ ChecksOK'
<1>1. ChecksOK'
  BY ExitType, Replaced DEF X!BeginExit, X!TypeOK, ChecksOK
<1>2. r.legs \subseteq Legs
  BY DEF X!Check
<1> QED
  BY <1>1, <1>2 DEF X!BeginExit, X!TypeOK, ExitsOK, ExitBounds

\* The grace is a time that the settling may take.
LEMMA GraceType ==
    ASSUME ExitBounds, X!TypeOK, NEW legs \in SUBSET Legs
    PROVE  X!Grace(legs) \in 0..SettleGrace
BY DEF X!Grace, X!TypeOK, ExitBounds

\* The verdict on a snapshot keeps the types.
LEMMA WeighTypes ==
    ASSUME ExitConstants, ExitBounds, X!TypeOK, NEW c \in X!Checks, NEW r \in X!Check,
           X!Weigh(c, r)
    PROVE  MemoryOK' /\ ExitsOK' /\ ChecksOK'
<1>1. /\ r.legs \subseteq Legs /\ X!Cardinality(r.legs) \in 0..X!Cardinality(Legs)
      /\ X!Cardinality(Legs) \in Nat /\ X!Grace(r.legs) \in 0..SettleGrace
  <2>1. r.legs \in SUBSET Legs
    BY DEF X!Check
  <2> QED
    BY <2>1, LegsCounted, GraceType
<1>2. MemoryOK /\ ExitsOK /\ ChecksOK /\ BreachTicks \in Nat /\ SettleGrace \in Nat
  BY DEF X!TypeOK, MemoryOK, ExitsOK, ChecksOK, ExitBounds
<1>3. X!End(c) => ChecksOK'
  BY <1>2, Replaced DEF X!End
<1>4. UNCHANGED X!exits => ExitsOK'
  BY <1>2 DEF X!exits, ExitsOK
<1>5. CASE X!WeighProfit(c, r)
  <2>1. UNCHANGED X!exits
    BY <1>5 DEF X!WeighProfit
  <2>2. CASE X!End(c) /\ UNCHANGED <<breaches, legCount, settle>>
    BY <1>2, <1>3, <1>4, <2>1, <2>2 DEF MemoryOK
  <2>3. CASE X!End(c) /\ breaches' = 0 /\ legCount' = 0 /\ settle' = 0
    BY <1>1, <1>2, <1>3, <1>4, <2>1, <2>3 DEF MemoryOK
  <2>4. CASE /\ legCount' = X!Cardinality(r.legs) /\ settle' = X!Grace(r.legs)
             /\ X!End(c) /\ (breaches' = breaches \/ breaches' = 0)
    BY <1>1, <1>2, <1>3, <1>4, <2>1, <2>4 DEF MemoryOK
  <2> DEFINE n == X!Smaller(BreachTicks, breaches + 1)
             look == [X!With(r, r.legs, "unknown") EXCEPT !.step = "diagnose", !.count = n]
  <2>5. CASE /\ legCount' = X!Cardinality(r.legs) /\ settle' = X!Grace(r.legs)
             /\ breaches' = n /\ check' = [check EXCEPT ![c] = look]
    <3>1. n \in 0..BreachTicks
      BY <1>2 DEF X!Smaller, MemoryOK
    <3>2. X!With(r, r.legs, "unknown") \in X!Check
      BY <1>1, WithType DEF X!Profits
    <3>3. look \in X!Check
      BY <3>1, <3>2 DEF X!Check, X!Steps
    <3> HIDE DEF look, n
    <3> QED
      BY <1>1, <1>2, <1>4, <2>1, <2>5, <3>1, <3>3, Replaced DEF MemoryOK
  <2> QED
    BY <1>5, <2>2, <2>3, <2>4, <2>5 DEF X!WeighProfit
<1>6. CASE X!WeighPrice(c, r)
  <2>1. breaches' = breaches
    BY <1>6 DEF X!WeighPrice
  <2>2. CASE X!End(c) /\ UNCHANGED <<legCount, settle, X!exits>>
    BY <1>2, <1>3, <1>4, <2>1, <2>2 DEF MemoryOK
  <2>3. CASE legCount' = X!Cardinality(r.legs) /\ settle' = X!Grace(r.legs)
    <3>1. MemoryOK'
      BY <1>1, <1>2, <2>1, <2>3 DEF MemoryOK
    <3>2. X!BeginExit(c, r) \/ (X!End(c) /\ UNCHANGED X!exits)
      BY <1>6, <2>3 DEF X!WeighPrice
    <3> QED
      BY <3>1, <3>2, <1>3, <1>4, BeginTypes
  <2> QED
    BY <1>6, <2>2, <2>3 DEF X!WeighPrice
<1> QED
  BY <1>5, <1>6 DEF X!Weigh

\* The types again, from their parts.
LEMMA TypesOfParts ==
    ASSUME X!TypeOK, MemoryOK', ExitsOK', ChecksOK',
           (exitMaster \subseteq Legs /\ flats \subseteq Legs /\ market \in X!Market)',
           (bounds \in X!Bounds /\ cache \in X!Cache \cup {NoCheck})'
    PROVE  X!TypeOK'
BY DEF X!TypeOK, MemoryOK, ExitsOK, ChecksOK

\* A bounded event is counted.
LEMMA CountType ==
    ASSUME ExitBounds, X!TypeOK
    PROVE  /\ bounds.moves < MaxMoves /\ X!Count("moves") => bounds' \in X!Bounds
           /\ bounds.turns < MaxTurns /\ X!Count("turns") => bounds' \in X!Bounds
           /\ bounds.faults < MaxFaults /\ X!Count("faults") => bounds' \in X!Bounds
BY DEF ExitBounds, X!TypeOK, X!Bounds, X!Count

\* Time takes from each timer and leaves the types.
LEMMA TickTypes ==
    ASSUME ExitConstants, ExitBounds, X!TypeOK, X!Tick PROVE X!TypeOK'
<1>1. \A t \in Nat : \A n \in 0..t : X!Down(n) \in 0..t
  BY DEF X!Down
<1>2. settle' \in 0..SettleGrace /\ lock' \in 0..LockTTL /\ cool' \in 0..Cooldown
  BY <1>1 DEF X!Tick, X!TypeOK, ExitBounds
<1>3. cache' \in X!Cache \cup {NoCheck}
  <2>1. CASE cache = NoCheck
    BY <2>1 DEF X!Tick
  <2>2. CASE cache # NoCheck
    <3>1. cache \in X!Cache /\ X!Down(cache.left) \in 0..CacheTTL
      BY <1>1, <2>2 DEF X!TypeOK, X!Cache, ExitBounds
    <3> QED
      BY <2>2, <3>1 DEF X!Tick, X!Cache
  <2> QED
    BY <2>1, <2>2
<1>4. check' \in [X!Checks -> X!Check \cup {NoCheck}]
  <2>1. ASSUME NEW c \in X!Checks PROVE check'[c] \in X!Check \cup {NoCheck}
    <3>1. CASE X!Exiting(c)
      <4>1. check[c] \in X!Check
        BY <3>1 DEF X!Exiting, X!TypeOK
      <4>2. X!Smaller(Cooldown, check[c].age + 1) \in 0..Cooldown
        BY <4>1 DEF X!Smaller, X!Check
      <4>3. check'[c] = [check[c] EXCEPT !.age = X!Smaller(Cooldown, @ + 1)]
        BY <3>1 DEF X!Tick
      <4> QED
        BY <4>1, <4>2, <4>3 DEF X!Check
    <3>2. CASE ~X!Exiting(c)
      BY <3>2 DEF X!Tick, X!TypeOK
    <3> QED
      BY <3>1, <3>2
  <2> QED
    BY <2>1 DEF X!Tick
<1> QED
  BY <1>2, <1>3, <1>4 DEF X!Tick, X!TypeOK

\* A check that has a record has one of its type, and whatever is cached has.
LEMMA Records ==
    ASSUME ExitBounds, X!TypeOK, NEW c \in X!Checks
    PROVE  /\ check[c] # NoCheck => check[c] \in X!Check
           /\ cache # NoCheck => cache \in X!Cache
           /\ X!Kind(c) \subseteq X!Kinds
BY DEF X!TypeOK, X!Kind, X!Kinds

\* A check goes on from a snapshot.
LEMMA SnapshotTypes ==
    ASSUME ExitConstants, ExitBounds, X!TypeOK, NEW c \in X!Checks, NEW r \in X!Check,
           cache # NoCheck, X!Weigh(c, X!With(r, cache.legs, cache.profit))
    PROVE  MemoryOK' /\ ExitsOK' /\ ChecksOK'
<1>1. cache.legs \in SUBSET Legs /\ cache.profit \in X!Profits
  BY DEF X!TypeOK, X!Cache
<1> QED
  BY <1>1, WithType, WeighTypes

\* A check begins and ends no flat close.
LEMMA ChecksLeaveFlats ==
    ASSUME NEW c, (\E kind : X!Start(c, kind)) \/ X!Continue(c) PROVE flats' = flats
BY DEF X!Start, X!Continue, X!Answer, X!NoAnswer, X!Evaluate, X!Diagnose, X!Burst, X!Finish

\* The steps of a check keep the types.
LEMMA CheckTypes ==
    ASSUME ExitConstants, ExitBounds, X!TypeOK, NEW c \in X!Checks,
           \/ \E kind \in X!Kind(c) : X!Start(c, kind)
           \/ X!Continue(c)
    PROVE  X!TypeOK'
<1>0. flats' \subseteq Legs
  BY ChecksLeaveFlats DEF X!TypeOK
<1>1. /\ MemoryOK /\ ExitsOK /\ ChecksOK
      /\ exitMaster \subseteq Legs /\ market \in X!Market
      /\ bounds \in X!Bounds /\ cache \in X!Cache \cup {NoCheck}
  BY DEF X!TypeOK, MemoryOK, ExitsOK, ChecksOK
<1>2. UNCHANGED X!exits => ExitsOK'
  BY <1>1 DEF X!exits, ExitsOK
<1>3. UNCHANGED <<breaches, legCount, settle>> => MemoryOK'
  BY <1>1 DEF MemoryOK
<1>4. X!End(c) => ChecksOK'
  BY <1>1, Replaced DEF X!End
<1>5. ASSUME NEW kind \in X!Kind(c), X!Start(c, kind) PROVE X!TypeOK'
  <2>1. kind \in X!Kinds /\ X!Fresh(kind) \in X!Check
    BY Records, FreshType
  <2>2. CASE /\ X!CacheValid /\ UNCHANGED cache
             /\ X!Weigh(c, X!With(X!Fresh(kind), cache.legs, cache.profit))
    <3>1. cache # NoCheck
      BY <2>2 DEF X!CacheValid
    <3>2. MemoryOK' /\ ExitsOK' /\ ChecksOK'
      BY <2>1, <2>2, <3>1, SnapshotTypes
    <3> QED
      BY <1>0, <1>1, <1>5, <2>2, <3>2, TypesOfParts DEF X!Start
  <2>3. CASE /\ check' = [check EXCEPT ![c] = X!Fresh(kind)]
             /\ cache' = IF kind = "tick" THEN NoCheck ELSE cache
             /\ UNCHANGED <<breaches, legCount, settle, X!exits>>
    <3>1. ChecksOK'
      BY <1>1, <2>1, <2>3, Replaced
    <3> QED
      BY <1>0, <1>1, <1>2, <1>3, <1>5, <2>3, <3>1, TypesOfParts DEF X!Start
  <2> QED
    BY <1>5, <2>2, <2>3 DEF X!Start
<1>6. CASE X!Answer(c)
  <2> DEFINE r == [X!With(check[c], exitMaster, market.profit) EXCEPT !.step = "answered"]
  <2>1. check[c] \in X!Check /\ market.profit \in X!Profits
    BY <1>1, <1>6, Records DEF X!Answer, X!At, X!Market
  <2>2. X!With(check[c], exitMaster, market.profit) \in X!Check
    BY <1>1, <2>1, WithType
  <2>3. r \in X!Check
    BY <2>2 DEF X!Check, X!Steps
  <2>4. check' = [check EXCEPT ![c] = r] /\ UNCHANGED <<X!memory, X!exits>>
    BY <1>6 DEF X!Answer
  <2> HIDE DEF r
  <2>5. ChecksOK'
    BY <1>1, <2>3, <2>4, Replaced
  <2> QED
    BY <1>0, <1>1, <1>2, <1>3, <1>6, <2>4, <2>5, TypesOfParts DEF X!Answer, X!memory
<1>7. CASE X!NoAnswer(c)
  <2>1. bounds' \in X!Bounds /\ check[c] \in X!Check
    BY <1>7, CountType, Records DEF X!NoAnswer, X!At
  <2>2. MemoryOK' /\ ExitsOK' /\ ChecksOK'
    <3>1. CASE X!End(c) /\ UNCHANGED <<breaches, legCount, settle, X!exits>>
      BY <1>2, <1>3, <1>4, <3>1
    <3>2. CASE cache # NoCheck /\ X!Weigh(c, X!With(check[c], cache.legs, cache.profit))
      BY <2>1, <3>2, SnapshotTypes
    <3>3. CASE X!Weigh(c, X!With(check[c], {}, "unknown"))
      <4>1. X!With(check[c], {}, "unknown") \in X!Check
        BY <2>1, WithType DEF X!Profits
      <4> QED
        BY <3>3, <4>1, WeighTypes
    <3> QED
      BY <1>7, <3>1, <3>2, <3>3 DEF X!NoAnswer
  <2> QED
    BY <1>0, <1>1, <1>7, <2>1, <2>2, TypesOfParts DEF X!NoAnswer
<1>8. CASE X!Evaluate(c)
  <2>1. check[c] \in X!Check
    BY <1>8, Records DEF X!Evaluate, X!At
  <2>2. MemoryOK' /\ ExitsOK' /\ ChecksOK'
    BY <1>8, <2>1, WeighTypes DEF X!Evaluate
  <2>3. cache' \in X!Cache
    BY <1>8, <2>1 DEF X!Evaluate, X!Cache, X!Check, ExitBounds
  <2> QED
    BY <1>0, <1>1, <1>8, <2>2, <2>3, TypesOfParts DEF X!Evaluate
<1>9. CASE X!Diagnose(c)
  <2>1. check[c] \in X!Check
    BY <1>9, Records DEF X!Diagnose, X!At
  <2>2. ExitsOK' /\ ChecksOK'
    BY <1>2, <1>4, <1>9, <2>1, BeginTypes DEF X!Diagnose
  <2>3. MemoryOK'
    BY <1>1, <1>9 DEF X!Diagnose, MemoryOK, ExitBounds
  <2> QED
    BY <1>0, <1>1, <1>9, <2>2, <2>3, TypesOfParts DEF X!Diagnose
<1>10. CASE X!Burst(c)
  <2> DEFINE r == [check[c] EXCEPT !.step = "end"]
  <2>1. check[c] \in X!Check
    BY <1>10, Records DEF X!Burst, X!At
  <2>2. r \in X!Check
    BY <2>1 DEF X!Check, X!Steps
  <2>3. check' = [check EXCEPT ![c] = r]
    BY <1>10 DEF X!Burst, X!Goto
  <2> HIDE DEF r
  <2>4. ChecksOK'
    BY <1>1, <2>2, <2>3, Replaced
  <2>5. ExitsOK'
    BY <1>1, <1>10 DEF X!Burst, ExitsOK
  <2>6. bounds' \in X!Bounds /\ exitMaster' \subseteq Legs
    BY <1>1, <1>10, CountType DEF X!Burst
  <2>7. UNCHANGED <<market, X!memory>>
    BY <1>10 DEF X!Burst
  <2> QED
    BY <1>0, <1>1, <1>3, <2>4, <2>5, <2>6, <2>7, TypesOfParts DEF X!memory
<1>11. CASE X!Finish(c)
  <2>1. ExitsOK'
    BY <1>1, <1>11 DEF X!Finish, ExitsOK, ExitBounds
  <2> QED
    BY <1>0, <1>1, <1>3, <1>4, <1>11, <2>1, TypesOfParts DEF X!Finish, X!memory
<1> QED
  BY <1>5, <1>6, <1>7, <1>8, <1>9, <1>10, <1>11 DEF X!Continue

\* With nothing in memory the types hold, before this step and after it.
LEMMA NothingRemembered ==
    ASSUME ExitConstants, ExitBounds
    PROVE  /\ /\ breaches = 0 /\ legCount = 0 /\ settle = 0
              /\ lock = 0 /\ cool = 0 /\ exitClosing = {} /\ flying = FALSE
              /\ check = [c \in X!Checks |-> NoCheck]
              => MemoryOK /\ ExitsOK /\ ChecksOK
           /\ /\ breaches' = 0 /\ legCount' = 0 /\ settle' = 0
              /\ lock' = 0 /\ cool' = 0 /\ exitClosing' = {} /\ flying' = FALSE
              /\ check' = [c \in X!Checks |-> NoCheck]
              => MemoryOK' /\ ExitsOK' /\ ChecksOK'
<1>1. /\ X!Cardinality(Legs) \in Nat /\ BreachTicks \in Nat /\ SettleGrace \in Nat
      /\ LockTTL \in Nat /\ Cooldown \in Nat
  <2>1. Legs \in SUBSET Legs
    OBVIOUS
  <2>2. X!Cardinality(Legs) \in Nat
    BY <2>1, LegsCounted
  <2> QED
    BY <2>2 DEF ExitBounds
<1>2. /\ 0 \in 0..X!Cardinality(Legs) /\ 0 \in 0..BreachTicks /\ 0 \in 0..SettleGrace
      /\ 0 \in 0..LockTTL /\ 0 \in 0..Cooldown
  BY <1>1
<1> QED
  BY <1>2 DEF MemoryOK, ExitsOK, ChecksOK

\* Every step keeps the types.
LEMMA NextExitTypes ==
    ASSUME ExitConstants, ExitBounds PROVE X!TypeOK /\ [X!Next]_(X!vars) => X!TypeOK'
<1> SUFFICES ASSUME X!TypeOK, [X!Next]_(X!vars) PROVE X!TypeOK'
  OBVIOUS
<1>1. ASSUME NEW legs \in SUBSET Legs, X!MasterMoves(legs) PROVE X!TypeOK'
  <2>1. bounds' \in X!Bounds
    BY <1>1, CountType DEF X!MasterMoves
  <2> QED
    BY <1>1, <2>1 DEF X!MasterMoves, X!TypeOK, X!memory, X!exits
<1>2. ASSUME NEW m \in X!Market, X!MarketTurns(m) PROVE X!TypeOK'
  <2>1. bounds' \in X!Bounds
    BY <1>2, CountType DEF X!MarketTurns
  <2> QED
    BY <1>2, <2>1 DEF X!MarketTurns, X!TypeOK, X!memory, X!exits
<1>3. CASE X!Tick
  BY <1>3, TickTypes
<1>4. CASE X!Restart
  <2>1. bounds' \in X!Bounds
    BY <1>4, CountType DEF X!Restart
  <2>2. MemoryOK' /\ ExitsOK' /\ ChecksOK'
    BY <1>4, NothingRemembered DEF X!Restart
  <2> QED
    BY <1>4, <2>1, <2>2, TypesOfParts DEF X!Restart, X!TypeOK
<1>5. ASSUME NEW c \in X!Checks, (\E kind \in X!Kind(c) : X!Start(c, kind)) \/ X!Continue(c)
      PROVE  X!TypeOK'
  BY <1>5, CheckTypes
<1>6. ASSUME NEW leg \in Legs, X!FlatBegin(leg) \/ X!FlatEnd(leg) PROVE X!TypeOK'
  BY <1>6 DEF X!FlatBegin, X!FlatEnd, X!TypeOK, X!memory
<1>7. CASE UNCHANGED X!vars
  BY <1>7 DEF X!vars, X!TypeOK, X!memory, X!exits
<1> QED
  BY <1>1, <1>2, <1>3, <1>4, <1>5, <1>6, <1>7 DEF X!Next, X!Continue

\* Before anything has happened.
LEMMA InitExitTypes ==
    ASSUME ExitConstants, ExitBounds PROVE X!Init => X!TypeOK
<1> SUFFICES ASSUME X!Init PROVE X!TypeOK
  OBVIOUS
<1>1. MemoryOK /\ ExitsOK /\ ChecksOK
  BY NothingRemembered DEF X!Init
<1>2. bounds \in X!Bounds
  BY DEF X!Init, X!Bounds, ExitBounds
<1> QED
  BY <1>1, <1>2 DEF X!Init, X!TypeOK, MemoryOK, ExitsOK, ChecksOK, X!Market, X!Profits

\* The counters and timers of the exits stay in their ranges, the snapshots and the close
\* locks are of legs, and a check is at a step of its pass (autoExitService.ts).
THEOREM ExitTypes ==
    ASSUME ExitConstants, ExitBounds PROVE X!Spec => []X!TypeOK
BY InitExitTypes, NextExitTypes, PTL DEF X!Spec

-----------------------------------------------------------------------------
(***************************************************************************)
(* The close locks.  A check that begins an exit was none before, and      *)
(* takes what nobody holds, as a flat close does; one that ends gives back *)
(* what it took, which nobody else took.                                   *)
(***************************************************************************)

\* An exit under way took the leg.
Took(c, leg) == X!Exiting(c) /\ leg \in check[c].took

OwnersInv ==
    /\ \A leg : leg \in exitClosing <=> leg \in flats \/ \E c \in X!Checks : Took(c, leg)
    /\ \A c \in X!Checks : \A leg : Took(c, leg) => leg \notin flats
    /\ \A c, d \in X!Checks : \A leg : Took(c, leg) /\ Took(d, leg) => c = d

\* The invariant says of each leg what the property says of the set.
LEMMA OwnersByLeg ==
    OwnersInv <=> X!CloseLocksAreOwned
BY DEF OwnersInv, Took, X!CloseLocksAreOwned

\* As long as nobody takes or gives back a leg, the owners stay.
LEMMA SameOwners ==
    ASSUME OwnersInv, exitClosing' = exitClosing, flats' = flats,
           \A c \in X!Checks : \A leg : Took(c, leg)' <=> Took(c, leg)
    PROVE  OwnersInv'
BY DEF OwnersInv

\* A check that is no exit is replaced by one that looks on, or ends.
LEMMA OwnersLookOn ==
    ASSUME OwnersInv, X!TypeOK, NEW c \in X!Checks, ~X!Exiting(c), NEW r,
           r = NoCheck \/ r.step \notin {"burst", "end"},
           check' = [check EXCEPT ![c] = r], exitClosing' = exitClosing, flats' = flats
    PROVE  OwnersInv'
<1>1. /\ check'[c] = r
      /\ \A d \in X!Checks \ {c} : check'[d] = check[d]
  BY DEF X!TypeOK
<1>2. ~X!Exiting(c)'
  BY <1>1 DEF X!Exiting
<1>3. \A d \in X!Checks : \A leg : Took(d, leg)' <=> Took(d, leg)
  BY <1>1, <1>2 DEF Took, X!Exiting
<1> QED
  BY <1>3, SameOwners

\* A check begins an exit, with the legs nobody is closing.
LEMMA OwnerJoins ==
    ASSUME ExitConstants, ExitBounds, OwnersInv, X!TypeOK, NEW c \in X!Checks, ~X!Exiting(c),
           NEW r \in X!Check, X!BeginExit(c, r), flats' = flats
    PROVE  OwnersInv'
<1>1. /\ X!Exit(r) # NoCheck /\ X!Exit(r).step = "burst"
      /\ X!Exit(r).took = r.legs \ exitClosing
  BY ExitType DEF ExitBounds
<1>2. /\ check'[c] = X!Exit(r) /\ exitClosing' = exitClosing \cup r.legs
      /\ \A d \in X!Checks \ {c} : check'[d] = check[d]
  BY DEF X!BeginExit, X!TypeOK
<1>3. \A leg : Took(c, leg)' <=> leg \in r.legs \ exitClosing
  BY <1>1, <1>2 DEF Took, X!Exiting
<1>4. \A d \in X!Checks \ {c} : \A leg : Took(d, leg)' <=> Took(d, leg)
  BY <1>2 DEF Took, X!Exiting
<1>5. \A leg : ~Took(c, leg)
  BY DEF Took
<1>6. ASSUME NEW leg
      PROVE  (leg \in exitClosing <=> leg \in flats \/ \E d \in X!Checks : Took(d, leg))'
  BY <1>2, <1>3, <1>4, <1>5 DEF OwnersInv
<1>7. ASSUME NEW d \in X!Checks, NEW e \in X!Checks, NEW leg, Took(d, leg)', Took(e, leg)'
      PROVE  d = e
  BY <1>3, <1>4, <1>7 DEF OwnersInv
<1>8. ASSUME NEW d \in X!Checks, NEW leg, Took(d, leg)' PROVE leg \notin flats
  BY <1>3, <1>4, <1>8 DEF OwnersInv
<1> QED
  BY <1>6, <1>7, <1>8 DEF OwnersInv

\* The verdict on a snapshot.
LEMMA OwnersWeigh ==
    ASSUME ExitConstants, ExitBounds, OwnersInv, X!TypeOK, NEW c \in X!Checks, ~X!Exiting(c),
           NEW r \in X!Check, X!Weigh(c, r), flats' = flats
    PROVE  OwnersInv'
<1>1. ASSUME X!End(c), exitClosing' = exitClosing PROVE OwnersInv'
  BY <1>1, OwnersLookOn DEF X!End
<1>2. CASE X!WeighProfit(c, r)
  <2>1. exitClosing' = exitClosing
    BY <1>2 DEF X!WeighProfit, X!exits
  <2>2. PICK n : n = breaches'
    OBVIOUS
  <2> DEFINE look == [X!With(r, r.legs, "unknown") EXCEPT !.step = "diagnose", !.count = n]
  <2>3. X!End(c) \/ check' = [check EXCEPT ![c] = look]
    BY <1>2, <2>2 DEF X!WeighProfit
  <2>4. look.step = "diagnose"
    BY DEF X!With
  <2> HIDE DEF look
  <2> QED
    BY <1>1, <2>1, <2>3, <2>4, OwnersLookOn
<1>3. CASE X!WeighPrice(c, r)
  <2>1. CASE X!BeginExit(c, r)
    BY <2>1, OwnerJoins
  <2>2. CASE X!End(c) /\ UNCHANGED X!exits
    BY <1>1, <2>2 DEF X!exits
  <2> QED
    BY <1>3, <2>1, <2>2 DEF X!WeighPrice
<1> QED
  BY <1>2, <1>3 DEF X!Weigh

\* An exit ends and gives back its legs.
LEMMA OwnerLeaves ==
    ASSUME OwnersInv, X!TypeOK, NEW c \in X!Checks, X!Finish(c) PROVE OwnersInv'
<1>1. X!Exiting(c)
  BY DEF X!Finish, X!At, X!Exiting
<1>2. /\ exitClosing' = exitClosing \ check[c].took /\ check'[c] = NoCheck /\ flats' = flats
      /\ \A d \in X!Checks \ {c} : check'[d] = check[d]
  BY DEF X!Finish, X!End, X!TypeOK
<1>3. \A leg : ~Took(c, leg)' /\ (Took(c, leg) <=> leg \in check[c].took)
  BY <1>1, <1>2 DEF Took, X!Exiting
<1>4. \A d \in X!Checks \ {c} : \A leg : Took(d, leg)' <=> Took(d, leg)
  BY <1>2 DEF Took, X!Exiting
<1>5. ASSUME NEW leg
      PROVE  (leg \in exitClosing <=> leg \in flats \/ \E d \in X!Checks : Took(d, leg))'
  BY <1>2, <1>3, <1>4 DEF OwnersInv
<1>6. ASSUME NEW d \in X!Checks, NEW e \in X!Checks, NEW leg, Took(d, leg)', Took(e, leg)'
      PROVE  d = e
  BY <1>3, <1>4, <1>6 DEF OwnersInv
<1>7. ASSUME NEW d \in X!Checks, NEW leg, Took(d, leg)' PROVE leg \notin flats'
  BY <1>2, <1>3, <1>4, <1>7 DEF OwnersInv
<1> QED
  BY <1>5, <1>6, <1>7 DEF OwnersInv

\* A flat close takes a lock that nobody holds, and gives back the one it took.
LEMMA FlatOwners ==
    ASSUME OwnersInv, NEW leg, X!FlatBegin(leg) \/ X!FlatEnd(leg) PROVE OwnersInv'
<1>1. \A c \in X!Checks : \A l : Took(c, l)' <=> Took(c, l)
  BY DEF X!FlatBegin, X!FlatEnd, Took, X!Exiting
<1>2. CASE X!FlatBegin(leg)
  <2>1. /\ leg \notin exitClosing
        /\ exitClosing' = exitClosing \cup {leg} /\ flats' = flats \cup {leg}
    BY <1>2 DEF X!FlatBegin
  <2> QED
    BY <1>1, <2>1 DEF OwnersInv
<1>3. CASE X!FlatEnd(leg)
  <2>1. leg \in flats /\ exitClosing' = exitClosing \ {leg} /\ flats' = flats \ {leg}
    BY <1>3 DEF X!FlatEnd
  <2> QED
    BY <1>1, <2>1 DEF OwnersInv
<1> QED
  BY <1>2, <1>3

\* The steps of a check keep the owners.
LEMMA CheckOwners ==
    ASSUME ExitConstants, ExitBounds, OwnersInv, X!TypeOK, NEW c \in X!Checks,
           \/ \E kind \in X!Kind(c) : X!Start(c, kind)
           \/ X!Continue(c)
    PROVE  OwnersInv'
<1>0. flats' = flats
  BY ChecksLeaveFlats
<1>1. ASSUME X!End(c), ~X!Exiting(c), UNCHANGED X!exits PROVE OwnersInv'
  BY <1>0, <1>1, OwnersLookOn DEF X!End, X!exits
<1>2. ASSUME NEW kind \in X!Kind(c), X!Start(c, kind) PROVE OwnersInv'
  <2>1. ~X!Exiting(c) /\ X!Fresh(kind) \in X!Check
    BY <1>2, Records, FreshType DEF X!Start, X!Exiting
  <2>2. CASE X!CacheValid /\ X!Weigh(c, X!With(X!Fresh(kind), cache.legs, cache.profit))
    <3>1. cache \in X!Cache
      BY <2>2, Records DEF X!CacheValid
    <3>2. X!With(X!Fresh(kind), cache.legs, cache.profit) \in X!Check
      BY <2>1, <3>1, WithType DEF X!Cache
    <3> QED
      BY <1>0, <2>1, <2>2, <3>2, OwnersWeigh
  <2>3. CASE check' = [check EXCEPT ![c] = X!Fresh(kind)] /\ UNCHANGED X!exits
    <3>1. X!Fresh(kind).step = "ask"
      BY DEF X!Fresh
    <3> QED
      BY <1>0, <2>1, <2>3, <3>1, OwnersLookOn DEF X!exits
  <2> QED
    BY <1>2, <2>2, <2>3 DEF X!Start
<1>3. CASE X!Answer(c)
  <2> DEFINE r == [X!With(check[c], exitMaster, market.profit) EXCEPT !.step = "answered"]
  <2>1. check' = [check EXCEPT ![c] = r] /\ exitClosing' = exitClosing
    BY <1>3 DEF X!Answer, X!exits
  <2>2. r.step = "answered"
    BY DEF X!With
  <2>3. ~X!Exiting(c)
    BY <1>3 DEF X!Answer, X!At, X!Exiting
  <2> HIDE DEF r
  <2> QED
    BY <1>0, <2>1, <2>2, <2>3, OwnersLookOn
<1>4. CASE X!NoAnswer(c)
  <2>1. ~X!Exiting(c) /\ check[c] \in X!Check
    BY <1>4, Records DEF X!NoAnswer, X!At, X!Exiting
  <2>2. CASE cache # NoCheck /\ X!Weigh(c, X!With(check[c], cache.legs, cache.profit))
    <3>1. X!With(check[c], cache.legs, cache.profit) \in X!Check
      BY <2>1, <2>2, Records, WithType DEF X!Cache
    <3> QED
      BY <1>0, <2>1, <2>2, <3>1, OwnersWeigh
  <2>3. CASE X!Weigh(c, X!With(check[c], {}, "unknown"))
    <3>1. X!With(check[c], {}, "unknown") \in X!Check
      BY <2>1, WithType DEF X!Profits
    <3> QED
      BY <1>0, <2>1, <2>3, <3>1, OwnersWeigh
  <2> QED
    BY <1>1, <1>4, <2>1, <2>2, <2>3 DEF X!NoAnswer
<1>5. CASE X!Evaluate(c)
  <2>1. ~X!Exiting(c) /\ check[c] \in X!Check
    BY <1>5, Records DEF X!Evaluate, X!At, X!Exiting
  <2> QED
    BY <1>0, <1>5, <2>1, OwnersWeigh DEF X!Evaluate
<1>6. CASE X!Diagnose(c)
  <2>1. ~X!Exiting(c) /\ check[c] \in X!Check
    BY <1>6, Records DEF X!Diagnose, X!At, X!Exiting
  <2>2. X!BeginExit(c, check[c]) \/ (X!End(c) /\ UNCHANGED X!exits)
    BY <1>6 DEF X!Diagnose
  <2> QED
    BY <1>0, <1>1, <2>1, <2>2, OwnerJoins
<1>7. CASE X!Burst(c)
  <2>1. /\ check' = [check EXCEPT ![c].step = "end"] /\ exitClosing' = exitClosing
        /\ check[c] # NoCheck /\ check[c].step = "burst"
    BY <1>7 DEF X!Burst, X!Goto, X!At
  <2>2. check[c] \in X!Check
    BY <2>1, Records
  <2>3. /\ check'[c].took = check[c].took /\ check'[c].step = "end" /\ check'[c] # NoCheck
        /\ \A d \in X!Checks \ {c} : check'[d] = check[d]
    <3>1. check'[c] = [check[c] EXCEPT !.step = "end"]
      BY <2>1 DEF X!TypeOK
    <3>2. check'[c] \in X!Check
      BY <2>2, <3>1 DEF X!Check, X!Steps
    <3> QED
      BY <2>1, <2>2, <3>1, <3>2 DEF X!TypeOK, X!Check, ExitBounds
  <2>4. \A d \in X!Checks : \A leg : Took(d, leg)' <=> Took(d, leg)
    BY <2>1, <2>3 DEF Took, X!Exiting
  <2> QED
    BY <1>0, <2>1, <2>4, SameOwners
<1>8. CASE X!Finish(c)
  BY <1>8, OwnerLeaves
<1> QED
  BY <1>2, <1>3, <1>4, <1>5, <1>6, <1>7, <1>8 DEF X!Continue

\* Time passes, and nobody takes or gives back a leg.
LEMMA TickOwners ==
    ASSUME ExitConstants, ExitBounds, OwnersInv, X!TypeOK, X!TypeOK', X!Tick PROVE OwnersInv'
<1>1. exitClosing' = exitClosing /\ flats' = flats
  BY DEF X!Tick
<1>2. ASSUME NEW c \in X!Checks PROVE \A leg : Took(c, leg)' <=> Took(c, leg)
  <2>1. CASE X!Exiting(c)
    <3>1. check'[c] = [check[c] EXCEPT !.age = X!Smaller(Cooldown, @ + 1)]
      BY <2>1 DEF X!Tick
    <3>2. check[c] \in X!Check /\ X!Smaller(Cooldown, check[c].age + 1) \in 0..Cooldown
      BY <2>1 DEF X!Exiting, X!TypeOK, X!Smaller, X!Check
    <3>3. check'[c] \in X!Check /\ check'[c].step = check[c].step /\ check'[c].took = check[c].took
      BY <3>1, <3>2 DEF X!Check
    <3>4. check'[c] # NoCheck
      BY <3>3 DEF ExitBounds
    <3> QED
      BY <2>1, <3>3, <3>4 DEF Took, X!Exiting
  <2>2. CASE ~X!Exiting(c)
    BY <2>2 DEF X!Tick, Took, X!Exiting
  <2> QED
    BY <2>1, <2>2
<1> QED
  BY <1>1, <1>2, SameOwners

\* Every step keeps the owners.
LEMMA NextOwners ==
    ASSUME ExitConstants, ExitBounds
    PROVE  X!TypeOK /\ X!TypeOK' /\ OwnersInv /\ [X!Next]_(X!vars) => OwnersInv'
<1> SUFFICES ASSUME X!TypeOK, X!TypeOK', OwnersInv, [X!Next]_(X!vars) PROVE OwnersInv'
  OBVIOUS
<1>1. ASSUME check' = check, flats' = flats, UNCHANGED X!exits PROVE OwnersInv'
  <2>1. \A c \in X!Checks : \A leg : Took(c, leg)' <=> Took(c, leg)
    BY <1>1 DEF Took, X!Exiting
  <2> QED
    BY <1>1, <2>1, SameOwners DEF X!exits
<1>2. CASE \E legs \in SUBSET Legs : X!MasterMoves(legs)
  BY <1>1, <1>2 DEF X!MasterMoves
<1>3. CASE \E m \in X!Market : X!MarketTurns(m)
  BY <1>1, <1>3 DEF X!MarketTurns
<1>4. CASE X!Tick
  BY <1>4, TickOwners
<1>5. CASE X!Restart
  <2>1. exitClosing' = {} /\ flats' = {} /\ \A c \in X!Checks : check'[c] = NoCheck
    BY <1>5 DEF X!Restart
  <2>2. \A c \in X!Checks : \A leg : ~Took(c, leg)'
    BY <2>1 DEF Took, X!Exiting
  <2> QED
    BY <2>1, <2>2 DEF OwnersInv
<1>6. ASSUME NEW c \in X!Checks, (\E kind \in X!Kind(c) : X!Start(c, kind)) \/ X!Continue(c)
      PROVE  OwnersInv'
  BY <1>6, CheckOwners
<1>7. CASE \E leg \in Legs : X!FlatBegin(leg) \/ X!FlatEnd(leg)
  BY <1>7, FlatOwners
<1>8. CASE UNCHANGED X!vars
  BY <1>1, <1>8 DEF X!vars
<1> QED
  BY <1>2, <1>3, <1>4, <1>5, <1>6, <1>7, <1>8 DEF X!Next, X!Continue

\* The close locks that are set are those of the exits and flat closes under way, each with
\* one owner, whatever exits and flat closes overlap, fail or are cut off by a restart
\* (executeMasterFlatAutoExit, notifyMasterFlat).
THEOREM CloseLocksOwned ==
    ASSUME ExitConstants, ExitBounds PROVE X!Spec => []X!CloseLocksAreOwned
<1>1. X!Init => OwnersInv
  BY DEF X!Init, OwnersInv, Took, X!Exiting
<1>2. OwnersInv => X!CloseLocksAreOwned
  BY OwnersByLeg
<1> QED
  BY <1>1, <1>2, NextOwners, InitExitTypes, NextExitTypes, PTL DEF X!Spec
=============================================================================
