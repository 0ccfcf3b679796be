------------------------------- MODULE AutoExit -------------------------------
(***************************************************************************)
(* The automatic exits of one strategy (autoExitService.ts): checks of the *)
(* profit and of the breakeven price, started by the poll of               *)
(* tradeEngine.ts and by websocket ticks, and the burst that closes the    *)
(* master's legs and then the followers'.                                  *)
(*                                                                         *)
(* A check looks at the master's legs, from a cache or from the exchange,  *)
(* and awaits in between; several checks run at the same time.  A burst is *)
(* kept alone by a lock that ends by a timer, a cooldown and a close lock  *)
(* per leg.  Which profit or price passes a threshold is a free choice.    *)
(*                                                                         *)
(* A flat close (notifyMasterFlat of tradeEngine.ts) closes the followers' *)
(* books of one leg, at a message, a poll or an exit's end, and takes and  *)
(* gives back the same close locks.  Its callers' words are a free choice; *)
(* its debounce of 8 s and the calls it turns away only refuse more.       *)
(*                                                                         *)
(* Timers count down with a common clock. The entry blocks an exit also    *)
(* sets only refuse more (FollowerCopy has their effect); the prefetch of  *)
(* the breakeven roster, which fills the cache as a check does, the log    *)
(* texts, the reasons kept for the followers' books and the debounce of    *)
(* 100 ms are left out.                                                    *)
(***************************************************************************)
EXTENDS Integers, FiniteSets

CONSTANTS
    Legs,         \* legs the master may hold
    Ticks,        \* checks of websocket ticks running at the same time
    Poll,         \* the slot of the poll's checks, one at a time
    LockTTL,      \* ACTIVE_EXIT_LOCK_TTL_MS
    Cooldown,     \* AUTO_EXIT_COOLDOWN_MS
    SettleGrace,  \* POSITION_SETTLE_GRACE_MS
    CacheTTL,     \* MASTER_LEGS_CACHE_TTL_MS
    BreachTicks,  \* SUSTAINED_BREACH_TICKS
    MaxMoves,     \* bound: openings and closings by the master itself
    MaxTurns,     \* bound: changes of the market
    MaxFaults,    \* bound: answers the exchange fails to give
    None

ASSUME TimesAssumption ==
    /\ {LockTTL, Cooldown, CacheTTL, BreachTicks} \subseteq Nat \ {0}
    /\ SettleGrace \in Nat /\ {MaxMoves, MaxTurns, MaxFaults} \subseteq Nat
ASSUME LegsAssumption == IsFiniteSet(Legs)
ASSUME SlotAssumption == Poll \notin Ticks

Checks == Ticks \cup {Poll}

VARIABLES
    master,     \* legs the master holds
    market,     \* whether the profit and the price are past a threshold now
    bounds,     \* moves, turns and faults so far
    cache,      \* masterLegsCache: legs, profit and time left, or None
    breaches,   \* breachCounters
    legCount,   \* lastLegCountByStrategy
    settle,     \* time left of positionSettleUntil
    lock,       \* time left of activeExits; 0 is free
    cool,       \* time left of the cooldown after lastAutoExitAt
    closing,    \* masterLegCloseInProgress
    flats,      \* legs whose notifyMasterFlat runs and took the close lock
    flying,     \* breakevenExitInFlight
    check       \* check[c]: what a check has read and where it stands, or None

memory == <<cache, breaches, legCount, settle>>
exits == <<lock, cool, closing, flying>>
vars == <<master, market, bounds, memory, exits, flats, check>>

Profits == {"past", "within", "unknown"}  \* "unknown": a leg has no quote
Market == [profit : Profits, price : BOOLEAN]
Bounds == [moves : 0..MaxMoves, turns : 0..MaxTurns, faults : 0..MaxFaults]
Cache == [legs : SUBSET Legs, profit : Profits, left : 0..CacheTTL]
Kinds == {"poll", "tick", "price"}
Steps == {"ask", "answered", "diagnose", "burst", "end"}
Check == [kind : Kinds, step : Steps,
          legs : SUBSET Legs, profit : Profits,  \* the snapshot
          price : BOOLEAN,                       \* the price of the tick
          count : 0..BreachTicks,
          took : SUBSET Legs,                    \* closeLockLegs
          age : 0..Cooldown]                     \* of its exit, counted up to the cooldown

ASSUME NoneAssumption == None \notin Cache \cup Check

TypeOK ==
    /\ master \subseteq Legs /\ market \in Market /\ bounds \in Bounds
    /\ cache \in Cache \cup {None}
    /\ breaches \in 0..BreachTicks
    /\ legCount \in 0..Cardinality(Legs)
    /\ settle \in 0..SettleGrace
    /\ lock \in 0..LockTTL /\ cool \in 0..Cooldown
    /\ {closing, flats} \subseteq SUBSET Legs /\ flying \in BOOLEAN
    /\ check \in [Checks -> Check \cup {None}]

Init ==
    /\ master \in SUBSET Legs
    /\ market = [profit |-> "within", price |-> FALSE]
    /\ bounds = [moves |-> 0, turns |-> 0, faults |-> 0]
    /\ cache = None /\ breaches = 0 /\ legCount = 0
    /\ settle = 0 /\ lock = 0 /\ cool = 0
    /\ closing = {} /\ flats = {} /\ flying = FALSE
    /\ check = [c \in Checks |-> None]

-----------------------------------------------------------------------------
(* Helpers *)

At(c, step) == check[c] # None /\ check[c].step = step
Exiting(c) == check[c] # None /\ check[c].step \in {"burst", "end"}
Goto(c, step) == check' = [check EXCEPT ![c].step = step]
End(c) == check' = [check EXCEPT ![c] = None]
Count(bound) == bounds' = [bounds EXCEPT ![bound] = @ + 1]
Smaller(a, b) == IF a < b THEN a ELSE b
Down(t) == IF t > 0 THEN t - 1 ELSE 0

Fresh(kind) ==
    [kind |-> kind, step |-> "ask", legs |-> {}, profit |-> "unknown",
     price |-> kind = "price" /\ market.price, count |-> 0, took |-> {}, age |-> 0]
With(r, legs, profit) == [r EXCEPT !.legs = legs, !.profit = profit]

\* Deviation, for the mutation of Grace: the grace starts again with every look.
GraceAnew(legs) == SettleGrace

\* What is left of the settle grace: more legs than at the last look start it.
Grace(legs) == IF Cardinality(legs) > legCount THEN SettleGrace ELSE settle

CacheValid == IF cache = None THEN FALSE ELSE cache.left > 0
Idle == cool = 0 /\ lock = 0

\* Deviation, for the mutation of Exit: legs that another exit is closing are released too.
ExitTakesAll(r) == [Fresh(r.kind) EXCEPT !.step = "burst", !.legs = r.legs, !.took = r.legs,
                                         !.price = FALSE]

\* Of the check only its legs are used from here on.
Exit(r) == [Fresh(r.kind) EXCEPT !.step = "burst", !.legs = r.legs, !.took = r.legs \ closing,
                                 !.price = FALSE]

\* Deviation, for the mutation of BeginExit: the cooldown starts when the burst is over.
BeginExitCool(c, r) ==
    /\ lock' = LockTTL /\ UNCHANGED cool
    /\ closing' = closing \cup r.legs
    /\ flying' = (flying \/ r.kind = "price")
    /\ check' = [check EXCEPT ![c] = Exit(r)]

\* tryAcquireAutoExitLock, lastAutoExitAt and the start of executeMasterFlatAutoExit: the
\* close locks of the legs nobody else is closing are taken.
BeginExit(c, r) ==
    /\ lock' = LockTTL /\ cool' = Cooldown
    /\ closing' = closing \cup r.legs
    /\ flying' = (flying \/ r.kind = "price")
    /\ check' = [check EXCEPT ![c] = Exit(r)]

-----------------------------------------------------------------------------
(* The market and time *)

MasterMoves(legs) ==
    /\ bounds.moves < MaxMoves /\ Count("moves")
    /\ legs # master /\ master' = legs
    /\ UNCHANGED <<market, memory, exits, flats, check>>

MarketTurns(m) ==
    /\ bounds.turns < MaxTurns /\ Count("turns")
    /\ m # market /\ market' = m
    /\ UNCHANGED <<master, memory, exits, flats, check>>

\* One unit of time; the lock's timer deletes the lock, whoever holds it.
Tick ==
    /\ settle' = Down(settle) /\ lock' = Down(lock) /\ cool' = Down(cool)
    /\ cache' = IF cache = None THEN None ELSE [cache EXCEPT !.left = Down(@)]
    /\ check' = [c \in Checks |->
                    IF Exiting(c) THEN [check[c] EXCEPT !.age = Smaller(Cooldown, @ + 1)]
                                  ELSE check[c]]
    /\ UNCHANGED <<master, market, bounds, breaches, legCount, closing, flats, flying>>

-----------------------------------------------------------------------------
(* A check *)

\* The profit of a snapshot is weighed; a breach is counted and then looked at closely.
WeighProfit(c, r) ==
    /\ UNCHANGED exits
    /\ \/ /\ r.legs # {} /\ r.profit = "unknown"
          /\ End(c) /\ UNCHANGED <<breaches, legCount, settle>>
       \/ /\ r.legs = {}
          /\ breaches' = 0 /\ legCount' = 0 /\ settle' = 0
          /\ End(c)
       \/ /\ r.legs # {} /\ r.profit # "unknown"
          /\ legCount' = Cardinality(r.legs) /\ settle' = Grace(r.legs)
          /\ \/ Grace(r.legs) > 0 /\ End(c) /\ UNCHANGED breaches
             \/ Grace(r.legs) = 0 /\ r.profit = "within" /\ End(c) /\ breaches' = 0
             \/ /\ Grace(r.legs) = 0 /\ r.profit = "past"
                /\ breaches' = Smaller(BreachTicks, breaches + 1)
                /\ check' = [check EXCEPT ![c] =
                                [With(r, r.legs, "unknown") EXCEPT !.step = "diagnose",
                                                                   !.count = breaches']]

\* The price of the tick; one breach is enough.
WeighPrice(c, r) ==
    /\ UNCHANGED breaches
    /\ \/ r.legs = {} /\ End(c) /\ UNCHANGED <<legCount, settle, exits>>
       \/ /\ r.legs # {}
          /\ legCount' = Cardinality(r.legs) /\ settle' = Grace(r.legs)
          /\ \/ Grace(r.legs) = 0 /\ r.price /\ Idle /\ BeginExit(c, r)
             \/ ~(Grace(r.legs) = 0 /\ r.price /\ Idle) /\ End(c) /\ UNCHANGED exits

Weigh(c, r) == IF r.kind = "price" THEN WeighPrice(c, r) ELSE WeighProfit(c, r)

\* runStrategyAutoExitCheck by the poll or by a bid/ask tick, which stays away while the
\* strategy is locked and drops the cache; runBreakevenExitCheckOnPrice by either.
Start(c, kind) ==
    /\ check[c] = None
    /\ kind = "tick" => lock = 0
    /\ kind = "price" => ~flying
    /\ \/ /\ kind # "tick" /\ CacheValid
          /\ Weigh(c, With(Fresh(kind), cache.legs, cache.profit))
          /\ UNCHANGED cache
       \/ /\ ~(kind # "tick" /\ CacheValid)
          /\ check' = [check EXCEPT ![c] = Fresh(kind)]
          /\ cache' = IF kind = "tick" THEN None ELSE cache
          /\ UNCHANGED <<breaches, legCount, settle, exits>>
    /\ UNCHANGED <<master, market, bounds, flats>>

\* resolveCachedMasterLegs: the positions come back, the quotes of the legs are asked for.
Answer(c) ==
    /\ At(c, "ask")
    /\ check' = [check EXCEPT ![c] = [With(@, master, market.profit) EXCEPT !.step = "answered"]]
    /\ UNCHANGED <<master, market, bounds, memory, exits, flats>>

\* The exchange fails; or it may not be asked, and an old snapshot has to serve, or none.
NoAnswer(c) ==
    /\ At(c, "ask")
    /\ bounds.faults < MaxFaults /\ Count("faults")
    /\ \/ End(c) /\ UNCHANGED <<breaches, legCount, settle, exits>>
       \/ cache # None /\ Weigh(c, With(check[c], cache.legs, cache.profit))
       \/ cache = None /\ Weigh(c, With(check[c], {}, "unknown"))
    /\ UNCHANGED <<master, market, cache, flats>>

Evaluate(c) ==
    /\ At(c, "answered")
    /\ cache' = [legs |-> check[c].legs, profit |-> check[c].profit, left |-> CacheTTL]
    /\ Weigh(c, check[c])
    /\ UNCHANGED <<master, market, bounds, flats>>

\* The positions asked for once more, for the log only; then the verdict on the count and
\* the legs of before.
Diagnose(c) ==
    /\ At(c, "diagnose")
    /\ \/ check[c].count >= BreachTicks /\ Idle /\ BeginExit(c, check[c]) /\ breaches' = 0
       \/ ~(check[c].count >= BreachTicks /\ Idle) /\ End(c) /\ UNCHANGED <<breaches, exits>>
    /\ UNCHANGED <<master, market, bounds, cache, legCount, settle, flats>>

-----------------------------------------------------------------------------
(* The exit *)

\* closeAllMasterPositionsMarket: reduce-only orders for the legs of the snapshot, some of
\* which fail; a leg that is gone is refused.  The cooldown starts again if one succeeds.
Burst(c) ==
    /\ At(c, "burst")
    /\ \E shut \in SUBSET (check[c].legs \cap master) :
          /\ shut # check[c].legs \cap master => bounds.faults < MaxFaults
          /\ IF shut = check[c].legs \cap master THEN UNCHANGED bounds ELSE Count("faults")
          /\ master' = master \ shut
          /\ cool' = IF shut # {} THEN Cooldown ELSE cool
    /\ Goto(c, "end")
    /\ UNCHANGED <<market, memory, lock, closing, flats, flying>>

\* The followers' books are closed and the locks released, whoever holds the strategy's.
Finish(c) ==
    /\ At(c, "end")
    /\ closing' = closing \ check[c].took
    /\ lock' = 0
    /\ flying' = (flying /\ check[c].kind # "price")
    /\ End(c)
    /\ UNCHANGED <<master, market, bounds, memory, cool, flats>>

-----------------------------------------------------------------------------
(* A flat close *)

\* notifyMasterFlat, for a message or a poll that calls the leg flat, late or wrong as it
\* may be, or by an exit for the followers' books: it takes the leg's close lock if free.
\* A call that finds it taken goes without, and turns no lock.
FlatBegin(leg) ==
    /\ leg \notin closing
    /\ closing' = closing \cup {leg} /\ flats' = flats \cup {leg}
    /\ UNCHANGED <<master, market, bounds, memory, lock, cool, flying, check>>

\* Closed or failed, it gives back the lock it took.
FlatEnd(leg) ==
    /\ leg \in flats
    /\ closing' = closing \ {leg} /\ flats' = flats \ {leg}
    /\ UNCHANGED <<master, market, bounds, memory, lock, cool, flying, check>>

-----------------------------------------------------------------------------
\* Everything in memory is lost, an exit under way included.
Restart ==
    /\ bounds.faults < MaxFaults /\ Count("faults")
    /\ cache' = None /\ breaches' = 0 /\ legCount' = 0 /\ settle' = 0
    /\ lock' = 0 /\ cool' = 0 /\ closing' = {} /\ flats' = {} /\ flying' = FALSE
    /\ check' = [c \in Checks |-> None]
    /\ UNCHANGED <<master, market>>

-----------------------------------------------------------------------------

Kind(c) == IF c = Poll THEN {"poll", "price"} ELSE {"tick", "price"}
Continue(c) == Answer(c) \/ NoAnswer(c) \/ Evaluate(c) \/ Diagnose(c) \/ Burst(c) \/ Finish(c)

Next ==
    \/ \E legs \in SUBSET Legs : MasterMoves(legs)
    \/ \E m \in Market : MarketTurns(m)
    \/ Tick
    \/ Restart
    \/ \E leg \in Legs : FlatBegin(leg) \/ FlatEnd(leg)
    \/ \E c \in Checks :
          \/ \E kind \in Kind(c) : Start(c, kind)
          \/ Answer(c)
          \/ NoAnswer(c)
          \/ Evaluate(c)
          \/ Diagnose(c)
          \/ Burst(c)
          \/ Finish(c)

Spec == Init /\ [][Next]_vars

\* Time passes, what is awaited returns, and the poll's pass comes around: it checks the
\* profit and then the price, so neither can keep the other out.
FairSpec ==
    /\ Spec
    /\ WF_vars(Tick)
    /\ \A c \in Checks : WF_vars(Continue(c))
    /\ SF_vars(Start(Poll, "poll"))

-----------------------------------------------------------------------------
(* Properties *)

\* Two exits of the strategy run together only if one of them has run for the cooldown:
\* the lock may have ended by its timer or been released by another exit before.
ExitsOverlapOnlyPastCooldown ==
    \A c, d \in Checks :
        c # d /\ Exiting(c) /\ Exiting(d) =>
            check[c].age >= Cooldown \/ check[d].age >= Cooldown

\* Each close lock that is set has one owner, an exit or a flat close under way: none
\* outlives its owner, and no exit or flat close releases a leg while another that locked
\* it still closes it.
CloseLocksAreOwned ==
    /\ closing = flats \cup UNION {check[c].took : c \in {d \in Checks : Exiting(d)}}
    /\ \A c \in Checks : Exiting(c) => check[c].took \cap flats = {}
    /\ \A c, d \in Checks :
           c # d /\ Exiting(c) /\ Exiting(d) => check[c].took \cap check[d].took = {}

\* A profit that stays past its threshold while the master holds legs is acted on again
\* and again, whatever the ticks, failures and exits before it left behind.
SustainedBreachIsActedOn ==
    <>[](market.profit = "past" /\ master # {}) => []<>(\E c \in Checks : Exiting(c))

\* The comment on SUSTAINED_BREACH_TICKS: no exit unless the last looks all were past.
ExitNeedsSustainedBreach ==
    [][\A c \in Checks :
          At(c, "diagnose") /\ (Exiting(c))' => breaches >= BreachTicks]_vars

\* The comment on runStrategyAutoExitCheck: every open leg of the master is closed.
ExitMeetsEveryOpenLeg ==
    [][\A c \in Checks :
          ~Exiting(c) /\ (Exiting(c))' => master \subseteq check'[c].legs]_vars
=============================================================================
