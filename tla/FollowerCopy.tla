----------------------------- MODULE FollowerCopy -----------------------------
(***************************************************************************)
(* One leg of one follower kept equal to the master's leg                  *)
(* (followerTradeExecution.ts, tradeEngine.ts, tradePositionService.ts).   *)
(*                                                                         *)
(* Live fills and the REST poll each compare the follower with the master  *)
(* and order what is missing.  Between testing the locks, reading and      *)
(* ordering they await, so two of them may order the same lots; what keeps *)
(* them apart is a 12 second "in flight" window, a promise chain per leg   *)
(* and, on the REST path, a second look inside the chain.  A close takes   *)
(* everything off while those may still be running.                        *)
(*                                                                         *)
(* The message of a fill comes later than the fill, and the tracker it is  *)
(* counted on may have been raised meanwhile.                              *)
(*                                                                         *)
(* The follower's multiplier is 1 and one unit is one contract.            *)
(***************************************************************************)
EXTENDS Integers, Sequences, FiniteSets, FiniteSetsExt

CONSTANTS
    Fills,          \* the master's opening fills
    FillLots,       \* the lots of each of them
    OtherLegs,      \* bound: whether a master without or with other legs is explored
    MaxUpsets       \* bound on the times the master trims or closes the leg, and the
                    \* follower's orders, and reads of its leg, that fail

ASSUME BoundsAssumption ==
    /\ IsFiniteSet(Fills) /\ FillLots \in Nat \ {0}
    /\ OtherLegs \subseteq BOOLEAN /\ MaxUpsets \in Nat

VARIABLES
    master,     \* the master's leg on the exchange
    others,     \* the master holds other legs as well (never changes)
    peak,       \* the largest the master's leg has been
    reduces,    \* the times the master has reduced the leg
    failures,   \* the follower's orders, and reads of its leg, that failed
    held,       \* the follower's leg on the exchange
    shown,      \* the follower's leg as the position endpoint reports it
    rows,       \* the follower's OPEN TradePosition rows of the leg
    inflight,   \* followerCopyInflightUntil lies ahead
    closing,    \* the flatting and the closing lock of the leg
    chain,      \* copyLegExecutionChains: the jobs waiting, the first one running
    job,        \* the copying jobs: one per fill, the REST poll's
    poll,       \* the size of the leg the REST poll has fetched, None between polls
    tracked,    \* MasterPositionTracker: the leg as the process knows it
    counted,    \* the largest total a fill's message made of the tracker and its lots
    lastRest,   \* lastRestContractsByLeg
    closer,     \* the close, or the instant trim, of the followers under way
    unguarded   \* a window did not cover a decision taken beside it, or one was taken
                \* without the exchange's answer

vars == <<master, others, peak, reduces, failures, held, shown, rows, inflight, closing,
          chain, job, poll, tracked, counted, lastRest, closer, unguarded>>

market == <<master, others, peak, reduces, counted>>
engine == <<poll, tracked, lastRest, closer, closing>>

None == -1
Poller == "poll"
ASSUME PollerAssumption == Poller \notin Fills
Jobs == Fills \cup {Poller}
Lots == 0..(FillLots * Cardinality(Fills))

Smaller(a, b) == IF a < b THEN a ELSE b
Larger(a, b) == IF a > b THEN a ELSE b

\* sumOpenFollowerBotQuantity
Db == MapThenSumSet(LAMBDA r : r.qty, rows)

Idle == [step |-> "idle", target |-> 0, lots |-> 0, key |-> <<>>]
\* A job that goes on to the step s, with n lots.
At(r, s, n) == [step |-> s, target |-> r.target, lots |-> n, key |-> r.key]
Done == At(Idle, "done", 0)
NoClose == [kind |-> "none", step |-> "none", lots |-> 0]
CloseAt(s, n) == IF s = "check" /\ closer.kind = "trim" THEN NoClose
                 ELSE [kind |-> closer.kind, step |-> s, lots |-> n]
JobSteps == {"idle", "sent", "lock", "test", "db", "look", "again", "run", "enter", "wait",
             "order", "persist", "trim", "size", "cut", "clear", "done"}

TypeOK ==
    /\ {master, peak} \subseteq Lots
    /\ {reduces, failures} \subseteq 0..MaxUpsets
    /\ {held, shown, tracked, counted, lastRest} \subseteq Nat
    /\ \A r, s \in rows : r.qty > 0 /\ (r.key = s.key => r = s)
    /\ {others, inflight, closing, unguarded} \subseteq BOOLEAN
    /\ \A j \in Jobs :
        /\ job[j].step \in JobSteps
        /\ job[j].step \in {"wait", "order"} <=> \E i \in DOMAIN chain : chain[i] = j
        /\ job[j].step = "order" => Head(chain) = j
    /\ \A i, k \in DOMAIN chain : chain[i] = chain[k] => i = k
    /\ poll \in Lots \cup {None}
    /\ closer.kind \in {"none", "ws", "trim", "rest", "orphan"}
    /\ closer.step \in {"none", "read", "look", "order", "rows", "check"}

Init ==
    /\ master = 0 /\ peak = 0 /\ reduces = 0 /\ failures = 0
    /\ others \in OtherLegs
    /\ held = 0 /\ shown = 0 /\ rows = {}
    /\ inflight = FALSE /\ closing = FALSE
    /\ chain = <<>>
    /\ job = [j \in Jobs |-> Idle]
    /\ poll = None /\ tracked = 0 /\ counted = 0 /\ lastRest = 0
    /\ closer = NoClose
    /\ unguarded = FALSE

-----------------------------------------------------------------------------
(* The master and the exchange *)

UpsetsLeft == reduces + failures < MaxUpsets

\* A fill on the exchange; its message is under way.
Fill(f) ==
    /\ job[f] = Idle
    /\ master' = master + FillLots
    /\ peak' = Larger(peak, master + FillLots)
    /\ job' = [job EXCEPT ![f] = At(Idle, "sent", 0)]
    /\ UNCHANGED <<others, reduces, failures, held, shown, rows, inflight, closing, chain,
                   poll, tracked, counted, lastRest, closer, unguarded>>

\* The message of a fill: unless a lock is held, its lots are counted on top of what is
\* tracked.  It may be lost, or refused (a flat hint, a total forwarded before).
Receive(f) ==
    /\ job[f].step = "sent"
    /\ \/ /\ ~closing
          /\ tracked' = tracked + FillLots
          /\ counted' = Larger(counted, tracked + FillLots)
          /\ job' = [job EXCEPT ![f] = [step |-> "lock", target |-> tracked + FillLots,
                                        lots |-> 0, key |-> <<f>>]]
       \/ /\ job' = [job EXCEPT ![f] = Done]
          /\ UNCHANGED <<tracked, counted>>
    /\ UNCHANGED <<master, others, peak, reduces, failures, held, shown, rows, inflight,
                   closing, chain, poll, lastRest, closer, unguarded>>

\* A close, or a trim, of the followers begins with n lots.
Begin(kind, n) == closer = NoClose /\ closer' = [kind |-> kind, step |-> "read", lots |-> n]
BeginClose(kind, n) == Begin(kind, n) /\ closing' = TRUE

\* A closing message closes the tracked lots, unless a lock is held.
CloseMessage == tracked > 0 /\ ~closing /\ BeginClose("ws", tracked)

\* The master takes lots off, with a message of the closing fill or without.
Reduce(k) ==
    /\ UpsetsLeft
    /\ 0 < k /\ k <= master
    /\ master' = master - k
    /\ reduces' = reduces + 1
    /\ CloseMessage \/ UNCHANGED <<closer, closing>>
    /\ UNCHANGED <<others, peak, failures, held, shown, rows, inflight, chain, job, poll,
                   tracked, counted, lastRest, unguarded>>

\* A positions message: the tracker takes the leg's size over; a smaller one trims the
\* followers unless a close runs.
SizeMessage ==
    /\ master > 0 /\ tracked # master
    /\ tracked' = master
    /\ \/ /\ tracked > master /\ ~closing
          /\ Begin("trim", tracked - master)
          /\ lastRest' = master
       \/ /\ tracked < master \/ closing \/ closer.kind \in {"ws", "rest"}
          /\ UNCHANGED <<closer, lastRest>>
    /\ UNCHANGED <<market, failures, held, shown, rows, inflight, chain, job, poll,
                   closing, unguarded>>

\* A positions message of a leg that is gone closes the followers.
FlatMessage ==
    /\ master = 0 /\ CloseMessage
    /\ UNCHANGED <<market, failures, held, shown, rows, inflight, chain, job, poll, tracked,
                   lastRest, unguarded>>

\* The position endpoint catches up.
Settle ==
    /\ shown # held
    /\ shown' = held
    /\ UNCHANGED <<market, failures, held, rows, inflight, chain, job, engine, unguarded>>

\* An order to open the lots of job j, and one to close at most n lots.
Buy(n) == held' = held + n /\ UNCHANGED failures
Sell(n) == held' = held - Smaller(n, held) /\ UNCHANGED failures
Fail == UpsetsLeft /\ failures' = failures + 1 /\ UNCHANGED held

-----------------------------------------------------------------------------
(* The guards of the copying jobs *)

\* The window ends after 12 seconds, whatever still waits behind it.
Expire ==
    /\ inflight
    /\ inflight' = FALSE
    /\ unguarded' = (unguarded \/ chain # <<>> \/ shown # held)
    /\ UNCHANGED <<market, failures, held, shown, rows, chain, job, engine>>

Unlock ==
    /\ closing
    /\ closing' = FALSE
    /\ UNCHANGED <<market, failures, held, shown, rows, inflight, chain, job, poll,
                   tracked, lastRest, closer, unguarded>>

\* The job has tested the window for the last time and has not opened its own yet.
Deciding(j) == job[j].step \in (IF j \in Fills THEN {"db", "look", "run", "enter"}
                                ELSE {"enter"})

\* executeFollowerTradeWithVerification marks the leg in flight and joins its chain.
Enter(j) ==
    /\ job[j].step = "enter"
    /\ inflight' = TRUE
    /\ unguarded' = (unguarded \/ \E k \in Jobs \ {j} : Deciding(k))
    /\ chain' = Append(chain, j)
    /\ job' = [job EXCEPT ![j] = At(job[j], "wait", job[j].lots)]
    /\ UNCHANGED <<market, failures, held, shown, rows, engine>>

Turn(j) == chain # <<>> /\ Head(chain) = j
Leave == chain' = Tail(chain)

\* recordTradePositionOpen: a row that is open already is left as it is.
OpenRow(key, qty) ==
    rows' = IF \E r \in rows : r.key = key THEN rows
            ELSE rows \cup {[key |-> key, qty |-> qty]}

\* A job ends; the poll's takes over what it fetched.
Finish(j) ==
    /\ job' = [job EXCEPT ![j] = IF j \in Fills THEN Done ELSE Idle]
    /\ IF j = Poller
       THEN tracked' = poll /\ lastRest' = poll /\ poll' = None
       ELSE UNCHANGED <<tracked, lastRest, poll>>

\* A job goes on to the step s with n lots.
GoOn(j, s, n) ==
    /\ job' = [job EXCEPT ![j] = At(job[j], s, n)]
    /\ UNCHANGED <<tracked, lastRest, poll>>

\* A job at the step s ends under a guard, or goes on to the step t.
Pass(j, s, guard, t) ==
    /\ job[j].step = s
    /\ IF guard THEN Finish(j) ELSE GoOn(j, t, job[j].lots)
    /\ UNCHANGED <<market, failures, held, shown, rows, inflight, chain, closer,
                   closing, unguarded>>

-----------------------------------------------------------------------------
(* The decision: what is missing (followerBotOpenDeficitLots) *)

\* The lock is tested, then the subscribers are awaited.
TestLock(j) == Pass(j, "lock", closing, "test")

\* Deviation, for the mutation of TestWindow: the in-flight window is not looked at.
SkipWindow(j) == Pass(j, "test", FALSE, "db")

\* The window is tested, then the rows are read, then the position is asked for.
TestWindow(j) == Pass(j, "test", inflight, "db")

ReadRows(j) ==
    /\ job[j].step = "db"
    /\ GoOn(j, "look", Db)
    /\ UNCHANGED <<market, failures, held, shown, rows, inflight, chain, closer,
                   closing, unguarded>>

\* What is missing of the target, beside n lots on the exchange and those of the rows.
Missing(j, n) == Larger(0, job[j].target - Larger(job[j].lots, n))

\* A live fill orders its own lots at most.  A position that cannot be read counts as none.
ReadLeg(j) ==
    /\ job[j].step = "look"
    /\ \E n \in {0, shown} :
        /\ \/ n = shown /\ UNCHANGED <<failures, unguarded>>
           \/ n = 0 /\ UpsetsLeft /\ failures' = failures + 1 /\ unguarded' = TRUE
        /\ IF Missing(j, n) = 0
           THEN Finish(j)
           ELSE IF j \in Fills
           THEN GoOn(j, "run", Smaller(FillLots, Missing(j, n)))
           ELSE GoOn(j, "again", 0)
    /\ UNCHANGED <<market, held, shown, rows, inflight, chain, closer, closing>>

Decide(j) == TestLock(j) \/ TestWindow(j) \/ ReadRows(j) \/ ReadLeg(j)

-----------------------------------------------------------------------------
(* A live fill *)

\* The lock is tested again, then the strategy is awaited.
LiveRun(f) == Pass(f, "run", closing, "enter")

\* The order is placed without another look; its row is written later.
Place(f) ==
    /\ job[f].step = "wait"
    /\ \/ /\ Buy(job[f].lots)
          /\ inflight' = TRUE
          /\ GoOn(f, "persist", job[f].lots)
       \/ Fail /\ Finish(f) /\ UNCHANGED inflight
    /\ UNCHANGED <<market, shown, rows, closer, closing, unguarded>>

\* Deviation, for the mutation of LiveOrder: the order is placed outside the chain.
LiveOrderOutOfTurn(f) == chain' = SelectSeq(chain, LAMBDA j : j # f) /\ Place(f)

LiveOrder(f) == Turn(f) /\ Leave /\ Place(f)

Persist(j) ==
    /\ job[j].step = "persist"
    /\ \E qty \in {job[j].lots} \cup (IF j \in Fills THEN {} ELSE {job[j].target}) :
        OpenRow(job[j].key, qty)
    /\ Finish(j)
    /\ UNCHANGED <<market, failures, held, shown, inflight, chain, closer, closing,
                   unguarded>>

LiveStep(f) ==
    \/ Receive(f) \/ Decide(f)
    \/ LiveRun(f) \/ Enter(f) \/ LiveOrder(f)
    \/ Persist(f)

-----------------------------------------------------------------------------
(* The REST poll's job: forceSyncMasterOpenToFollowers and the trim *)

\* The window is tested once more; after that no lock and no window.
RestAgain == Pass(Poller, "again", inflight, "enter")

\* In its turn the job looks at the position again: nothing to order, or the rest.
RestStart ==
    /\ job[Poller].step = "wait" /\ Turn(Poller)
    /\ IF shown >= job[Poller].target
       THEN Leave /\ OpenRow(job[Poller].key, job[Poller].target) /\ Finish(Poller)
       ELSE GoOn(Poller, "order", job[Poller].target - shown) /\ UNCHANGED <<chain, rows>>
    /\ UNCHANGED <<market, failures, held, shown, inflight, closer, closing, unguarded>>

RestOrder ==
    /\ job[Poller].step = "order"
    /\ Leave
    /\ \/ /\ Buy(job[Poller].lots)
          /\ inflight' = TRUE
          /\ GoOn(Poller, "persist", job[Poller].lots)
       \/ Fail /\ Finish(Poller) /\ UNCHANGED inflight
    /\ UNCHANGED <<market, shown, rows, closer, closing, unguarded>>

\* A trim is a reduce-only order; done, it closes every row of the leg.
Trim == Pass(Poller, "trim", inflight, "size")

TrimSize ==
    /\ job[Poller].step = "size"
    /\ IF shown = 0 THEN GoOn(Poller, "clear", 0)
       ELSE GoOn(Poller, "cut", Smaller(job[Poller].lots, shown))
    /\ UNCHANGED <<market, failures, held, shown, rows, inflight, chain, closer,
                   closing, unguarded>>

Cut ==
    /\ job[Poller].step = "cut"
    /\ \/ Sell(job[Poller].lots) /\ GoOn(Poller, "clear", 0)
       \/ Fail /\ Finish(Poller)
    /\ UNCHANGED <<market, shown, rows, inflight, chain, closer, closing, unguarded>>

Clear ==
    /\ job[Poller].step = "clear"
    /\ Finish(Poller)
    /\ rows' = {}
    /\ UNCHANGED <<market, failures, held, shown, inflight, chain, closer, closing,
                   unguarded>>

RestStep ==
    \/ Decide(Poller) \/ RestAgain
    \/ Enter(Poller) \/ RestStart \/ RestOrder
    \/ Persist(Poller)
    \/ Trim \/ TrimSize \/ Cut \/ Clear

-----------------------------------------------------------------------------
(* pollMasterPositionsFallback *)

PollRead ==
    /\ poll = None
    /\ poll' = master
    /\ UNCHANGED <<market, failures, held, shown, rows, inflight, chain, job, tracked,
                   lastRest, closer, closing, unguarded>>

\* An open leg: a smaller one trims the followers, otherwise what is missing is opened.
PollOpen ==
    /\ poll > 0
    /\ job[Poller].step = "idle"
    /\ IF closing
       THEN poll' = None /\ UNCHANGED job
       ELSE /\ job' = [job EXCEPT ![Poller] =
                    IF lastRest > poll
                    THEN At(Idle, "trim", lastRest - poll)
                    ELSE [step |-> "lock", target |-> poll, lots |-> 0,
                          key |-> IF lastRest \in {0, poll} THEN <<poll>>
                                  ELSE <<lastRest, poll>>]]
            /\ UNCHANGED poll
    /\ UNCHANGED <<market, failures, held, shown, rows, inflight, chain, tracked, lastRest,
                   closer, closing, unguarded>>

\* Deviation, for the mutation of PollMissing: a leg nothing tracks is left alone.
PollMissingTracked ==
    /\ poll = 0
    /\ poll' = None
    /\ IF tracked > 0 /\ master = 0 /\ closer = NoClose
       THEN BeginClose("rest", 0)
       ELSE UNCHANGED closer /\ closing' \in {closing, closing \/ ~others}
    /\ UNCHANGED <<market, failures, held, shown, rows, inflight, chain, job, tracked,
                   lastRest, unguarded>>

\* A tracked leg that is gone, also when asked again, closes the followers; an empty
\* book takes the flatting lock after a while, and closes what nothing tracks.
PollMissing ==
    /\ poll = 0
    /\ poll' = None
    /\ IF tracked > 0 /\ master = 0 /\ closer = NoClose
       THEN BeginClose("rest", 0)
       ELSE IF tracked = 0 /\ master = 0 /\ ~others /\ closer = NoClose
               /\ (rows # {} \/ shown > 0)
       THEN BeginClose("orphan", 0)
       ELSE UNCHANGED closer /\ closing' \in {closing, closing \/ ~others}
    /\ UNCHANGED <<market, failures, held, shown, rows, inflight, chain, job, tracked,
                   lastRest, unguarded>>

-----------------------------------------------------------------------------
(* syncMasterCloseToFollowers *)

\* A closing message takes the tracked lots off whatever is in flight; the others test the
\* window first.
CloseRead ==
    /\ closer.step = "read"
    /\ closer' = IF closer.kind # "ws" /\ inflight THEN CloseAt("check", 0)
                 ELSE CloseAt("look", closer.lots)
    /\ UNCHANGED <<market, failures, held, shown, rows, inflight, chain, job, poll, tracked,
                   lastRest, closing, unguarded>>

\* A trim takes its lots off, the REST close all there is; where there are none, they
\* clear the rows, the REST close only outside the window.
CloseLook ==
    /\ closer.step = "look"
    /\ LET lots == IF closer.kind \in {"ws", "trim"} THEN Smaller(closer.lots, shown)
                   ELSE shown
           clears == lots = 0 /\ (closer.kind = "trim" \/ (closer.kind # "ws" /\ ~inflight))
       IN /\ closer' = IF lots = 0 THEN CloseAt("check", 0) ELSE CloseAt("order", lots)
          /\ rows' = IF clears THEN {} ELSE rows
    /\ UNCHANGED <<market, failures, held, shown, inflight, chain, job, poll, tracked,
                   lastRest, closing, unguarded>>

CloseOrder ==
    /\ closer.step = "order"
    /\ \/ Sell(closer.lots) /\ closer' = CloseAt("rows", 0)
       \/ Fail /\ closer' = CloseAt("check", 0)
    /\ UNCHANGED <<market, shown, rows, inflight, chain, job, poll, tracked, lastRest,
                   closing, unguarded>>

\* closeTradePositionsForLeg
CloseRows ==
    /\ closer.step = "rows"
    /\ rows' = {}
    /\ closer' = CloseAt("check", 0)
    /\ UNCHANGED <<market, failures, held, shown, inflight, chain, job, poll, tracked,
                   lastRest, closing, unguarded>>

\* Lots that remain leave the leg tracked, for the next poll.
CloseCheck ==
    /\ closer.step = "check"
    /\ closer' = NoClose
    /\ IF shown = 0 /\ closer.kind \in {"ws", "rest"}
       THEN tracked' = 0 /\ lastRest' = 0
       ELSE UNCHANGED <<tracked, lastRest>>
    /\ UNCHANGED <<market, failures, held, shown, rows, inflight, chain, job, poll, closing,
                   unguarded>>

CloseStep == CloseRead \/ CloseLook \/ CloseOrder \/ CloseRows \/ CloseCheck

-----------------------------------------------------------------------------

Next ==
    \/ \E f \in Fills : Fill(f) \/ LiveStep(f)
    \/ \E k \in Lots : Reduce(k)
    \/ SizeMessage \/ FlatMessage
    \/ Settle \/ Expire \/ Unlock
    \/ PollRead \/ PollOpen \/ PollMissing
    \/ RestStep
    \/ CloseStep

Spec == Init /\ [][Next]_vars

\* The poll's timer fires, every awaited call returns, windows and locks end, and the
\* exchange shows what was ordered.
FairSpec ==
    /\ Spec
    /\ WF_vars(Settle) /\ WF_vars(Expire) /\ WF_vars(Unlock)
    /\ WF_vars(PollRead) /\ WF_vars(PollOpen \/ PollMissing) /\ WF_vars(RestStep)
    /\ WF_vars(CloseStep)
    /\ \A f \in Fills : WF_vars(LiveStep(f))

-----------------------------------------------------------------------------
(* Properties *)

\* Uncoordinated paths order missing lots; the follower gets more than the master ever had,
\* or than a fill's message counted, only if one of them decided beside a window that was
\* not open yet or was over too early, or without the exchange's answer
\* (followerBotOpenDeficitLots, markFollowerCopyInflight, the chain).
OverfillNeedsAnUnguardedDecision == held > Larger(peak, counted) => unguarded

\* The total a fill's message hands on is the "Cumulative master lots on the leg"
\* (tradeEngine.ts:578).
TotalIsTheLeg == counted <= peak

\* The poll's job looks at the position and then orders the rest: inside the leg's chain
\* no live order comes between the two (withCopyLegExecutionLock).
NoLiveOrderInsideARestOrder ==
    [][job[Poller].step = "order" => \A f \in Fills : ~LiveOrder(f)]_vars

\* A follower of a master that is flat for good ends flat, and without an open row, even
\* when an open order arrives after the close: the empty book is reconciled.
FlatMasterFlattens ==
    <>[](master = 0 /\ ~others) => <>[](held = 0 /\ rows = {})

\* The lock "prevents ghost catch-up opens racing with close fan-out"
\* (subscriptionSyncService.ts:161).
NoCatchUpDuringClose ==
    [][closing => ~(RestOrder /\ held' > held)]_vars
=============================================================================
