# Verification of the copy-trader backend

TLA+ specifications of the TradeICT Earner copy-trader backend (`src/backend/src`),
the TLC runs that check them on small instances and the TLAPS proofs that hold for
every size. Two groups of modules exist. One covers money: the member wallet, gateway
and manual payments, coupons, subscriptions and their fee, revenue invoices, partner
commissions and payouts. The other covers the copying of trades: how the master's fills
are taken in, how one follower's leg is kept equal to the master's, and how the master's
legs are closed by the automatic exits. `PROJECT.json` is the index: components, runs,
hazards, findings, theorems, and for every definition the source lines it stands for.

## 1. The system

One Express process (`server.ts`) over Postgres (Prisma, READ COMMITTED). In the same
process run the cron jobs (each behind `utils/cronGuard.ts`, which keeps a job from
overlapping itself) and the websocket engines of the copy trading. The bot that
places trades for some strategies, Razorpay, the Delta exchange and the mail server
are outside. The frontend is a Next.js client of the HTTP interface.

| Part | State | Operations | What makes it hard | Correct means |
|---|---|---|---|---|
| Wallet and withdrawals | `Wallet`, `Transaction`, `WalletWithdrawalRequest` | top-up, request, complete/reject, adjust, approve | admins act on rows read before; the wallet is moved before the status is tested | held money = open requests; each request leaves the hold once; fees stay covered |
| Manual deposits | `DepositRequest`, `PaymentTransaction` | declare, approve, refuse | decision on a stale read; a notice after the commit | one credit per approval |
| Gateway payments | Razorpay orders and notes, `PaymentTransaction`, wallet | create order, capture, verify | three commits per verification; the browser calls it never, once or twice | what is recorded was delivered; credited once |
| Coupons | `Coupon.usedCount`, `isActive` | validate, consume, toggle | limit tested before the increment | uses = rows; the limit holds up to the requests in flight |
| Subscriptions and fee | `UserStrategySubscription`, `Invoice` | subscribe, deploy, pause, resume, cancel, connect, pay, daily jobs | five writers of one status by id, two jobs at the same minute, the bot in between | the copy flag follows the status; unpaid is held; paid is not |
| Revenue invoices | `MonthlyRevenueInvoice` | compute, recompute chain, issue, pay, void, credit note | status tested before it is written; recompute from stale rows | issued invoices stay as they are; the mark of an issued month is carried on |
| Partner commissions | `CommissionLedger` | distribute, mature, reverse | reversal loads rows that a payout claims meanwhile | void leaves nothing; paid reversals are flagged |
| Partner payouts | `PayoutRequest`, claim tokens | request, approve, complete, reject | claim, compare-and-set and release against reversals | a commission is paid once; a payout is worth its rows |
| Ledger ingestion, structures | `DeltaLedgerEntry`, `StructurePnl` | sync, deep sweep, recompute | late rows for issued periods, flags cleared late | no late row is forgotten |
| Final-invoice and late-ledger jobs | three columns of `User` | schedule, issue, clear | hourly, together, over the same user | a cancelled customer's final invoice is made or given up with an alert, unless another month's cancellation takes its place |
| Master fill intake | in-memory dedup maps, tracker, work queue | three websocket channels, REST poll | channels in any order, a restart forgets, flat hints | no lot is copied twice or lost between the channels; a wrong hint is cleared |
| Entry gates, close locks, auto exit | in-memory locks with expiry | freeze, check by poll and by tick, count a breach, close, close the followers of a flat leg | expiry during the work it protects; a check awaits between its reading and its verdict | two exits only past the cooldown; a close lock has one owner; a lasting breach is acted on |
| Follower execution | per-leg promise chains, in-flight windows, `TradePosition` | live copy, force sync, trim, close, reconcile | three paths decide from what they read before an await; a close runs beside them | no more than the master had, or than was counted, unless a guard was passed by; flat when the master is flat |
| Bot bridge | the bot's slaves | register, pause, resume, remove | remote failure between two writes | |
| Partner network, accounts, admin reports, arbitrage, notifications, settings, web | | | | see section 7 |

How they interact: a payment through the gateway ends in the wallet, in a
subscription row or in a paid invoice; a paid revenue invoice makes its commissions
payable; a matured commission is claimed by a payout; the copy engine reads nothing
of all this but `status = ACTIVE and isActive`. Components share database rows and
call each other inside transactions; there is no message queue. What a request has read
and not yet acted on is therefore the main source of interleavings, and every module
keeps it in a variable (`review`, `job`, `cron`, `tasks`, `chain`).

## 2. How the code is modelled

*Rows* are records in functions from identities; "absent" is a model value.

*Steps.* A transaction whose decisions are all made by the `WHERE` of its own
`UPDATE`s is one step: it holds the row locks up to its commit. A transaction, or a
handler, that decides from a plain `SELECT` and later writes by primary key is split
there: the first step remembers what was read, the second writes whatever has
happened since. Where a transaction holds a row that another one must wait for, the
module has a predicate for the lock (`Locked`, `RowHeld`, `WalletHeld`). Two commits of one request
are always two steps, and between them the request may die (`Abort`, `Crash`,
`Restart`).

*The copy engine* awaits between reading and writing, in one process. Code between two
awaits is one step; what waits is a record in `tasks` (a copy under way), a place in
`chain` (the promise chain of a leg) or in `closer` (a close). Locks that end by a timer
are booleans with an action that ends them at any time; in `AutoExit`, where it matters which
of two timers is the longer, they count down with a common `Tick`.

*Requests.* `Handlers` or `Workers` is the number of requests served at the same
time. A worker takes any request the interface accepts in any state.

*History variables* (`credits`, `paid`, `charges`, `raced`, `retried`, `excused`,
`refusals`, `discount`, `alerted`, `lost`, `copied`, `refused`, `twice`, `peak`, `counted`, `unguarded`, `overlapped`) are read by properties only, with one exception each that is
a named bound: `charges[s] < MaxCharges`, `credits[o] < MaxCredits`, `refusals[d] <
MaxRefusals`. `raced`, `retried`, `excused`, `overlapped` and `unguarded` record that two operations overlapped
or that a check was passed by; a property that exempts them says exactly which overlap
breaks it, and holds for everything else.

*Abstracted:* amounts are small integers (the columns are doubles or decimals); texts,
notifications, audit rows and look-ups that only select what to show are left out;
dates become a free choice of what is due; answers of the bot and of the exchange are
free.

*Deviations.* Beside a definition a module may hold a second version marked
"Deviation": a plausible slip of the same code. No specification uses it; it exists
to show that the property named in the comment notices the slip.

## 3. The modules

### Wallet (`Wallet.tla`, `WithdrawalContract.tla`, `MCWallet.tla`, `WalletProofs.tla`, `SumLemmas.tla`)
Source: `services/walletWithdrawalService.ts`, `controllers/walletController.ts`.
Variables are the columns `balance`, `lockedBalance`, `pendingFees`, the ledger rows
`txn` and the requests `withdrawal`. `RequestWalletWithdrawal`,
`ProcessWalletWithdrawalRequest` and `AdjustUserWalletBalance` are one transaction
and one step each; `POST /wallet/approve` reads, then writes by key (`ApproveRead`,
`ApproveWrite`), or is rolled back. A withdrawal's ledger row is an ordinary PENDING row, so
`approve` accepts it: the model keeps that. `WithdrawalContract` says what the owner
of the wallet is promised, without rows or handlers, and `Wallet` implements it.

### Commissions and payouts (`CommissionLedger.tla`, `PayoutContract.tla`, `MCCommissionLedger.tla`, `CommissionProofs.tla`, `SumLemmas.tla`)
Source: `monthlyRevenueInvoiceLifecycleService.ts`, `affiliateCommissionService.ts`,
`affiliatePayoutService.ts`, `commissionBalanceService.ts`. An invoice starts ACCRUED;
how it was computed is left to the next modules. `TransitionRead` is the validation
outside the transaction, `Distribute`, `MarkAsPayable`, `VoidLoad` and `ReverseCommit`
the writes; a credit note reads, loads and commits in the same way. A caught unique
violation has already aborted the Postgres transaction, so `ReverseCommit` then
changes nothing. `PayoutCheck`, `PayoutReadNet`, `PayoutClaim` are the three reads
and writes of a request; `PayoutDecide` takes the snapshot and `PayoutTransition`
does the compare-and-set with its consequences for the rows. Amounts are in units of the
partner's rate; simulated rows and rounding are left out.

### Gateway payments and coupons (`GatewayPayments.tla`, `PurchaseContract.tla`, `MCGatewayPayments.tla`, `GatewayProofs.tla`)
Source: `createOrder`, `verifyPayment` (`paymentController.ts`),
`creditWalletAfterGateway`, `couponService.ts`, `couponController.ts`,
`subscribeUserToStrategy`. `Verify` is the look-up, `CreditWallet` or the creation of
the row the delivery, `Record` the row that makes a repetition harmless: three
commits. `CreateWithCoupon` holds the inserted row until `ConsumeCoupon` commits
both. `ChangeStatus` stands for everything that happens to a row later. `PurchaseContract` has
no requests and no coupons: only what was paid is delivered, a top-up once, and a payment is
done with after its delivery.

### Manual deposits (`Deposits.tla`, `DepositContract.tla`, `MCDeposits.tla`, `DepositProofs.tla`)
Source: `manualDeposit`, `createDeposit`, `updateDepositStatus`. `Decide` reads the
deposit with its payment row, `Apply` is the transaction that acts on that reading,
`Notify` tells the user. In `DepositContract` a decision takes effect at once.

### Subscriptions and their fee (`SubscriptionBilling.tla`, `FeeContract.tla`, `MCSubscriptionBilling.tla`, `BillingProofs.tla`)
Source: `subscriptionController.ts`, `subscriptionLifecycleService.ts`,
`exchangeAccountController.ts`, `cancellationBillingService.ts`, `billingService.ts`,
`cronGuard.ts`. `sub` is the row's status, copy flag and paid flag; `invoice` the fee
invoice; `ended` says that the 30 days and the due date have passed. Every request
that asks the bot, or that reads invoices before it writes the row, is split there.
`OverdueFind/Flip/Hold` and `FeeFind/Hold/Flip` are the two daily jobs query by
query: they start at the same minute and may interleave with everything. A restart forgets requests and running jobs.
Not part of it: the final invoice that a cancellation schedules (it is the subject of
the next module), the binding of rows to exchange accounts, revenue-share invoices (their
generation is disabled in the source). `FeeContract` has neither requests nor jobs: a fee is
taken once and then settled, and a subscription is held only while its fee is due and its 30
days are over.

### Revenue invoices (`RevenueInvoices.tla`, `InvoiceContract.tla`, `MCRevenueInvoices.tla`, `RevenueProofs.tla`)
Source: `structureRevenueService.ts`, `billingCronService.ts`, `deltaLedgerService.ts`,
`structurePnlService.ts`, `monthlyRevenueInvoiceLifecycleService.ts`. One customer's
months, each with an invoice that carries the high-water mark before and after it. `job`
holds the passes under way. A computation awaits at each of its queries, and each is a step:
the invoice is looked up (`MonthlyRead`, `FinalRead`), the profit to date is read
(`ReadProfit`), then the mark of the month before (`ReadMark`, or `RebuildMark` from the
structures if that month has no invoice), and only then is the row written (`Write`), by the
id found at first; `KeepRow` and `ComputeFails` are the other ways it ends. `MonthlyRead` and
`Issue` are the monthly pass and the admin's computation, `FinalRead` and `FinalEnd` the hourly
final-invoice job. A recompute chain (`LateJob` of the other hourly job, `AdminChain`) reads all
invoices at its start and then goes month by month through the same steps: `Pass` leaves a
month, `Write` writes one, both carry a mark on (`Carry`) that is not read again, and it ends in
`ChainFails` or `ChainEnd`. The bound `Kinds` says which jobs an instance has. `LedgerSync`
stores rows at any time, the deep sweep stores a late row (`SweepInsert`) and then flags
its user (`SweepFlag`), `RecomputeStructures` makes structures of them. A change of status
is one step here: overlapping changes are the subject of `CommissionLedger`. Profit
shares, exchange rates, simulated rows and the alert on late data in a frozen month are
left out.

Because of the early reads, a month issued between a job's look at it and the job's write of
the next month does not bind that write: its mark is not carried on, which `MarkCarriedOn`
exempts by name (`Relies`: the one job that is about to write, and had looked before the issue).
In `InvoiceContract` there are no jobs and no ledger: a month is computed while it is not
issued, bills no loss, starts no lower than the final month before it unless that one is
`relied` on, and moves only from ACCRUED to INVOICED and PAID, or to VOID. Nothing comes to be
relied on once it is issued, so the exemption is as old as the read it stands for.

### Payment of a revenue invoice (`RevenuePayments.tla`, `MCRevenuePayments.tla`, `RevenueProofs.tla`)
Source: `payMonthlyRevenueInvoiceFromWallet` and `settleRevenueInvoiceAfterGateway`
(`billingService.ts`), `createOrder` and `verifyPayment` (`paymentController.ts`), the changes
of status and the credit note of `monthlyRevenueInvoiceLifecycleService.ts`. One issued invoice.
A wallet payment is a transaction in three steps: `WalletRead` (a plain `SELECT`),
`WalletDebit` (which waits for the wallet row, `WalletHeld`, and then looks at the invoice
again: PAID is taken for done and the debit stays, VOID rolls it back) and `WalletCommit`. The
gateway is `CreateOrder`, `Capture`, `VerifyRead`, `Settle`, `Record`; a captured order
whose verification never comes or fails stays open. `VoidRead/Write` and `NoteRead/Write` are
the admin, `Abandon` a request that dies. Rates, fees and receipts are left out, commissions
are in `CommissionLedger`.

### Master fill intake (`MasterFills.tla`, `CopyContract.tla`, `MCMasterFills.tla`, `TradingProofs.tla`)
Source: `tradeEngine.ts`, `masterFillDedup.ts`, `wsWorkQueue.ts`,
`subscriptionSyncService.ts`. One leg of one strategy. `wire` holds the messages of the
three channels: those of `user_trades` and of `orders` in any order, position sizes in
theirs. `HandleFill`, `HandleOrder`, `HandleSize`, `HandleClose` are the handlers, one at a
time behind `Free`/`FreeForMessages` (the queue serves closes first); `seen`, `byFills`,
`byOrders`, `piped`, `legCopied` are the maps of `MasterFillDedup`. `Trigger` starts a call
of `triggerLiveMasterOpenCopyImmediate`, which runs on beside the queue (`AfterSymbol`,
`AfterPrice`). `RestRead`/`RestAct` are the REST poll, `Reconnect` and `Restart` what their
names say: a restart forgets all of the above. One unit is one contract; a reducing order
is taken to carry its reduce-only flag; the trims and the opens of the REST poll are in the
next module. `CopyContract` knows no channels: each lot of an order is handed on or dropped,
once, by one process.

### Follower copy (`FollowerCopy.tla`, `MCFollowerCopy.tla`, `TradingProofs.tla`)
Source: `followerTradeExecution.ts`, `tradePositionService.ts`, `tradeEngine.ts`,
`subscriptionSyncService.ts`. One leg of one follower with multiplier 1. `held` is what the
exchange holds, `shown` what its position endpoint says, `rows` the follower's open
`TradePosition` rows. `Fill` is a fill on the exchange; its message is handled by `Receive` at
any time after it, or never. `Receive` adds the fill's lots to what the tracker holds by then
and hands the sum on as the target: a poll (`Finish`) or a positions message (`SizeMessage`)
that was earlier has tracked the fill already, and then it is counted twice. `counted` records
the largest such total.

A copy goes through one step per await: `TestLock`, `TestWindow`, `ReadRows`, `ReadLeg` (these
are `followerBotOpenDeficitLots` and the test before it, of a live fill and of the REST poll
alike), then `LiveRun`, `Enter`, `LiveOrder`, `Persist` for a live fill, `RestAgain`, `Enter`,
`RestStart`, `RestOrder`, `Persist` for the poll's job. `Enter` opens the in-flight window and
joins the leg's chain; only the REST job looks at the position again when its turn comes. A trim
of the poll is `Trim`, `TrimSize`, `Cut`, `Clear`. Closes begin with a closing message
(`CloseMessage`), a positions message that is smaller or flat (`SizeMessage`, `FlatMessage`), or
the poll (`PollMissing`: a leg that is gone, or one that nothing tracks); `closer` follows any of
them through `CloseRead`, `CloseLook`, `CloseOrder`, `CloseRows`, `CloseCheck`. `unguarded`
records that a window ended early or opened late beside a decision, or that the position could
not be read and was taken for empty.

What is merged or left out: the message of a closing fill comes with the reduction, that of an
opening one later; the awaits for a symbol and a price between `Receive` and the copy are those
of `MasterFills`; a first, coarser look at what is missing and the tests of the lock in the
middle of a path are not steps of their own (they only end a job earlier); a read that fails
elsewhere ends the job like an order that fails. One close at a time, one poll at a time (the
code lets a timed and a requested poll overlap); the flat hint is left to `MasterFills`.
**Not in it is a third path, the synchronisation monitor** (SYNC-MONITOR, `tradeEngine.ts`
4245-4610), which opens and closes what it finds missing or too much on a timer of its own.
Neither are cool-downs and the number of misses before a close (they only delay), the 15-minute
age limit of a catch-up, orders marked not to be copied, late joiners, confirmation polls,
settlement. The rows of an instant close are deleted before its last look at the position; in
the code they may be deleted after it.

### Automatic exits (`AutoExit.tla`, `MCAutoExit.tla`, `TradingProofs.tla`)
Source: `autoExitService.ts`, with `runAutoExitPass` and `scheduleAutoExit` of `tradeEngine.ts`.
One strategy. `check[c]` is a check under way: the poll's, one at a time, or one of several
started by websocket ticks. `Start` serves a check from the cache or asks the exchange; `Answer`
is the positions coming back, `Evaluate` the rest of the snapshot and its weighing
(`WeighProfit`, `WeighPrice`), `NoAnswer` a failure or a pause of the exchange, `Diagnose` the
second fetch, for the log, with the verdict after it. `BeginExit` takes the strategy lock and the
close locks and starts the cooldown, `Burst` is the orders, `Finish` the fan-out and the
releases. `breaches`, `legCount`, `settle`, `lock`, `cool`, `closing`, `flying` are the maps and
sets of the service. The close locks have a second kind of owner: `notifyMasterFlat`, which the
websocket, the poll or an exit's fan-out calls to close the followers of a leg that is flat.
`FlatBegin` takes the lock of a leg if it is free and puts the leg in `flats`, `FlatEnd` gives it
back, at any time; its debounce and its refusals (it only runs less often for them) are left out,
and an exit does not wait for its own fan-out by name. Whether a profit or a price is past a threshold is the free `market`. One
deliberate looseness: a tick may start a price check and any bid/ask check at any time (the
debounce only makes them rarer).

## 4. The runs

Twelve runs; `PROJECT.json` gives each run's properties and, for each property of a passing
run, a changed definition under which TLC finds it violated.
Proved and not part of a run are `TypeOK` of every module but `CommissionLedger` (whose
`TypeOK` is in a run), `FlagFollowsStatus` of `SubscriptionBilling`, `DebitOnlyWithPaid`
of `RevenuePayments`, and three that follow from a contract the run checks:
`ApprovedPaymentIsCredited` of `Deposits`, `PaidIsHeldOnlyIfRaced` of `SubscriptionBilling` and
`FrozenStaysFrozen` of `RevenueInvoices`.

| Run | Instance | States | Shows |
|---|---|---|---|
| `wallet` | 1 user, 3 ledger rows, 2 approvals at a time, amounts 1-2, fees 0-1 | 52,858 | hold = open requests, every unit explained by rows, fees stay covered, a second credit needs an overlap, the withdrawal contract |
| `commissions` | 2 invoices, 1 partner, 2 payouts, 2 requests at a time, a partial credit note | 271,800 | paid once, claims keep their payout, payout = its rows, void leaves nothing, paid voids are flagged, the payout contract |
| `gateway` | 3 users, 1 order, a coupon with one use, 2 requests at a time, crashes | 250,892 | recorded means delivered, uses = rows, overshoot bounded by the requests in flight, no double credit without an overlap or a crash, the purchase contract, no deadlock |
| `deposits` | 2 deposits, 2 decisions at a time, 2 refusals | 119,792 | one credit per approval, both rows agree, the deposit contract |
| `billing` | 1 subscription, 2 requests at a time, both jobs, 1 restart | 179,299 | overdue is held, unpaid is held at last, a second charge needs a race, the fee contract, no deadlock |
| `revenue_invoices` | 2 months, 2 ledger rows, 2 passes at a time, 1 restart | 843,661 | their marks are carried on unless a job had looked before the issue, no late row is forgotten, the invoice contract |
| `final_invoice` | 2 months, 2 cancellations, the final-invoice job beside 1 pass, 1 restart | 241,088 | a scheduled final invoice is made, or given up with an alert, unless another month's cancellation takes its place |
| `never_pays_twice` | 2 months with 2 gains, 1 pass at a time | violation | finding 1 |
| `master_fills` | 1 order of 2 lots, 1 reduction, repeated message, lost connection or restart | 661,363 | no lot twice, no lot lost between the channels, a wrong hint is cleared, the copy contract |
| `follower_copy` | 1 fill of 2 lots, 1 reduction or 1 failed order or read | 1,386,428 | more than the leg and than every counted total only beside an unguarded decision, no live order inside a REST order, flat at last |
| `revenue_payments` | share 2, funds 4, 2 orders, 3 requests at a time | 64,738 | a second charge needs payments that overlap |
| `auto_exit` | 1 leg, the poll and 1 tick, 1 move, 1 turn, 1 fault | 345,941 | two exits together only past the cooldown, each close lock has one exit or one flat close as its owner, a lasting breach is acted on again and again |

Six more configurations are kept beside the runs: `MCReopenedLeg`, `MCGhostCatchUp`,
`MCFillCountedTwice`, `MCNeverChargedAgain`, `MCExitNeedsSustainedBreach` and
`MCExitMeetsEveryOpenLeg`. Each checks
one sentence of the source that the code does not keep; section 5 says which.

*Why the bounds are enough.* Users, deposits and invoices meet only where they share a
row: users at a coupon, invoices in one partner's payout. The instances have one user
where nothing is shared and three (two) where something is. Two requests at a time
give every pairwise race; the overshoot of a coupon needs one more user than
workers. Three ledger rows are a deposit, a withdrawal and a correction
at once; two payouts are a refused one and its successor. Two charges, credits or refusals are the first
one that can go wrong; one restart falls between any two steps. Marks are handed from one
month to the next, so two months have every relation a chain has but the one between a
month and the next but one. `MasterFills` needs two lots so that an order has a cumulative
quantity that differs from its last fill, and one disturbance that falls anywhere; its
main invariant is proved for any number of orders and disturbances. `FollowerCopy` needs two
lots so that a trim leaves some; the poll's job against one live job gives every pair of orders,
and `MaxUpsets` is 1: a trim, a close, or a failure at any one place. `OtherLegs` is FALSE
in the run, the case in which the empty book is reconciled. A reduction together with a failure
was explored as well (2,881,421 states, all three properties; with a master that may hold other
legs 5,694,444 states, safety only), too long for a regular run; the safety properties are
proved for any fills, lots and bounds.
`RevenuePayments` has a share of 2 so that a credit note may leave something, funds
for two charges, and three requests so that an admin can act between two payments; its
properties are proved for any. `AutoExit` counts time in units of 10 seconds: the lock and the
cache (10 s) and the settle grace (12 s) are 1, the cooldown (15 s) is 2, longer than the lock,
and two breaches stand for the three. A grace and a cache outlast at least one look, and one
breach is not enough. A market that turns twice was
also explored (2,769,142 states, safety only), and both safety properties are proved for any
number of checks and turns. What the bounds cut off is the subject of section 6. `SubscriptionBilling` was also explored with two
subscriptions of one user, one request at a time and no restart (5.4 million states,
safety only) for the user-wide update in `FeeFlip`; that is too long for a regular run.

*Symmetry* is used for rows, workers and users in safety runs, never where a
liveness property is checked.

*Deadlock* is checked in `gateway`, `billing` and the three runs of `RevenueInvoices`.
`AutoExit` cannot stop (time passes), so nothing is claimed there. Elsewhere the instance stops when its rows, fills or events are used up, which is no
behaviour of the system, and the check is off.

*Fairness.* `billing`: weak fairness of `FeeCheck`, the daily strategy-fee job. The job is
scheduled by `initBillingCronJobs`, started again the day after a restart or an error, and
each of its queries ends. Nothing is assumed of customers, of admins, of the bot or even of
the overdue job; so `UnpaidIsHeld` holds through the fee job alone. `final_invoice`: weak
fairness of the hourly final-invoice job, scheduled by `initDelayedInvoiceCronJobs`; it may
fail, which is the point of the property. `master_fills`: the poll's timer and its answer
(`RestRead`, `RestAct`) and the return of every close (`CloseEnds`); messages need never
arrive. `follower_copy`: the poll (`PollRead`, `PollOpen` or `PollMissing`), each await of
a copy or a close returns (`LiveStep`, `RestStep`, `CloseStep`), windows and locks end by the
clock (`Expire`, `Unlock`), and the position endpoint shows at last what was ordered
(`Settle`). Nothing is assumed of the master or of the delivery of messages; orders and
reads may fail, but only within `MaxUpsets`, without which no close could be promised. `auto_exit`: time
passes (`Tick`), what a check awaits returns or fails (`Continue`), and the poll's profit check
starts again and again (strong fairness of `Start(Poll, "poll")`): `scheduleAutoExit` sets its
timer again after every pass, whatever became of it, a pass checks the profit before the price, so
the poll's slot cannot go to price checks for ever, and a rate-limit pause ends.

## 5. Findings

In each the source says one thing, and TLC shows a behaviour of the code that is another. The
first is the run `never_pays_twice`; the others are found with the configuration named.

1. **The same profit is billed in two months.** The customer is told "you never pay twice
   on the same profit". A month computed alone takes its mark from the month before it, and
   the month after it is not computed again: month 1 accrued at 0, month 2 billed up to a
   late row of month 1, month 1 computed again bills the same rise once more.
2. **A lot is dropped as copied that was not.** The leg total that `shouldSkipLegCopy`
   compares with only grows. When the tracker has been lowered by a close, a trim or the
   poll, a later fill brings the total no higher than it once was, and is dropped as
   "already forwarded"; the REST poll has to find it (`MCReopenedLeg`).
3. **A catch-up opens lots during a close.** The lock "prevents ghost catch-up opens racing
   with close fan-out". The poll's force sync sets `adminForceSync` on its orders, and that
   skips the test of the lock just before the order: a sync that began before the close
   orders in the middle of it (`MCGhostCatchUp`).
4. **A revenue invoice is charged twice.** "Profit you already paid on is never charged again."
   Two wallet payments both read INVOICED; the second waits for the wallet row, debits it when
   the first has committed, and the change of status takes the PAID it then finds for done
   instead of failing the transaction (`MCNeverChargedAgain`).
5. **An exit on a breach that has ended.** The exit asks for "consecutive poll ticks above/below
   threshold". The count it tests was taken before the positions were fetched once more for the
   log; a check that found the profit back meanwhile has reset the counter, in vain
   (`MCExitNeedsSustainedBreach`).
6. **A leg is left open by an exit.** An exit is to "market-close every open master leg". It
   closes the legs of a snapshot up to 10 seconds old, and a leg opened since is not among them
   (`MCExitMeetsEveryOpenLeg`); a later exit meets it, at the earliest past the cooldown.

7. **A fill is counted twice.** The total handed on with a fill is the "Cumulative master lots on
   the leg". It is made of the tracker and the fill's lots, and a poll or a positions message may
   have put that fill on the tracker before its own message came: a fill of 2 lots makes a total
   of 4, and a follower that the poll has filled already is given 2 more (`MCFillCountedTwice`).

What the passing properties exempt is of the same kind: `raced`, `retried`, `excused`,
`overlapped` and `unguarded` name the overlaps under which the code does not keep the property (two
approvals of one row, a payment between a job's read and its write, two verifications, a
window that ended early).

## 6. The proofs

All theorems are checked by TLAPS for any number of users, rows, requests at a
time and amounts, from the modules' named assumptions only (constants are natural
numbers, `None`-like values differ from the data, finite sets where something is
counted). `RevenueProofs` and `TradingProofs` prove about more than one component: the first
one they extend, the others they instantiate (`P == INSTANCE RevenuePayments`, `C == INSTANCE
FollowerCopy`, `X == INSTANCE AutoExit`) with variables of their own. An instance leaves the
assumptions of its module behind, so each theorem about one names them as a hypothesis
(`PaymentConstants`, `CopyConstants`, `CopyBounds`, `ExitConstants`, `ExitBounds`); they are those of the module,
or fewer, and the component's run evaluates them.

**The contracts.** Seven components are proved to implement an abstract specification:
`WithdrawalContract`, `PayoutContract`, `DepositContract`, `PurchaseContract`, `FeeContract`,
`InvoiceContract`, `CopyContract`. A contract has no handlers, jobs or messages; each thing it
promises takes effect in one step. Where the code reads first and writes later that cannot hold
for every interleaving, and the contracts of deposits, purchases, fees and invoices say when it
may not: a variable (`contested`, `disturbed`, `crossed`) names those for which two operations
overlapped, and only these may go astray. In `CopyContract` a restart forgets what was decided.
Each proof has the same shape: initial states map to an initial state, each action is a step of
the contract or a stutter, one lemma for each; the inductive invariants below tell what an
action's reader still knows when it writes.

**SumLemmas.** What a sum over a finite set is: nothing over the empty set, one value more with
one element more, a number if all values are, the same for the same values, and different by what
one element contributes if that is all that changed. The operator of the community modules is
a recursion over sets, and the library's induction theorems cannot be instantiated here. The
lemmas go another way: strict inclusion is well founded on the subsets of a finite set, so a fact
that fails fails for a least subset, and for that one the recursion gives the contradiction.

**WalletProofs.** `TypeCorrect`, `FeesCovered`, `WalletImplementsContract`,
`SecondCreditNeedsAnOverlap`, `LockedIsPending`, `LedgerExplains`. The
invariant is `TypeOK /\ RowsExist`: whatever a request or a handler points at exists,
which is what a write by primary key silently relies on. Lemmas say what creating a
row and overwriting a status do to all the others. For the fees the argument is that
money only leaves the balance through the conditional update, and that the ledger
row of such a move keeps its type, so "has moved out" never becomes true by another
step. `SecondCreditNeedsAnOverlap` follows the handlers of `approve`: a decided row takes no
new one, and a handler that writes is no longer one. For the two sums each step changes one
row of one user, and by as much as it changes the wallet. The refinement maps approvals and
corrections to `Move`, the other operations to the step
of their name, and reads and rollbacks to stuttering.

**CommissionProofs.** `StatusTypes`, `ClaimsKeepTheirPayout`, `PayoutsAreWorthTheirRows`,
`CommissionsPaidOnce`, `LedgerImplementsContract`. None of these is inductive alone.
`PaidByItsPayout` ties the count to the link (a row has been paid exactly if the payout
it is linked to is completed), `ClaimsHaveTheirPayout` keeps a WITHDRAWN row with a
live payout, and `JobsOK` says that a decision on its way expects a status its target may
be reached from. Together they say why a refusal may release rows (its payout was
never completed), why a reversal may change a row's status but not what the payout is
worth, and why nothing claimed twice can be paid twice. `Types`, `VoidsLeaveNothing` and
`PaidVoidsFlagged` need a second invariant, about the reversals. `LockInv`: an invoice is held by
one reversal, and what that one has read of its rows is sound (a row exists or not, and one that
is unpayable or reversed still is). `ReversalInv`: of a voided invoice no net is left, as a sum
over the reversals, and a void without a flag came after a credit note or reversed a row that was
in no payout and never will be. So `PaidVoidsFlagged` speaks of commissions that the void alone
reversed: of one a credit note also touched it claims nothing.

**GatewayProofs.** `TypeCorrect`, `RecordedPaymentsDelivered`, `CouponUsesAreRows`,
`CouponOvershoot`, `SecondCreditNeedsARetry`, `PaymentsImplementContract`. `IInv` is `TypeOK` with three parts. `DeliveryInv` follows the
requests: one about to record has delivered, one serving an order serves the user in
its notes, and nothing delivered is undone. `CouponInv` follows the coupons: an open
creation belongs to a user without a row and is the only one for that user, and the
uses counted plus the creations still open stay below the limit plus the number of
workers: each creation passes the test while the count is below the limit, and there is one
worker less to do the same. `CreditInv` follows the wallet orders that were not verified again too
early: one request at most serves such an order, nothing is credited while that one has still to
credit, and what was credited is recorded or about to be. For the contract, `ServesPaid` adds that a
verification only ever serves an order that was paid.

**DepositProofs.** `TypeCorrect`, `ApprovedPaymentsCredited`, `CreditsAreApprovals`,
`RowsAgree`, `DepositsImplementContract`. `DecisionsOK` says that a decision under way is about a deposit that
exists; `AloneOK` follows the deposits that never had two decisions at once: what a
handler has read of the payment row is still so when it writes, there is one such handler, and
the credits are at most the refusals plus the approval that stands.

**BillingProofs.** `TypeCorrect`, `CopyFlagFollows`, `OverdueHeld`, `PaidAgrees`,
`PaidIsNotHeld`, `ChargedOnce`, `BillingImplementsContract`. The writers of a subscription write by id what they read earlier, so the
invariant says what each reader's memory is still worth. `RowsOK` relates the row to
its invoice whatever happened. `CronOK` and `PaidOK` follow the daily jobs: a row they have yet
to write is still unpaid, unless a payment came in between and marked it `raced`. `HeldOK`
names, of the ACTIVE rows whose invoice is past due, the one job that has still to hold
each; it needs both halves, because the fee job turns PENDING into OVERDUE for rows it never
read, and those must not be ACTIVE. `ChargesOK` says that of a fee not raced at
most one payment is under way, that its invoice is still to be paid, and that what was charged
is exactly what is being settled: the re-check of the status in every payment keeps it,
and overlapping payments are what it cannot survive. For the contract, `KnownOK` adds that the rows the
jobs found exist and that their 30 days were over when they were found.

**RevenueProofs**, the invoices. `Types`, `FrozenStays`, `MarkIsCarried`, `LateRowsStayFlagged`,
`InvoicesImplementContract`.
Every pass writes by id what it read earlier; `JobsOK` says what that memory is worth. A
pass that holds a month open, and may therefore write it, finds that month not final, or the
month is in `raced`: a change of status adds a month that some pass holds open. What a job
read of a frozen month is still its figures, and once the job stands at the next month the mark
it has in hand is no lower (`MarkHolds`); so the next month starts there whoever computes it, but
for a job that had read the month before it was issued, and that one is named.
`LateInv` is the property of the late rows with one more fact: a late job under way has counted
all of them but the excused ones, which is why it may clear the flag at its end. For the contract,
a write computes one month and leaves the marks of the others (`WritesOne`). A month that a job
has read as open before it writes a later one is shown to the contract as `relied`, and the proof
shows of every step that a month already issued never becomes one (`StepSteady`): what a job sees
of it then is frozen.

**RevenueProofs**, the payments. `PaymentTypes`, `SecondChargeNeedsAnOverlap`,
`NoDebitWithoutPaid`. `HeldFunds` says that a payment which holds the wallet row is the only one and that the wallet
has what it debits; `GatewayJobs` and `RecordedIsSettled` that a verification serves a
captured order and that a recorded one has left the invoice settled. As long as no payment was
begun beside another, `OnePayment` says there is at most one, and `ChargeIsOver` that money
has been taken only by it, or by one that is over and has left the invoice no longer payable.
Every way of paying asks for INVOICED and no step leads back to it.

**TradingProofs**, the intake. `NoLotCopiedTwiceHolds`, `FillTypes`, `LotsAccounted`,
`IntakeImplementsContract`. `CopyInv`: an order belongs to the channel
that copied it first (`OneChannel`); what was handed on of it, or is under way, lies within
the quantity piped if that is the orders channel, and within the trades looked at
otherwise (`HandedAreClaimed`); calls under way carry lots that nothing else carries
(`CarriedOnce`). A lot a channel takes up is not claimed, so nobody has it. That proof
needs nothing about locks, the tracker or the poll: what they do to a copy is drop it. The types
are not inductive alone: that the quantity piped stays within what the order filled needs it to be
the number of the trades looked at, while `user_trades` owns the order. For `LotsAccounted` the
invariant says, as long as no connection was lost, where a lot can be: the orders channel has
piped up to the last lot of an order or still reports it, every trade was looked at or is still
reported, each unless the other channel owns the order, and what its owner has claimed was handed
on, dropped by name, or is on its way. Each channel leaves a lot to the other only when that one
has claimed the order, so no lot is left to nobody.

**TradingProofs**, the follower's leg. `RestOrdersAlone`, `OverfillNeedsAMissedWindow`,
`LegTypesHold`.
`ChainInv`: the poll's job is ordering only while
it is the first of the chain. Every live order must be first itself, entering puts a job
behind the others, and only the first one leaves. The second theorem explains the three guards.
As long as no window missed a decision and every look at the position was answered
(`unguarded`), inside a window nobody decides and outside
it nobody waits, so one job at most is between its decision and its order (`OneAtATime`); the
position endpoint hides no lots from whoever decides or waits (`NothingHidden`), because a window
that ends before they are shown is one that missed; so what a decision finds missing fits below
the ceiling, the larger of the master's peak and of the totals counted, and still fits when it is
ordered (`LotsFit`). `unguarded` is what breaks each of them, and only that. `LegTypesHold` is `TypeOK` of the leg, of which two parts are more than
types. The chain holds exactly the jobs that wait, each once: a step moves one job at most, along,
into the chain or out of it (`StepMoves`). And the peak is at most the lots of the fills that came
(`PeakCounted`), each of which raises it by its lots; this one needs finitely many fills
(`CopyBounds`).

**TradingProofs**, the exits. `ExitTypes`, `ExitsOverlapLate`, `CloseLocksOwned`. The age of an
exit and what is left of the cooldown make up the whole cooldown at least. An exit begins with a
full cooldown, time takes from the one what it gives to the other, a burst only prolongs, and a
second exit begins when nothing is left: whoever still runs is that old. The strategy lock plays
no part in it. For the close locks `OwnersInv` says the property leg by leg: a leg is closing
exactly if an exit or a flat close under way took it, and no two of them took it. Whoever begins
takes what nobody holds; whoever ends gives back what nobody else took.

Every safety property of a passing run is proved. *Out of the prover's reach, model-checked
only:* `UnpaidIsHeld`, `FinalInvoiceSettled`, `WrongHintIsCleared`, `FlatMasterFlattens`,
`SustainedBreachIsActedOn` (liveness), and deadlock freedom (`ENABLED`).

## 7. Not modelled, and why

- **Calls to Razorpay, Delta, the bot, mail and Telegram.** Their answers are free
  choices where a module waits for one; the calls themselves are I/O.
- **Prices, Greeks, P&L arithmetic, thresholds.** Floating-point data; no state.
- **Future Hedge entry engine, arbitrage scraper.** Decisions over market data.
- **Partner network.** Who earns from an invoice is the constant `Chain`.
- **Accounts, sessions, access checks, encryption.** Request-local.
- **Of the automatic exits:** the arithmetic of the thresholds, the latch on entries after a
  breakeven exit, the roster of strategies. The closes of the followers' legs that a burst
  ends in are those of `FollowerCopy`.
- **The admin's commands on trades** (quantity adjustment, granular sync, mirror), late
  joiners, settlement and purge of trades. They refuse or repeat what is modelled, by hand.
- **The synchronisation monitor** (`tradeEngine.ts` 4245-4610), a third path that opens and
  closes followers' legs; see section 3.
- **Several followers.** Each has a leg, a chain and a window of its own; what they share is
  the concurrency limit of the fan-out.
- **Reports, dashboards, simulators, web pages.** They read.
- **Settings, migrations, scripts, harness.** The harness scenarios (`tests/harness`) were read for
  what the services promise; the schema's unique keys are guards in the modules.

## 8. What could follow

`RevenuePayments` composed with `CommissionLedger`; `MasterFills` composed with `FollowerCopy`,
with the bursts of `AutoExit` and with the status of a subscription (the subscriber cache is
three seconds old); a contract for a follower's leg and
one for the automatic exits.
