# A verification development for toss-api-quant-trading

`tqt` is a bot that rebalances a brokerage account through the Toss Securities
Open API: strategies turn stored candles into target weights, a cycle turns the
weights into orders, a risk gate stands between the two, and the result is
written to a SQLite ledger. This directory holds TLA+ models of its concurrent
and failure-prone parts, the TLC runs that check them on small instances, and
proofs, checked by TLAPS, that hold for every instance.

Paths below are relative to the repository; the package is `src/tqt`.

## 1. Inventory

| component | state it keeps | operations | talks to | what makes it correct |
|---|---|---|---|---|
| rate limiter `toss/ratelimit.py` | per group: tokens, updated, server_limit, under one lock | acquire, observe_headers, penalize | every thread that makes a call | never more calls than the limit, a Retry-After is waited out, no sleep is too short |
| HTTP client `toss/client.py`, `errors.py` | none beyond the connection and the account number | `_request` (retry loop), one method per endpoint | limiter, token manager, Toss | an order is placed at most once per clientOrderId; every call is answered |
| token manager `toss/auth.py` | token and expiry under a lock | token, invalidate | Toss's token endpoint | a retry after a 401 never presents the token it was denied; no thread waits for the lock for ever |
| runner `runner.py` | `_lock`, the broker, the risk manager | cycle, daily report, equity mark, the Telegram handlers, build | broker, risk, store, notifier, clock | one cycle at a time; each cycle ends; closed markets are not touched |
| risk `risk.py` | rows of the `state` table (halted, halted_date, reasons) | halt, resume, check_cycle, check_order | store, client (warnings) | nothing trades while halted; daily loss and order budget hold |
| live broker `execution/live.py` | none; writes the ledger | snapshot, submit, sync_orders, cancel_all | client, store | fills are confirmed; the ledger agrees with Toss; nothing is bought twice |
| paper broker `execution/paper.py` | cash and positions in SQLite | snapshot, submit, reset | store, client (quotes) | value is conserved over fills, costs, crashes and a reset |
| ledger `data/store.py` | tables orders, fills, positions, cash, equity, state, candles | one statement or one transaction each | all of the above, in several processes | what is read back is what happened |
| market clock `ops.py` | a calendar cache, shared by threads | open_markets, clear_cache, preflight | client | a market is open only in its session |
| Telegram, notifier `notify/` | update offset, in memory | poll_once, run_command_loop, send | runner's handlers | a command takes effect once; an alert reaches someone |
| portfolio, strategies `portfolio.py`, `strategy/` | none | scores to target weights | store (candles) | weights within 0..1 and the sleeve budgets |
| tick sizes `tick.py` | none | round_to_tick | nothing but its test | a legal price on the right side |
| backtester `backtest/` | simulated cash and positions | run | store | cash never negative, no look-ahead |
| candle ingestion `data/ingest.py` | candles table | sync | client, store | no gap inside the stored range, no bar left as it was before its close |
| dashboard, command line, configuration | none | pages, commands | runner, risk, store | halt and resume reach the same rows |

How they interact: the service (`tqt run`) holds one `Runner`, whose lock admits
one cycle at a time from the scheduler thread and the Telegram thread; the
dashboard and `tqt cycle`, `tqt halt`, `tqt resume` are other processes that
share only the database file and the account at Toss. So the lock does not
cover them, and whatever is decided from the database can change before it is
used. Every call over the network can fail, be lost, or be answered late; the
service is restarted by systemd (`deploy/tqt.service`, `Restart=always`), and
`Runner.build` then calls `sync_orders`.

The hard behaviours are listed one by one, at their lines, under `hazards` in
`PROJECT.json`, with the properties that cover each or the reason why none does.

## 2. The modules

| module | models | state |
|---|---|---|
| `RateLimiter` | `toss/ratelimit.py`, one bucket | `tokens`, `updated`, `serverLimit` are `_Bucket`'s fields; `thread` is where each caller stands |
| `TossAccount` | the account at Toss (external) | `cash`, `held`, `orders` |
| `Ledger` | tables `orders` and `fills` | `rows`, `fills` |
| `LiveTrading` | `runner.py`'s cycle, `risk.py`, `execution/live.py` over `Ledger` and `TossAccount` | `halted`, `haltedToday` are the two switches in table `state`; `run[r]` is the local state of the cycle of process `r` |
| `TokenManager` | `toss/auth.py` | `cached`, `holder` are `_token` and `_lock`; `issued`, `valid` are Toss's side |
| `OrderEndpoint` | Toss's endpoints and the network (external) | `wire`, `working`, `done`, `effects` |
| `TossRequest` | `toss/client.py`'s `_request` over the two | `call[c]` is the local state of one call |
| `CallOnce` | what the retry loop promises (abstract) | `effects`, `answer` |
| `Costs` | `backtest/costs.py` | none: operators |
| `PaperAccount` | what the paper account promises (abstract), and the sums an order comes to | `funded`, `cash`, `held` are tables `cash` and `positions` |
| `PaperBroker` | `execution/paper.py` by several processes | `fills` the sums of table `fills`; `proc[p]` where a process stands |
| `KillSwitch` | the switch of `risk.py` | `halted`, `haltedDate` are its rows of table `state` |
| `TradingDay` | the calendar days of Seoul and UTC, the daily limits | `first`, `placed`: tables `equity` and `orders` by UTC date |
| `Telegram` | `notify/telegram.py` and Telegram's side (external) | `offset` is `_offset`; `batch` what a poll returned |
| `Service` | the threads of `tqt run` and an operator, over the last three | `lock` is `Runner._lock`, `cache` is `MarketClock._cache`, `thread[t]` where a thread stands |
| `CandleStore` | table `candles` | `stored` |
| `CandleSync` | `data/ingest.py` with the client's paging, and Toss's history (external) | `sync` is the local state of the walk |
| `Strategies` | `strategy/` | none: operators |
| `Rebalancing` | `portfolio.py`'s weights, `runner.py`'s `_build_intents` and loop, `risk.py`'s limits, in won and shares | `cash`, `held`, `open` are the account at Toss; `price` the market; `run` is `_cycle`'s local state |
| `Backtest` | `backtest/engine.py` over `Costs`, `CandleStore`, `Strategies` | `bt` is the run in progress, an account of `Accounts` the local state of `run` after a day |
| `Research` | a backtest beside a sync, in two processes | |
| `RateLimiterMC`, `LiveTradingMC`, `TossRequestMC`, `PaperBrokerMC`, `ServiceMC`, `ResearchMC`, `RebalancingMC` | values of the constants for TLC | |
| `RateLimiterProofs`, `LiveTradingProofs`, `TossRequestProofs`, `PaperBrokerProofs`, `ServiceProofs`, `ResearchProofs`, `RebalancingProofs` | the theorems | |
| `FoldProofs` | lemmas on sums, folds over sets and products, for the last two | |

`LiveTrading` EXTENDS `Ledger` and `TossAccount`; `TossRequest` EXTENDS
`TokenManager` and `OrderEndpoint` and INSTANCEs `CallOnce`; `PaperBroker` EXTENDS
`PaperAccount`, whose steps its own refine; `Service` EXTENDS `KillSwitch`,
`TradingDay` and `Telegram`; `Research` EXTENDS `CandleSync` and `Backtest`, which
share `CandleStore`. `LiveTrading`, `Service` and `Rebalancing` look at the same cycle from
three sides: the first has the orders, the ledger and other processes, the second
the threads, the lock, the two calendars and the commands, the third the figures.

### RateLimiter

Each stretch of code under the bucket's lock is one action: `Grant` and `Wait`
are the two ends of acquire's loop body, `Respond` is observe_headers (whatever
the answer), `Penalize` is penalize and the client's backoff after it. Tokens
are counted in `Unit` parts and time in seconds, so the arithmetic is exact;
`SleepFor` rounds the deficit up to a whole second as the coarser clock demands.
`ChangeDocLimit` is the hour changing under `Group.limit_at`. Buckets share
nothing, so one is the general case. Three history variables serve the
properties only: `window` (an observer counting grants), `calm` (threads whose
sleep nothing has disturbed) and `pausedUntil`.

### LiveTrading

`StartCycle`, `ReadHoldings`, `ReadCash`, `Gate`, `Plan` are `_cycle` down to
its loop; `CheckOrder`, `Submit`/`SubmitRefused`/`SubmitLost`, `Record`,
`PollTerminal`/`PollOpen`/`PollFails`, `Finalise` are one turn of the loop and
the body of `LiveBroker.submit`; `Restart` and `Sync` are `Runner.build` and
`sync_orders`. The step boundary is the network call or the commit: everything
another process or Toss can do may happen between two of them. `Crash` takes
any runner at any step. `Halt` and `Resume` come from any process at any time.
`Fill` and `Close` of `TossAccount` are the exchange.

Abstractions, and why they are sound for what is checked:

- A share costs one unit of cash and prices do not move. The drift of equity that
  prices cause is the choice `loss` in `Gate`. Two currencies, fees, and the
  price of an order are left out: the figures are `Rebalancing`'s. Of the two
  currencies one thing is kept: `snapshot` swallows a failed call for the dollars
  (`live.py:77-81`), so `ReadCash` sees the cash or any part of it (`Seen`).
- The drift band, the markets in the cycle's list and a missing price all decide
  whether a symbol is traded in this cycle: `Plan` chooses the set `tradable`.
- Strategies are a choice from `Targets`. No market open, not a rebalance day and
  no targets all end the cycle at the same point (`NothingToDo`).
- The stock warnings can refuse any buy (`CheckOrder`'s third case).
- `OpenStatuses` and `TerminalStatuses` are the code's whole sets; a cycle neither
  cancels nor modifies an order, so `Fill` and `Close` reach only `PENDING`,
  `PARTIAL_FILLED`, `FILLED`, `CANCELED` and `REJECTED`.
- The model is one day, both in UTC (which counts orders) and in KST (which ends
  the automatic halt). The day boundaries are in `Service`.
- `sync_orders` reads the history, then writes order by order; a read that fails
  is a restart that fails, which `Crash` covers.
- `SubmitLost` is an order Toss took whose answers were all lost. An order that
  Toss takes only after the client has given up is not in this model; that it can
  happen is what `CallOnce` says (`TakeEffect` after `Fail`).
- `create_order` is one step here. `TossRequest` is what justifies it: the retry
  loop places the order at most once and reports success only if it did.

`missed` and the `late` flag of a runner are history: orders that are live and
whose submit ended without a row, and cycles that were past their gate when the
switch was thrown.

### TossRequest

`Start`, `TakeToken`/`GetToken`, `Send` are the top of the loop; `TransportError`
is the `except httpx.HTTPError`; `Succeed`, `Retry`, `Raise` are the three ways
out of an answer. Each is one stretch of code between two points where another
thread or Toss can act; the lock of the token manager is held from `TakeToken` to
`GetToken` or `TokenFails`, over the request for the token. Waiting for the rate
limiter and for the backoff takes only time, and is part of the next step.

A request stays on the wire as long as it likes, also after its client timed out
and sent another. `Refuse`, `Begin`, `Complete`, `Abandon` and `Replay` are what
may become of it, and `Answer` delivers the status or loses it. That Toss executes
a key once, answers 409 while it does and the original order afterwards, is what
`create_order` and `tests/test_client.py` rely on; that the client sends the same
key each time, never resends what is not idempotent, and stops after
`max_retries`, is the code. `Keyed` calls are orders, `Plain` ones modify and
cancel. Of the account lookup that `account_seq` may nest in a first call only the
failure is modelled; as a call of its own it is one more `Calls` member.

`call[c].denied` and `errors` are history.

### PaperBroker

A process is the service, `tqt cycle` or `tqt paper reset`. `Start` builds the
broker; `CheckCash` and `InsertCash` are the two statements of `_ensure_cash`,
`WipeAccount` the transaction of `reset`. An order is `Quote` (price, exchange rate,
rounding to whole shares in Korea), `ReadPosition`, `ReadCash` and `Commit`: two
reads and a transaction, with nothing that holds the account in between. `Die` may
come anywhere. Cash is counted in parts fine enough for every cost to be exact.
`Commit` writes what the code writes, an UPDATE of a cash row that may be gone by
then included.

`clash` is history: an order was committed after another process had changed the
account it had read. The code has no guard against that, and no document says it
has; `FillsExplainAccount` and the refinement `AccountUntilClash` say what holds up
to that moment, `NoDebt` and `WholeShares` what holds even then. A single service
never clashes with itself, since its cycles are under one lock.

### Service

`StartJob` is the scheduler, `MarkEquity` the half-hourly mark, `TakeLock` to
`FinishCycle` the statements of a cycle on shared state, in their order:
`clear_cache`, the snapshot's equity row, the two reads of `is_halted`, the limits of
`check_cycle`, `is_rebalance_day`'s test and read of the calendar cache, and for each
order the check and the row. `Halt`, `Resume` and `ResumeToday` are the statements of
`halt` and `resume`, by the operator's process or by the Telegram thread, which
`PollCommands`, `HandleUpdate` and `SendReply` take through `poll_once`.
`CrashAndRestart` takes the process and its memory, never the database.

A day in Seoul has a part before 09:00, when UTC is still on the day before, and a
part after; the US cycle falls into the first, the KR cycle into the second.

Abstractions:

- A cycle of the scheduler ends before its part of the day does, and one that
  `/rebalance` asked for may go on past midnight.
- An order that is refused changes nothing here; the account and the broker are
  `LiveTrading`'s and `PaperBroker`'s. A second process that trades (`tqt cycle`) is
  left to `LiveTrading`, where `BudgetBound` says by how much it may exceed the budget.
- `clear_cache`, the snapshot and the equity row are one step: what comes between
  them concerns no other thread.
- `CheckLimits` is one step for three statements of `check_cycle`: the read of the
  day's loss, the read of the order budget, and the write of the day's stop. The lock
  keeps other cycles out; the equity mark and an operator's stop or resume, which need
  no lock, may in the code also fall between them, and come before or after here.
- What is no command of the configured chat is skipped by the code and left out.

`stopOwed`, `goOwed` and the flags `stopped` and `clean` are history: a stop ordered
and not resumed since, a resume that no stop has crossed, and the same for the
cycle or the command under way.

### Research

`StartSync` is the timer or a user; `FetchPage` is one page of `iter_candles`,
`PageFails` the `TossError` that drops a symbol, `WriteBatch` the transaction at its
end, `SyncDies` a kill. There is one sync at a time: that the timer's and a hand-run
`tqt data sync` overlap in two processes is not modelled. Nor is `iter_candles`' guard
against a cursor it has seen before (`client.py:398`): the cursors of the history
modelled only go back. A bar read during its session has not its close yet
(`BarNow`). `StartBacktest` and `LoadClosesAndRun` are the two queries of `tqt backtest
run`; the run itself shares nothing, so it is one step. `Frame` is the constructor's
alignment of the two frames, `Accounts` the loop: `Bar` on each day of the index, which
fills yesterday's decision at today's open, one order after the other, with costs,
dust and the drift band as the code has them, and then makes today's decision by
one of the four strategies. `Ordered` is the loop of `_rebalance`, a fold of
`AfterOrder` over the symbols held or targeted, those with the largest reduction
first; symbols that change by the same quantity follow each other in the order of
their codes, where the code keeps the order of its dictionary. Numbers are exact:
prices are small integers, weights and rates are in parts of a constant. Floating
point is left out, and so are the equity curve's statistics. `bars` is history: what
each bar left behind.

`hindsight` is history: what the same study reports on the final bars.

### Rebalancing

`StartCycle`, `ReadHoldings` and `ReadCash` are the two calls of a snapshot that
matter (an open order may be filled between them). The buying power in dollars is a
call of its own whose failure is swallowed (`live.py:77-81`): `ReadCash(lost)` leaves
out `lost` of the cash, 0 when the call succeeds and else what the dollars come to,
one of `Dollars`. The cycle then goes on, at its first snapshot or at one after a
fill, and takes the account for less than it is. `BlendSleeve` is one turn of
`PortfolioPlan.target_weights`' loop, with no answer when the sleeve has no data or
its strategy raises; `PlanOrders` is `_build_intents`, whose symbols, quantities,
sides and order are those of `Orders` and `Before`. One turn of the loop is
`DropOrder` (blocked or refused), `FillOrder` (terminal while it is polled, filled
or not; `ReadHoldings` follows a fill) or `LeaveOpen` (`PENDING`: no new snapshot).
`FillOpen` is Toss, which may fill an order left open in parts, and `MovePrice` the
market, at any time between two of these steps. What ends a cycle early, a crash
included, is `StopCycle`.

Weights are parts of `Whole`, a target is `parts[s] / of`, and `Drift` is multiplied
out, so that no division is left but the one that makes a quantity.

Abstractions:

- A symbol's price is a fraction's in won: the exchange rate is one of the reasons
  why it moves. Both currencies of the buying power are one, as in `cash_krw`.
- The code divides in `Decimal`, to 28 digits, and rounds an American quantity in the
  last of them; here it is cut to the smallest fraction, which is never more. The
  scale of the weights is exact.
- The prices of a plan are fetched one by one; here they are of one moment, except
  those that cannot be had.
- An order that Toss took and whose answer was lost is left open as in `LeaveOpen`:
  the loop goes on with the snapshot it has in both cases.
- Switches, the budget and warnings may block any order (`DropOrder`); which do is
  `LiveTrading`'s and `Service`'s matter.
- Toss fills within the buying power, costs included, and tells what is sellable
  with its own open sells taken off. A fill is at the price of the moment, and what
  it slips is part of its cost.

`book` is history: the last cycle's opening equity, what it planned on, and whether
since then prices moved (`steady`), orders were left open (`alone`), and whether it
planned on the whole account and everything was filled to the letter (`exact`). A plan
made without the dollars is not `exact`, and `NoChurn` says nothing of it: such a cycle
sells towards less than there is, and the next one, which reads them again, buys back.
No document says otherwise. `LimitsHold`, `BuysFunded` and `TypeOK` hold of it.

## 3. The runs

| run | checks | result |
|---|---|---|
| `limiter` | `TypeOK`, `WindowBound`, `SleepSuffices` | hold, 617 k states |
| `limiter_retry_after` | `RetryAfterHonoured` | violated: a finding |
| `trading` | `TypeOK`, `LedgerTruthful`, `BudgetBound`, `OnlyLateCyclesTrade`, `CycleEnds` | hold, 732 k states |
| `request` | `TypeOK`, `OrderedOnce` (refinement), `PlainOnce`, `RetryHasNewToken`, `CallReturns` | hold, 313 k states |
| `request_auth_once` | `AuthRetriedOnce` | violated: a finding |
| `halt` | `HaltStopsOrders` | violated: a finding |
| `double_buy` | `NoDoubleBuy` | violated: a finding |
| `paper` | `TypeOK`, `NoDebt`, `WholeShares`, `FillsExplainAccount`, `AccountUntilClash` (refinement) | hold, 353 k states |
| `service` | `TypeOK`, `StopHolds`, `ResumeHolds`, `BudgetHolds`, `CalendarStays`, `OnceUnlessRestarted`, `AutoStopHolds`, `EveryCommandIsHandled` | hold, 670 k states |
| `daily_loss` | `DailyLossStops` | violated: a finding |
| `research` | `TypeOK`, `NoHoles`, `OnlyNewestIsPartial`, `SyncCatchesUp`, `NoLeverage`, `TradesOnlyCost`, `WholeAccountAtMost`, `NothingUntargeted`, `ResultsAreStable` | hold, 157 k states |
| `rebalancing` | `TypeOK`, `LimitsHold`, `BuysFunded`, `NoChurn` | hold, 1623 k states |

What they show:

- *limiter.* Two threads are enough for one to disturb another's sleep or pause,
  five seconds (`MaxTime`) for a bucket to fill, drain and fill again, and limits
  of two tokens, one token and half a token a second put the capacity above, at
  and below its floor. The threads are interchangeable, hence the symmetry.
- *trading.* Two runners, one crash, two cycles and a budget of two orders: the
  smallest instance in which two processes take the last place of the budget
  together, one recovers the order the other polls, and one is past the gate
  when the other halts. `MCTargets` moves half the account from one symbol to
  the other, so each cycle both sells and buys. Four order ids are never used up.
  `CycleEnds` is checked under `FairSpec`, hence no symmetry between the runners.
- *request.* One order and one cancellation with two attempts each: the first
  request of the order can arrive before, during or after the second; each call
  can invalidate the token under the other, and one can wait for the lock the
  other holds.
- *request_auth_once.* With two retries, the second 401 is retried like the first.
- *limiter_retry_after.* `penalize` puts `updated` ahead of the clock; the next
  acquire clamps the elapsed time to 0 and then writes `updated = now`, so the
  pause is gone.
- *halt.* `check_order` never reads the switch. A cycle past its gate places its
  remaining orders; `OnlyLateCyclesTrade` says that nothing else does.
- *double_buy.* A poll fails, the order stays open, the next cycle reads holdings
  that do not include it and buys the shares again.

- *paper.* Two processes, a Korean and a US stock, three orders and three starts:
  enough for two orders to overlap, for a reset to fall into an order, for two
  processes to fund the account, and for a buy, a partial sell and a refused one.
- *service.* Two days, both parts of the second; one order a day, so that the
  scheduler and `/rebalance` meet over the last one; a `/resume` behind the
  `/rebalance`; and one event, which is a restart, a failed poll, a reply that is
  not sent, or an order of the operator.
- *daily_loss.* The first equity mark of a day in Seoul is taken before 09:00 and
  stamped with the date before; the baseline is looked for under today's date. A
  cycle of that night trades after a loss over the limit.
- *research.* Four days, installed on the second, one page a day, a failing page or a
  kill: a walk of several pages is cut at any point and taken up the next night. One
  asset rises or lists late, the other is halted for a day; each of the four
  strategies, in one of the two markets, is backtested while that goes on; with two
  slots (`TopN`) and one risk asset, some are always left to the safe one.
- *rebalancing.* A Korean symbol in shares of two fractions and an American one whose
  price moves between 2 and 3; two sleeves whose budgets come to a tenth more than the
  account, so that weights are scaled, and either of which may give no answer. The
  account starts with both symbols held and cash for two more purchases, under limits
  that one order can meet and two cannot (`Limit` 5 of 10, `Gross` 8 of 10); a fill
  costs 0 or 1, and of the cash 3 may be dollars that a snapshot fails to read
  (`Dollars`), in either cycle and after any fill. Two cycles are enough for the
  second to find an order of the first still open, and to trade on what it left.

Deadlock is not checked in the trading, request, paper, service, research and
rebalancing runs:
with the bounds on cycles and crashes reached and every order ended, when all calls
have returned, or when the last day is over, the system really has nothing to do.

Bounds that are not in the code: `MaxTime` (the clock), `MaxCycles`,
`MaxCrashes`, the number of `OrderIds`; `MaxOrders` and `MaxStarts` of `PaperBroker`;
`Days`, `Script`, `MaxEvents` and `Watched` of `Service`; `Days`, `SyncsPerDay`,
`MaxFailures`, `Studies` and `MaxRuns` of `Research`; `MaxCycles` of `Rebalancing`.

Fairness: `FairSpec` says that a runner inside a cycle, or down, takes its next
step. A thread that runs keeps running, every HTTP call has a timeout, and
systemd restarts a service that died. Nothing is assumed of the exchange (an
order may stay open for ever) nor of whoever starts a cycle. In `TossRequest` it
is the steps of a started call that are fair, `TransportError` among them: a
request that is never answered times out. Nothing is assumed of Toss. In `Service`
each thread inside a cycle goes on, and the command thread goes on polling and
handling: `run_command_loop` survives a failed poll. The operator, the scheduler's
start and the sender are free. In `Research` the timer starts a sync once more when
the last session is over, and a running sync goes on; it may be killed all the same.

## 4. The proofs

All theorems hold for every value of the constants that the named assumptions
(`LimiterAssumption`, `AccountAssumption`, `TradingAssumption`, `ServiceAssumption`
and so on) allow: any number of threads, runners, symbols, targets, any limits.

`RateLimiterProofs`

- `TypeCorrect`: `Spec => []TypeOK`. What is not obvious is that `tokens` stays
  natural, which rests on `Enough`.
- `WindowBounded`: `Spec => []WindowBound`. The bound is not inductive alone: the
  invariant adds what the bucket still holds to what the window has granted, up
  to the time of `updated`, so that a refill adds no more than the rate allows
  and `Refilled`'s cap pays for the burst. The products of variables are handled
  by lemmas on monotonicity.
- `SleepsSuffice`: `Spec => []SleepSuffices`. The invariant `CalmInv` says that by
  the time a calm thread wakes, the tokens with their refill at the present rate
  make a whole token; a refill short of one is never capped, because `Capacity`
  is at least `Unit`, which is what the `max(1.0, ...)` of the code is for.

`LiveTradingProofs`

- `TypeCorrect`, by cases on the actions, with a lemma for each way an action
  changes `run`.
- `HaltStopsGates`: `OnlyLateCyclesTrade`, with `TypeOK`.
- `LedgerIsTruthful`. Three invariants lead to it: `CycleInv` ties a runner's
  place to the state of its order (a runner at "final" holds a terminal one),
  `OwnInv` says no two runners hold the same order and that an order being
  recorded has no row yet unless it was reconciled, and `LedgerInv` is the
  property together with the fill count of an order still held.
- `BudgetHolds`. The count of known orders cannot be bounded step by step,
  because between the check and the row a runner holds a place that the ledger
  does not show. `BudgetInv` bounds the orders known plus the runners about to
  submit by `MaxOrders` plus the other runners, and says every known order
  either has a row or is held by a runner that is about to write it.

`TossRequestProofs`

- `TypeCorrect`, which includes the bound on attempts and that the lock's holder
  is the one call that asks for a token; `CallInv` adds that a call outside the
  loop has made no attempt, without which `Start` could overshoot.
- `OrdersOnce`: `Spec => OrderedOnce`, the refinement. `OnceInv` says that an
  order's effect count is 1 exactly when its key is done, that at most one of its
  requests is being executed and none once it is done, and that success is
  answered only then. Then `Complete` of a keyed request is `TakeEffect`,
  `Succeed` is `Succeed`, the four ways to raise are `Fail`, the rest stutters.
- `RetriesHaveNewTokens`: the cached token is denied to no call, but to one that
  is about to invalidate it. It rests on the lock being held while a token is
  issued, so that no older token can be put in the cache after an invalidation.
- `PlainExecutedOnce`: a plain call has at most one request that may still take
  effect, and none outside "wait" and the end; while it has one, its effects do
  not exceed the server errors it was answered.

`PaperBrokerProofs`

- `TypesHold`, `NeverInDebt`, `KoreanSharesAreWhole`. A commit writes what was read,
  so the bounds are of a process's own memory: an order at "decided" is paid by the
  cash that process read. That a sale brings in more than it costs needs the rates
  to be under the whole, and a lemma on products.
- `AccountIsItsFills`: the invariant says that, until a clash, whoever is past a read
  and not stale has read what is there.
- `BrokerImplementsAccount`: the refinement, from the same invariant: `Commit` is
  `Trade`, `InsertCash` is `Open`, `WipeAccount` is `Wipe`, all else stutters.

`ServiceProofs`

- One invariant carries all seven: `TypeInv`; `CycleInv`, what a cycle knows at each
  place as long as it holds the lock (at "submit" there is still a place in the
  budget, at "read" the calendar is still there, past "today" no limit has stopped
  this day); `StopInv` and `GoInv`, which follow a stop and a resume through the two
  statements each takes; `OnceInv`, by which an update is due, in hand or handled,
  and only a restart makes a handled one due again.
- `TypesHold`, `StopsHold`, `ResumesHold`, `BudgetKept`, `CalendarKept`, `HandledOnce`,
  `AutoStopsHold` follow.

`ResearchProofs`

- `HolesNever` and `OldBarsFinal`, for any history, page size and failures, under
  `MaxBars >= Days` (with a lower limit a hole is what the code leaves). Neither is
  inductive: what is written counts on what was read over many steps. `WalkInv` says
  of the walk that down to its cursor nothing is missing (`Dense`), that a bar which
  is not final is the newest of all (`Final`), and that a walk which is over reached
  a bar the store holds or the first one there is (`Reach`). `PageFacts` is the lemma
  on a page; that `max_bars` ends no walk early is a counting argument.

The backtest's, in the same module: for any symbols, prices, histories, rates and
parameters of the strategies, and without `MaxBars >= Days`.

- `WeightsWithinWhole`: each strategy gives out as many slots as it fills, and the
  safe asset what is left. `TopSize` is the counting: `Top(score, n)` has n members,
  or all there are. A safe asset that is itself a risk asset keeps the sum under the
  whole because its weight replaces the other.
- `NeverLeveraged`: `BoughtFacts` says a buy scaled down by `Affordable` costs at most
  the cash, with fees each rounded down against the quotient's remainder; `OrderFacts`
  is one order, `OrderedSettles` the whole rebalance, `BarFacts` a bar.
- `RebalancingCosts`: `EquityMoves` is the change of the account's value at the open
  by one order, which is slippage and costs, never positive.
- `UntargetedIsSold`: an order settles its symbol and no later one disturbs it
  (`OrderedSettles`, for the symbols up to any point of the loop).
- `LaterBarsRewriteNothing`: an account after day d depends on the bars up to day d
  only (`SameDecision`, `SameBar`, `SameAccounts`), and what a backtest read on final
  bars is what the full history shows up to its last day, whose decision is never
  filled. That needs the opens and the closes, which two queries read while the sync
  may write, to agree on those days: `FinalReads`.
- `ResearchTyped` and the five follow from `Sound`: the store and what a sync or a
  backtest has in hand hold bars of days the symbol traded (`Records`, `InHand`,
  `Reading`), and every report was made by a run with the properties above
  (`Reported`). The types alone are not inductive: what is read is in the history only
  because what is written came from a page.

`RebalancingProofs`: for any symbols, prices, weights, limits, costs and orders left
open. Of the constants it assumes that a price is never 0, that a strategy gives out
at most the whole (`WeightsWithinWhole` is that theorem) and that the budgets of the
sleeves come to the whole and a tolerance, which `PortfolioPlan.__post_init__` checks.

- `PlansAreFunded`: the targets come to what there is at most (`TargetsFit`, which
  `Scaled` keeps sleeve by sleeve), so the drifts of all symbols add up to the cash at
  most (`DriftsWithinCash`); a buy spends no more than its drift, since its quantity is
  cut (`SpentFacts`), and what drifts the other way is what the account holds beyond
  its targets (`PlanFunded`).
- `BuysWithinLimits`: neither the weight nor the exposure is inductive, since an order
  is checked on a snapshot and the orders before it have changed the account.
  `SnapshotInv` says that in an undisturbed cycle the snapshot has the account's
  holdings and prices whenever an order is checked, and its cash or less (what was not
  read of it), that the account is worth no more than at the start, and that the
  orders' prices are the market's; `BuyWithinLimits` then takes the limit from the
  check to the account after any part of the order is filled, and later sells only
  lessen it.
- `RebalancingSettles` is of plans made on the whole account (`exact`). `ExactInv`
  describes the account half-way through the loop: it is worth what it was, the orders
  done have moved their symbols by their quantities, and the others are where they
  were. At the end every symbol is as `NoLotLeft` wants it: what is left of its drift
  is less than a lot, and drift of the other sign cannot arise because quantities are
  cut and never rounded up. `NothingTraded` is the case of what was not traded to
  begin with.
- `RebalancingTyped`: that cash and shares stay natural rests on `SellsHeld`, that the
  open sells of a symbol never come to more than is held, which is what `Submitted`
  trims a sell for.

The premises of the second and the third, that prices stay and no order is left open,
are not a weakness of the proof: with an order left `PENDING` the next one is checked
on a snapshot without it (`runner.py:242`), and two buys that fit one by one exceed
`max_gross_exposure` once both are filled.

`FoldProofs`

- What the sums and folds of the models come to. The library's induction theorems
  take an operator, which the provers cannot instantiate, so each fact that needs
  induction is proved from the least element of a set of naturals (`HasLeast`) or a
  smallest set with a property (`HasSmallest`): the least counterexample, one element
  less, a contradiction. `SetRecursion` gives a function on the subsets of a finite
  set that satisfies a recursive equation, `SumComputed` to `SumUnion` what a sum over
  a function is, `SumAdds` and `SumScales` that it is linear, `MulGrows` to
  `DifferenceOfMultiples` the products of variables the solver does not find.

Only model-checked: `CycleEnds`, `CallReturns`,
`EveryCommandIsHandled` and `SyncCatchesUp` (liveness is out of the prover's reach),
and the violated properties.

## 5. Not modelled, and what could come next

Left out because nothing the models say depends on it: HTML and charts, message
formatting, field parsing, command line output, configuration files, logging;
alerts to Telegram and Discord, which no state depends on; `preflight` and
`check_ip`, which only report. Left out because TLC cannot compute with it:
floating-point statistics (`backtest/metrics.py`, `validate.py`). `tick.py` is called
by nothing but its test, since the runner sends market orders only.

Abstracted where it could be made exact: the two currencies and the exchange rate of
the live account (but for dollars that cannot be read), `cancel_all`, and the daily report.

Next, in order of importance: what the limits of `check_order` still bound when an
order is left open or holdings and buying power are read around a fill; the paper
broker under the service's cycle, so that a command-line cycle's clash is seen from
the risk gate; splits in `CandleSync`, which the incremental sync does not see.
