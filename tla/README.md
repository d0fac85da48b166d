# Formal model of the signal trader

TLA+ modules for the server in `src/`: it receives trading signals over HTTP
(mostly TradingView alerts), checks a runtime lock, sizes a trade, enters it on
Binance USD-M futures, protects it with a stop loss and take profits, and keeps
a journal. The modules model the parts that hold state and run concurrently;
TLC checks them on small instances and TLAPS proves their safety properties for
every value of the constants.

## 1. The system

### Threads and shared state

The ASGI server has one event loop. Every handler in `main.py` is an `async`
function that does not await after it has read the body, so handlers run one at
a time and are never interrupted by each other. An accepted signal becomes a
background task, `execute_background`, which is synchronous and therefore runs
in the thread pool: executions run side by side with each other and with the
handlers. The operator's requests on positions, the safety audit and the
TradingView observation are handlers: they exclude each other and the webhook,
and race with the executions. They share

* one SQLite file: `signals`, `trade_executions`, `trade_orders`,
  `runtime_state`, `runtime_lock_events`, `account_risk_opens`
  (`app/storage.py`); each store method is one transaction under the store's
  lock, and no transaction spans two store methods;
* the exchange: positions, open orders, conditional orders.

Nothing else is shared: no lock is held across two store calls, and there is no
lock per symbol. Nothing resumes an execution after a restart.

### Inventory

| Component | Source | State | Operations | Hard behaviour | What makes it correct |
|---|---|---|---|---|---|
| Runtime lock and one-shot | `app/runtime_control.py`, `RuntimeControlStore` | one row: locked, until, the one-shot's enabled/remaining/expiry/consumer; an event log | lock, unlock, unlock-once, effective state (with two expiries), check, consume | check, consumption and expiry are separate transactions; crash | one grant lets one TradingView signal in; a lock is respected; the columns agree |
| Live guard | `app/live_guard.py` | none of its own | startup lock, checks before and after the plan | reads the one-shot a second time | a live process starts locked; only an execution with a one-shot trades; risk is capped |
| Signal intake | `main.py`, `SignalStore` | `signals` by key | deliver, redeliver, reject, settle | redelivery during execution, crash after the row is written | executed at most once; settled |
| Journal | `app/journal.py`, `TradeJournalStore` | one row per key, orders | persist execution, failure, rejection, duplicate | unique key, swallowed exceptions | status and row agree |
| Trade execution | `app/trader.py` | exchange state, the local summary | existing position, entry, fallback, protection, emergency close | partial and late fills, failed and lost calls, other executions' cancellations | never more than the plan; an open position has a stop; emergency close leaves nothing |
| Account risk | `app/account_risk.py`, `AccountRiskStore` | `account_risk_opens` | check (five reads), record | check and record are far apart | limits hold up to concurrency |
| Sizing and exchange rules | `app/risk.py`, `app/exchange_rules.py`, `prepare_plan` | none | plans by risk or by hand, fallback after a partial fill, take-profit shares | rounding, fees, a market that moves between plan, limit order and fallback | never more risk than asked for; take profits fit the position |
| TradingView validation | `app/tv_production.py`, `app/tv_sandbox.py`, `app/schemas.py` | the payload, normalised in place | validate, normalise, at the webhook and again in the execution | time passes and the market moves in between | what is admitted is fresh; the second normalisation changes nothing |
| Maintenance | `app/trader.py`, `app/dashboard_runtime_control.py`, `main.py` | none of its own | close a position, cancel orders | races with executions, fills and triggers; calls that fail one by one | a close only reduces; a closed position leaves nothing |
| Reconcile and audit | `app/reconcile.py` | the latest report | read and classify positions and orders, advise | three reads that are apart and fail one by one; runs the expiries of the lock | a position without a stop is an ERROR; its advice is safe |
| Observation | `app/tv_observation.py` | none | rate the journal of a window and the open positions | a failing read is swallowed | says so too |
| Exchange client | `app/binance_client.py` | none | signed requests | retries, time-outs | |
| Configuration, dashboards, statistics, translation, redaction | `app/config.py`, `app/dashboard.py`, ... | none | rendering, aggregation | | |

`execute_background` calls `Trader.execute`, which asks the lock, the live
guard and the account risk before it enters, and afterwards writes the journal,
the signal's status and the consumption of the one-shot, in this order.

## 2. Modules

| Module | Models | Uses |
|---|---|---|
| `RuntimeControl` | the lock row and everything that touches it | |
| `RuntimeGate` | the promise of `is_execution_blocked`, with two history variables | extends `RuntimeControl` |
| `SignalLedger` | abstract: a key is owed, running, settled or dropped | |
| `SignalIntake` | webhook, de-duplication, execution's bookkeeping, journal | `Ledger == INSTANCE SignalLedger` |
| `TradeExecution` | `Trader.execute` on one symbol against the exchange | |
| `AccountRisk` | check and record of the account limits | |
| `LiveGuard` | the second read of the one-shot in a live execution | extends `RuntimeControl` |
| `SignalRules` | validation and normalisation of a signal, twice | |
| `TradeSizing` | plan, limit order and fallback with prices and quantities | extends `SignalRules` |
| `Operations` | maintenance requests and inspections beside an execution | extends `TradeExecution` |
| `MC...` | small instances for TLC | the module of the name |
| `...Proofs` | theorems | the module of the name, `TLAPS` |

Operators whose comment begins with "Mutant" are wrong variants of an operator
next to them. They are used by nothing; substituting one shows which property
notices the mistake.

### RuntimeControl

`row` is the row of `runtime_state`. `one_shot_started_at` becomes `grant`, the
number of the operator call that opened the one-shot, so that two grants can be
told apart; `Never` is a NULL instant. `snap[t]` is the state dict a thread
holds between two store calls, `pc[t]` where it is. Each store call is an
action: `ReadState`, `MaybeAutoExpire`, `AutoExpireEvent`, ... are the lines of
`effective_state`, which executions (`Begin` ... `Decide`) and handlers
(`QueryCall` ... `Answer`) both run. `SetLocked`, `ConsumeOneShotAndLock` and so
on are the SQL statements as functions of the row, their WHERE clause being
the IF. `Finish` stands for the rest of `Trader.execute`, returning or raising;
it leads to the consumption because that is in the `finally` clause. `Crash`
keeps the row and the events, drops the threads, and goes to `Startup`, which
locks when `LiveStartup`, or fails to: whatever the lock raises is logged and the
server goes on with the row as it was (`main.py:97`). Two history variables: `under[t]`
is the grant an execution was let through by, and `lockFailed` says that the startup
lock of the running process failed.

`RuntimeGate` adds, for each execution that is checking, whether an instant of
its check has had the gate open, and shut.

### SignalIntake and SignalLedger

`signals` and `journal` are the two tables by key, `handler` is the delivery
the event loop is serving (one at a time), `pc[k]` the execution of a key.
A delivery is valid or rejected; the same key may be delivered in both ways.
`Persist`, `PersistOrders`, `PersistFailure`, ... are the calls of
`TradeJournal`, whose exceptions are swallowed: a `Fault` moves on without the
effect. A fault in `MarkDone` moves to the failure path, as the `try` block
covers it. `Crash` keeps the tables and drops the rest, the queued tasks
included. `FateOf` maps the state of a key to the ledger.

### TradeExecution

One symbol, `position` a signed number of units, `limit[t]` the open units of
the limit order of an execution, `algo` the conditional orders; they and
`bought` belong to the exchange. Each call of the client is an action with
three outcomes: accepted; rejected (`BinanceAPIError`, no effect); or an answer
that was lost, with or without the effect. Where the code catches
`BinanceAPIError` only, the last one goes to `raised`. The market acts between
any two calls: `FillLimit` one unit at a time, `Trigger` of a stop or of a take
profit. In the risk modes the unit is a share of the plan's target risk, so that the
recalculated fallback quantity is any number up to what the plan has left. In manual
mode (`sig[t].manual`) a fallback makes the plan again, from the notional at the latest
price (`trader.py:576`), and buys what that has left: up to `ManualQty`, which may be
more than `PlanQty` when the market has fallen.
Prices are left out; a price check is a choice between passing and not.
`blind` and `thin` are history: executions whose limit order outlived its
cancellation or went unobserved, and those that had a market order filled in
part.

### AccountRisk

`opens` is the table, `units`, `stops` and `loss` the exchange. The five reads of
`check_before_entry` are five actions, `Judge` applies the five rules to what
was read, `Enter` and `NoEntry` are the rest of `Trader.execute`, `Record` is
`record_successful_open`. `limits`, `plan` and `stopless`, chosen at the start and never
changed, are the settings, the symbol of each execution and the executions whose plans
have no stop, so one run covers several deployments and every distribution of
executions over symbols. A plan without a stop adds nothing to the risk that is
compared with the limit (`account_risk.py:137`).

### LiveGuard

`validate_live_guard_before_plan` runs after the lock check of the same
execution. `CheckSignal` stands for its demands on deployment and signal, which
an execution meets or not (`Acceptable`; `SignalRules` has them in full), then
the thread goes through `effective_state` once more, with the actions of
`RuntimeControl`, and `CheckOneShot` decides on what it has read.
`metGrant` is history: the executions whose second check has met an instant with
an active one-shot.

### SignalRules and TradeSizing

One signal, from the webhook to the entry. `settings`, chosen at the start and
never changed, is the part of the configuration the rules read. `Webhook` and
`CheckPolicy` are the two places where a TradingView signal is checked and its
guard prices normalised, in place, so `payload` is a variable; `reason` is why it
was turned down. Prices, quantities and percentages are integers over the
constants `Unit`, `Tick`, `Step` and `Cent`; a comparison of quotients is
multiplied out, so nothing is rounded that the code does not round. The one
exception is `margin`, kept over `Cent` and rounded down.

`PreparePlan` is `prepare_plan` with both builders of `risk.py`, the fee rate, the
leverage brackets and the slippage check. `GuardPlan` is the live guard on the
plan. Then the entry: `MarketEntry`, or `PlaceLimit`, `Poll`, `CancelLimit` and
`AfterLimit` while the exchange fills (`FillLimit`). `fill` is what was
executed and for how much, `seen` the last poll, `filled` what the code believes:
the quantity of the cancellation together with the average of the last poll.
`AfterLimit` recalculates the fallback from the risk that is left.

### Operations

The variables of `TradeExecution`, one request (`mpc`, `job`, what it `held`) and
one inspection (`apc`, what it has in `view`). Each call of the client is an action;
`Free` says that the event loop runs one of them to its end before the next.
`ReadHeldPosition` ... `SettleClose` are `close_position_maintenance`, a cleanup
starts at its cancels, `DELETE /orders` is them alone. The audit
reads position, orders and conditional orders (`ReadPositionView`,
`ReadRegularView`, `ReadAlgoView`), the observation the first and the last;
`Judgement` applies the checks. Three variables are history: `alone` says that no
execution has been under way since the request began, `exposed` that the position has had
no stop on its side since the inspection began, `undisturbed` that no execution has been
under way since then and no limit order was open at that time. Signals may arrive at any
time and end all three. `Leftovers` are conditional orders of earlier executions.

## 3. Properties and runs

### RuntimeGate (passes)

Two TradingView executions in two workers, two operator calls of any kind,
queries and audits, a TTL of one tick, two ticks, one crash, a deployment that locks at
startup, which may fail.

* `OneShotRowConsistent`: no interleaving of the six UPDATE statements leaves
  columns that contradict each other, such as a consumed one-shot over an
  unlocked row.
* `SystemLockReplacesGrant`: a lock written on behalf of a signal or a TTL
  never overwrites a lock or unlock of the operator that came in between.
* `AdmissionJustified`, `RefusalJustified`: the check is several reads and
  writes, its answer need not be true when it is given, but it is true of some
  instant of the check.
* `LostGrantIsSpent`: an execution that is lost in a crash takes its one-shot
  with it, because the live process starts locked. It does so only if the startup lock
  went through; if it raises, the old one-shot lets the next signal in (section 5).

Two executions and one further thread are enough for every order of two
writers with a reader that decided earlier; two operator calls make the
replacement of a lock or of a grant during a read possible.

### LiveOneShot (passes, with fairness)

A live deployment that wants a one-shot and does not lock at startup, two TradingView
signals in two workers, of which the guard accepts one, one operator call, one crash.
(`LIVE_REJECT_TRADINGVIEW_BY_DEFAULT` is off here; with it no TradingView signal reaches
the second check.)

* `LiveTradeHadGrant`: a live execution trades only if an active one-shot within
  its TTL was there at some instant after the lock check. An operator's unlock,
  another execution that consumes, or an expiry in between stops it.
* `OneShotClosesAfterSignal` (liveness): the one-shot that let an execution
  through is closed when that execution is over, the live guard having turned
  it away or not.

Fairness: weak fairness of the steps of an execution that has begun. They are
statements of one synchronous function in its own thread and wait for nothing
that another thread holds. Nothing is assumed of the operator, the clock, the
arrival of signals, or of crashes.

### SignalIntake (passes, with fairness)

Two keys, one of them of TradingView, any number of deliveries, one failing
store call, one crash.

* `ExecutedAtMostOnce`: the refinement `Ledger!Spec`; it also says that what
  was refused or lost is never executed.
* `StatusAndJournalAgree`, `JournalRowKept`.
* `ReceivedIsSettled` (liveness): on every path of `execute_background` the
  signal is marked done or failed, unless the process died or the database
  failed.

Fairness: the handler that is being served, and each execution. Two keys are
enough: a handler serves one while the execution of the other runs, and keys
touch different rows. One fault reaches every `except` clause.

### TradeExecutionSerial (passes)

One worker, two executions drawn from eight signals (both sides, every policy,
both entry types, risk and manual modes, with and without cancelling, fallback and stop),
one thin fill, two failing calls, a plan of two units, of three when it is manual and made
again.

* `EntryWithinPlan`: limit order, partial fills, late fills and fallback
  together never buy more than the plan, and in manual mode never more than the larger of
  the plan and the one made again for the fallback. What has been filled is not bought twice.
* `OrderlyEndsAreCovered`: while all executions have ended without raising or
  failing their protection, an open position has a stop on its side.
* `PositionsDoNotStack`: an entry never goes on top of an old position: what is open was
  bought by one execution.
* `EmergencyLeavesFlat`: an emergency close that was answered leaves no position.

Two executions are what it takes for one to meet what the other left; two
units are the smallest plan with a partial fill; two faults let a call and the
repair of its failure both fail.

With two workers the other properties than `EntryWithinPlan` are false, because
the position is read once and there is no lock per symbol: two `replace` signals
that both read a flat position both enter (section 5). `EntryWithinPlan`
is proved for any number of workers, the other three for one (section 4).

### Operations (passes)

One execution, drawn from a long market entry, a long limit entry with fallback and a
short entry that brings no stop; two requests of any kind, one audit or
observation, one failing call, and at the start either nothing or an old stop of
a short. Fills, triggers and partial closes happen between any two calls.

* `MaintenanceOnlyReduces`: the amount of a close is read several calls before
  its order; whatever happens in between, the order neither reverses the position nor
  adds to it.
* `ClosedLeavesNothing`: a close that was answered with `position_closed`, whose
  cancels went through and which no execution ran beside, leaves nothing.
* `AuditReportsExposure`: a position without a stop on its side for all of an
  audit makes it an ERROR, whichever reads fail and whatever old orders are listed.
* `ObservationReportsExposure`: the observation says so too, under the
  conditions it needs: it is enabled, its reads succeeded, and no old stop of the other
  side is listed, as it does not look at sides.
* `AdvisedCleanupStripsNothing`: a cleanup that follows the advice of an audit takes no
  stop from an open position, if the audit could read the position, no limit order was
  open when it began, and no execution has been under way since. The property says
  how far the advice carries, not that the code makes it safe: neither the audit's caller
  nor `cleanup_symbol_orders` looks at the position again, so a signal that arrives between
  audit and cleanup loses its stop (section 5).
* `EntryWithinPlan`: nor do cancellations of the operator make the entry buy twice.

A single execution is enough: the requests are the second actor on its orders, and
the leftovers stand for executions before it. Two requests let one meet what the other
has left; one fault fails any single call of either.

### TradeSizing (passes)

Twenty-one signals (both sides, all modes, fresh, stale and from the future, with and
without a close, with levels that are too near, on the wrong side, missing or more
than a whole), five configurations, three prices, two ticks. A quantity is a
single-digit number, so that rounding matters and a limit order fills in several parts.

* `AdmittedFresh`, `AdmittedGuards`: what comes out of the queue as a TradingView signal is
  fresh at that moment, has its levels on their sides and beyond the minimum
  distance, and closes no more than the position.
* `QueuedPricesAreFinal`: the second normalisation changes nothing, whatever
  the market did, so that the stored prices are the traded ones.
* `NormalizedIsFarEnough`: with a buffer above the tolerance no signal with a close is
  turned down for its distances.
* `PlanWithinTarget`, `FallbackWithinTarget`: plan, limit order and fallback
  together lose at most the target at the stop, the fees of both ends included.
* `LeverageWithinCap`: the leverage raised for the fallback included.
* `TakeProfitsFitPosition`: never more than what was filled, and all of it when the
  shares make a whole.

### AccountRisk (passes)

Three executions in two workers, three symbols, three settings, two days, one
failing read or order; either every plan has a stop or none has (the theorems cover the
mixtures). Every limit (trades per day, open positions, entries per cooldown, total risk)
is exceeded by at most `Workers - 1` entries: `DailyTradesBounded`,
`OpenPositionsBounded`, `CooldownBounded`, `TotalRiskBounded`. The last one has an
exception: a plan without a stop counts as no risk, so it passes when the limit has just been
reached, and where there are such plans the total risk is exceeded by up to `Workers` entries, with
one worker by one. Three executions with a limit of one are what it takes to
see both the overshoot and its bound.

### Deadlock

Deadlock is checked in the runs of `RuntimeControl`, `RuntimeGate`, `LiveGuard` and
`SignalIntake`. In the other runs the executions, requests or signals are given and the
system stops when they have ended.

### Findings

Five runs show a disagreement between the code and what the repository says of it.

| Run | The repository says | The code does |
|---|---|---|
| `OneShotTwoTvSignals` | only the next TradingView signal enters (`README.md:916`) | the lock is checked at the head of `Trader.execute` and the one-shot consumed at the end of `execute_background`; a second execution in between gets in too |
| `StaleAutoExpire` | a lock goes when its own `locked_until` has passed (`README.md:449`) | `set_unlocked` is unconditional after an earlier read: a newer operator lock goes as well |
| `DuplicateTakesJournalRow` | a duplicate is not written to the journal (`README.md:403`) | `persist_duplicate_signal` writes it; during the execution it takes the unique row, and the execution's own row and orders are lost |
| `EmergencyBypassed` | the position is closed when the placement of its protection fails (`app/config.py:61`) | only `BinanceAPIError` is caught; a time-out raises past the emergency close |
| `LiveRiskUncapped` | `LIVE_MAX_RISK_USDT` caps the risk of signal and plan (`docs/v6.4.4-live-canary-safety-guards.md:13`) | the plan's risk is compared only when the signal has no `margin_usdt`; a `fixed_pct` signal with its own margin passes with any risk |

## 4. What is proved

Every safety property that a passing run checks is also a theorem, for every value
of the constants that meets the named assumptions of its module. TLC shows it on a
small instance, the theorem for any number of executions, workers, signals, levels,
operator calls and crashes, and for any prices and steps.

### Assumptions

Most assumptions say that bounds are natural numbers, null values are not values, and
signals are signals (`ThreadAssumption`, `TimeAssumption`, `BoundAssumption`,
`GuardAssumption`, `QtyAssumption`, `SignalAssumption`, `OperationsAssumption`,
`LimitAssumption`, `WorkerAssumption`, `UnitAssumption`, `PriceAssumption`,
`SettingAssumption`, `PayloadAssumption`, `StepAssumption`, `AccountAssumption`, `StoplessAssumption`; `SignalIntake`
needs none). Three say more:

* `DistanceAssumption` (`SignalRules`): the minimum distances and the buffer are at
  most 10 percent, the tolerance 1 percent, as `validate_runtime` demands
  (`config.py:292`).
* `ResolutionAssumption` (`SignalRules`): prices are counted in units fine enough that
  rounding a normalised price costs less than the buffer adds to the tolerance. The
  code divides exactly; the model rounds to the unit.
* `BudgetAssumption` (`TradeSizing`): the margin the account offers is worth at least one unit of
  `margin`, the one quantity the model rounds where the code does not.

Some theorems have a hypothesis of their own, which names the deployments they are about:

* `Workers = 1` for `EmergencyLeavesFlat`, `PositionsDoNotStack` and
  `OrderlyEndsAreCovered`. With a second worker on the symbol they are false (section 3).
* `LiveStartup` for `LostGrantIsSpent`: the process starts locked, as a live one does by
  default. Without it the row keeps the one-shot across a crash. The property itself leaves
  out a process whose startup lock failed.
* both, and `[]~lockFailed`, for `OneShotAdmitsOneTvSignal`, the property that the run
  `OneShotTwoTvSignals` shows violated with two workers; without the startup lock, or with one
  that failed, a crash is enough to violate it, as the row keeps the one-shot of the lost
  execution.

### The lock

* `RuntimeControlProofs`: `TypeCorrect`; `RowConsistent`, for which `TypeOK` and
  the consistency of the row are inductive together; `SystemLockSafe`, an action
  property that follows from the WHERE clauses once it is known which reasons
  the other statements write.
  `LostGrantsSpent` needs `LostInv`: from a startup lock that went through on, no grant of a lost
  execution is in the row, in any snapshot, or behind an execution that goes on, and before it
  nothing runs that could read the row. A grant is newer than all before it because it has
  the number of its operator call (`Numbered`).
  `OneShotAdmitsOne` adds `SoleInv`: behind one worker the next execution begins when the
  one before it is over, and then that one's grant is closed in the row and in what the next has
  read of it.
* `RuntimeGateProofs`: `AdmissionsJustified` and `RefusalsJustified`. The
  inductive invariant says, for each place in `effective_state`, what the
  thread's snapshot proves about the instants since its check began: a snapshot
  with the gate open was taken under an open gate, an expired lock in the
  snapshot means that the gate has been open, and so on. It needs the
  consistency of the row and of every snapshot.
* `LiveGuardProofs`: `GuardTypeCorrect`; `LiveTradesHadGrants`. `GuardInv` says what the
  second check of an execution knows at each place: an active one-shot in the
  row it has read was met, unless it had run out already; the check's own writes leave
  none active, so one that is active after them was met as well. It
  stands on the step lemmas of `RuntimeControlProofs`. `LostGrantsSpentLive`: the second check
  reads and writes nothing that would break `LostInv`.

### Intake

* `SignalIntakeProofs`: `TypeCorrect`; `ExecutedOnce`, the refinement of
  `SignalLedger`; `RowsKept`; `RecordsAgree`. `KeyInv` says that handler and
  executions never work on the same key: a branch about to insert a key has
  seen it absent and no other handler has run since, and an absent key has no
  execution. `RecordInv` says how far the record of an execution has come at
  each label; the crux is that before the execution's own INSERT nothing but a
  duplicate can have written its row.

### Execution and maintenance

* `TradeExecutionProofs`: `TypeCorrect`; `EntryBounded`. `EntryInv` says what an
  execution knows about its entry at each label: before it nothing is bought or
  open; while the order rests, `filled_qty` is at most what is bought; from the
  cancellation on it is exact, and that is when the fallback takes the
  difference to the plan, or to the manual plan made again. `EntryWithinPlan` alone is not inductive: without the exactness the
  fallback could buy again what the limit order has bought already.
  For one worker, `SerialInv` says that one execution runs at a time and that a limit
  order is open only while its execution waits for it, or is a stray. On it stand
  `SeenInv` (without strays the amount read before a close still covers the position:
  fills and triggers only take from it), hence `EmergencyFlat`; `StackInv` (no position before an
  entry that does not add, and from then on only what that entry has bought), hence `NoStacking`; and `CoverInv`
  (the old stop guards the position until it is closed or the entry has bought something, and from
  the confirmation on the position has the side its own stop will guard), hence `OrderlyCovered`.
* `OperationsProofs`: `OperationsTypeCorrect`; `EntryBoundedBeside` (the lemmas of
  `TradeExecutionProofs` with the operator's steps added); `CloseOnlyReduces`;
  `ExposureReported` and `ExposureObserved`, with `AuditInv`: while `exposed`, what the inspection
  has read so far has the side of the position, and no order in its view is a stop on that side.
  `CloseComplete`, with `ClosedInv`: once nothing runs beside a request, the orders it has cancelled
  stay away, and with them whatever could open a position again. `AdviceIsSafe`, with
  `AdviceInv`: while `undisturbed`, an inspection that has read no position will find none, nor
  will the request that follows it.

### Account limits

* `AccountRiskProofs`: `TypeCorrect`; `DailyTradesOvershoot`, `OpenPositionsOvershoot`,
  `CooldownOvershoot`, `TotalRiskOvershoot`. Each has the same argument: an execution that has passed
  the rule and has not yet recorded or entered occupies a worker, and what it has read was within the
  limit then; so what is there, together with those that have passed, is never more than the
  limit and `Workers - 1`. `TradesInv` has to look across midnight, where an execution counts one day
  and records on the next; `OpenInv` counts symbols, as an execution may skip the rule because its
  symbol is open and enter when it no longer is; `CooldownInv` says that nobody joins those that read
  before the cooldown began; `RiskInv` sums units over symbols, and an execution without a stop has passed with the
  limit reached. They rest on the library's facts about
  cardinalities and on lemmas about sums over finite sets.

### Signals and sizing

* `TradeSizingProofs`: `FreshAdmitted`, `GuardsAdmitted`, `QueuedPricesFinal`,
  `PlansWithinTarget`. `SizingInv` says that a queued TradingView signal is settled, that
  is, unchanged by another normalisation, and that no plan exists before the signal
  is admitted. The lemmas behind it: normalisation is idempotent
  (`NormalizedIsSettled`), rounding never rounds up (`FloorBelow`), the quantity for a
  target times the loss per unit is at most the target (`QtyWithinTarget`).
  `FarEnough`: `FarInv` says that only the policy turns a signal down for a distance, and that the
  guards it sees are settled; a moved guard stands at minimum and buffer.
  `LeverageCapped`, with `CapInv`: plan and fallback choose from the same bracket and cap.
  `FallbackRisk`, with `FillInv`: an order is executed at its limit or better, and the last poll is an
  earlier state of it; from there a chain of inequalities leads from the rest of the target to the
  loss of both parts. `TypeCorrect` and `TakeProfitsFit`, with `TakeInv`: the shares of what is queued
  are within the whole, and the guards are the allocation of what was filled.
  Sums over the take profits are by induction over their number. The library's induction theorems take an
  operator, which the provers cannot instantiate, so each induction is the argument about the least
  number at which the claim fails (`NatLeast`), or about the set of numbers up to which it holds (`UpTo`).

Proving found two things the small instance had not. `FallbackWithinTarget` used the distance
to the stop without its sign; an order that is executed beyond its own stop, which TLC's three prices do not
produce, is a gain there, and is now counted as one (`EntryLoss`). And the
rounding of the model needed `ResolutionAssumption` and `BudgetAssumption`.

Only model-checked: the two liveness properties, `OneShotClosesAfterSignal` and `ReceivedIsSettled`
(the prover has no rules for fairness and ENABLED), and the violations of section 3, which are counterexamples and
need no proof.

## 5. What is not modelled, and what was seen on the way

* Signing and HTTP, parsing of the environment, pages, statistics, translation
  and masking change no state that a property is about.
* The HTTP adapter's retries of a POST: whether a second submission under the
  same client order id is refused is up to the exchange. A lost answer is an
  order that may or may not exist, once.
* The stored report of the audit, its merge into the health overview, readiness and
  alerts; the checks of the observation on journal rows are one level.
* Spelling variants of fields, formats of time stamps, the wording of rejections.
* A signal that is not from TradingView passes an active one-shot
  (`main.py:162` consumes only for TradingView). On a live endpoint with the defaults
  those are the only signals that pass, so a one-shot stays open until its TTL.
* When `cancel_order` fails and the second look shows no fill, the limit order stays
  open while the entry is reported as `limit_entry_not_filled`
  (`trader.py:1093`); a later fill has neither stop nor take profit.
* The executed quantity comes from the cancellation, the average price from the last
  poll (`trader.py:1107`). `FallbackWithinTarget` leaves out executions in which they
  differ (`AverageIsStale`); there the target can be exceeded by the price
  difference within the order.
* The live caps on notional and margin are checked on the plan (`trader.py:1416`), not on
  the fallback. In manual mode the fallback may even buy a larger quantity than planned: the
  plan is made again at the latest price (`trader.py:576`), and a sell limit that was left
  unfilled in a falling market buys the notional's worth at the lower price.
* A startup lock that raises is logged and passed over (`main.py:97`): the server
  runs on with the row as it was, an active one-shot of a lost execution included, and nothing
  locks it later. Failing store calls of the other operations on the lock are
  not modelled, the consumption of the one-shot (`main.py:164`) among them.
* A plan without a stop counts as no risk (`account_risk.py:137`) and passes the limit on the total
  risk until it has been exceeded; once open, it is estimated at the penalty.
* The advice of the audit is as old as the audit: a signal or a left-over limit order that opens
  a position before the advised cleanup loses its stop to it (`reconcile.py:411`).
* A failing read of the positions leaves the observation saying that there are none
  (`tv_observation.py:403`), and an audit that could not read the position still
  advises to clean up its orders (`reconcile.py:411`). The properties
  exclude both and say so.
* A maintenance close that fails or fills in part has cancelled the protection before
  (`trader.py:1619`); the rest of the position has none. Without a position at the
  first read the answer is `no_position_cleanup_done`, whatever the second one shows.
* The dashboard's cleanup answers 409 whatever happened
  (`dashboard_runtime_control.py:300`), as the result has no `success` key.
* `_maybe_expire_one_shot` has the same stale read as `_maybe_auto_expire`: its
  UPDATE asks for an active one-shot, and closes one that was opened after the
  read although its TTL has not passed.
* `maybe_consume_one_shot_for_tv_signal` compares two reads around its UPDATE;
  two executions that finish together both log `one_shot_consumed`. The row
  itself stays consistent.
* `reconcile_run` is documented as leaving Runtime alone (`main.py:700`); through
  `status_payload` it runs both expiries.
* Two `replace` signals on one symbol in two workers open two plans, one on
  top of the other.
* Policy `add` with `cancel_before_open` cancels the stop of the position it
  keeps before an entry that may never fill; `OrderlyEndsAreCovered` leaves this
  combination out, as nothing in the repository promises a stop there.

## 6. Plan

Done in this order, the most important behaviour first: the lock, because every
trade depends on it; the intake; the execution; the account limits; the live
guard on top of the lock; validation and sizing; maintenance and inspections
beside the execution.

Next:

1. The gate composed with intake: a rejection at the webhook leaves a one-shot open
   (`README.md:916` lists it among the outcomes that close it).
2. The alerts and the streak of failures of the observation, on top of the journal of
   `SignalIntake`.
