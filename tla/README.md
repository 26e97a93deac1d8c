# A verification of tw-swing-trading-mvp

This directory holds TLA+ models of the repository, the TLC configurations that check
them, and proofs for TLAPS. Paths are relative to the repository root; `src/` is its
Python package.

* [The system](#the-system): its parts, how they interact, what is hard
* [The modules](#the-modules): what each models and how its state and actions are the code's
* [The runs](#the-runs): what each asks, its bounds, its fairness
* [What is proved](#what-is-proved)
* [Where the code and its documents disagree](#where-the-code-and-its-documents-disagree)
* [What the models show that no document settles](#what-the-models-show-that-no-document-settles)
* [Not modelled](#not-modelled)

## The system

A daily, multi-strategy swing trading simulator for the Taiwan stock market, with a
research side (backtests, gates, universes) and an intraday quote collector beside it.
A cron job starts `simulation run-daily` once per account after the close. It syncs the
bars of the day, executes yesterday's signals at today's open, makes today's signals, and
plans tomorrow. What it knows is in one SQLite database; an operator works on the same
database with CLI commands and a small web application while it runs. The collector
writes raw files of ticks and books during the session.

| Component | Source | State it keeps | Operations | What makes it correct |
|---|---|---|---|---|
| Allocator | `src/trading/allocator.py` | the locals of one `plan()` | SELLs, netting, two layers of limits, sizing | limits, no wash trade, no adding, cash not spent twice |
| Execution engine and broker | `src/application/execution/engine.py`, `src/broker/fake_broker.py` | none of its own; books fills | gate, order, plan, price, book | every leg once, books balance, exits never gated |
| Daily runner | `src/application/runners/simulation.py`, `src/cli/simulation.py` | `daily_runs`, `signal_bundles`, `signal_items`, `order_intents` | run-daily in four stages, reset | stages complete and stay so, every day ends completed |
| Execute-pending | `src/cli/simulation.py` | none | a second execution, without lock, gate or mark | books nothing twice |
| Portfolio projection | `src/portfolio/projection.py`, `ledger.py`, `db.py` | `fills`, `cash_ledger`, `position_lots`, `fifo_matches`, `cash_balances` | apply fill, rebuild, reconcile, corporate actions | projection = facts, nothing sold twice |
| Trade write service | `src/application/services/trade_write.py` | the same tables | record-fill, reject, un-reject, long-term flag | same |
| Account and trade commands | `src/cli/account.py`, `trade.py`, `corporate_action.py` | the same tables | init, adjust-cash, adjust, close-all, apply | same |
| Legacy planner | `src/trading/planner.py` | locals | the preview of `trade plan` and `signal list` | shows nothing beyond the limits |
| Equity, trades, dashboard | `src/application/services/` | `equity_snapshots` | snapshot, curve, completed trades, overview, P&L | views explain each other |
| Risk exit | `src/strategy/risk_exit.py` | reads lots and watermarks | exit bundles | every stopped position gets its SELL |
| Entry strategies | `src/strategy/*.py` | none | entry rules on point-in-time bars | no look-ahead |
| Approvals | `src/approval/`, `src/cli/approval.py` | manifest files, active map | activate, deactivate, validate | the last command holds; active means stored |
| Calendar | `src/calendar/calendar.py` | sessions | next session, sessions between | |
| Daily market data | `src/market_data/repository.py`, `provider.py`, `aggregator.py`, `finmind_provider.py` | `market_bars` | sync, backfill, history, find | reads are point-in-time |
| Liquidity universe | `src/market_data/liquidity_universe.py`, `universe_policy.py` | `universe_policy` | build, seed, members on a day | membership is point-in-time |
| Intraday collector | `src/market_data/intraday_collector.py`, `intraday_connection.py`, `src/cli/intraday.py` | queue, counters, streams, lease | start, callbacks, worker, renewal, stop | a loss is never silent; the lease covers all writers |
| Raw archive | `src/market_data/intraday_storage.py`, `intraday_audit.py` | raw files, gzip, manifests | append, compress, audit | what was acknowledged is there, or the audit says so |
| Observations | `src/market_data/intraday_observations.py`, `intraday_book.py`, `intraday_tick.py` | a state machine per plan | normalise, replay | no event without confirmation |
| Backtest | `src/application/runners/backtest.py` | a private account, watermarks, curve | day loop, statistics | no look-ahead, numbers reconcile |
| Research governance | `src/application/runners/verdict.py`, `research_ledger.py`, `fingerprint.py` | ledger, gates, fingerprints | record, register, judge | trials counted, thresholds fixed, point-in-time |
| Sector flow | `src/application/reporting/sector_flow.py`, `src/market_data/sector_flow_sources.py` | none | tables into report numbers | not modelled |
| Reporting, web, MCP, alerts | `src/application/reporting/`, `src/web/`, `src/mcp/`, `src/notification/` | none | read and render | not modelled |

How they interact. run-daily calls the engine; the engine calls the allocator on the
positions and the cash of the projection, then the broker, then books each fill in a
transaction of its own. Entry bundles are shared by all accounts, exit bundles are
private to one. `daily_runs` has one row per day and account with a sub-status for each
stage; it is what a rerun goes by. run-daily runs alone behind a file lock;
`execute-pending`, `reset`, `backfill`, `approval` and every operator command take no
lock. The backtest drives the same allocator, broker, strategies and risk exits on a
private account in memory. The collector has an SDK thread that calls back, a worker that
writes and renews subscriptions, and the main thread; a lease file keeps maintenance and
a second collector away.

### What is hard here

* A crash after any commit, and a rerun that goes on from sub-statuses and from the keys
  of fills that are booked. The rerun plans again, on books the first try has changed.
* Late data: WAITING at Stage 1 or Stage 2, and bars that other commands store.
* Two accounts, one shared entry bundle, and whichever account runs first.
* The operator's commands between any two commits; a command of two transactions.
* A rebuild from facts that were committed out of order, or while it reads.
* Plans are made at yesterday's close and filled at today's open.
* Callbacks that must not block on a bounded queue, a stop that may time out, a
  reconnection that subscribes while the collector stops.
* Files that are replaced step by step by processes that may die at each step.
* Look-ahead: bars, universes, thresholds and trial counts that later data or a
  concurrent run could change.

Every hazard, with its line and the properties that would catch it going wrong, is in
`PROJECT.json` under `hazards`.

## The modules

```
Tallies <- AllocatorOps
AllocatorOps <- Allocator <- OrderPreview <- MCAllocator
AllocatorOps <- Execution <- MCExecution        DailyRun <- MCDailyRun
AllocatorOps <- PortfolioOps <- Portfolio <- AccountViews <- MCPortfolio
AllocatorOps, MarketRules <- Backtest <- BacktestReport <-(two INSTANCEs) MCBacktest
Capture <-(INSTANCE, refinement) TickCollector <- MCTickCollector
RawJournal <- MCRawJournal        Tallies <- QuoteBooks <- Observations <- MCObservations
Universe <- Research <- MCResearch        Approvals <- MCApprovals
```

Proofs stand in modules of their own: `XProofs` extends `X`, for `Execution`, `DailyRun`,
`TickCollector`, `RawJournal` and `Observations`; `AllocatorProofs` extends `OrderPreview`,
`PortfolioProofs` extends `AccountViews`, and `GovernanceProofs` extends both `Research` and
`Approvals`, which share no state.

### Tallies, AllocatorOps, Allocator, OrderPreview: `MultiStrategyAllocator.plan`, `OrderPlanner.plan_all`

`AllocatorOps` has the rules as pure operators: `SplitLotOrders`, `Fee`, the checks of a
BUY (`BuyAllowed`), the order budget (`Affordable`), the shrinking loop (`Sized`: the
largest affordable quantity), what a SELL and a BUY do to the locals (`AfterSell`,
`AfterBuy`), and the whole of `plan()` (`Plan`: `AfterSells`, then `AfterBuys`). The two loops
and the sums (`Tally`) and filters (`Only`) of `Tallies` are recursive functions: the prover
cannot expand the recursive operators under the folds and `SelectSeq` of the libraries.

`Allocator` runs the two loops one signal at a time. `input` holds the arguments of the
call and `p` the locals: `local_positions`, `local_cash`, `global_spent`,
`strategy_spent`, `netted_symbols`, `new_positions_count`. Prices are whole TWD. A block
reason is not kept: a blocked signal has no order. `Execution` takes the whole plan
in one step, from the same operators; `Backtest` takes its SELLs and the checks of a BUY
from them and sizes the BUYs at fractional prices.

`OrderPreview` is what `trade plan` and `signal list` show, a different algorithm. It
knows positions by symbol only, counts what every strategy has spent against the limit of
one, spends the proceeds of the sales at once, nets nothing, adds to open positions and
buys at most two new ones. Its loops, `PreviewSells` and `PreviewBuys`, are recursive
functions as those of `Plan` are. `SpendingWithinMeans` asks both for what they do share:
limits kept, and cash that is not negative once something was bought.

### Execution: Stage 2, and everything that can interfere with it

One day of one account. The books are `pos` (ordinary lots by strategy and symbol), `lt`
(long-term lots), `cash`, and the `fills` of the day. Two processes execute: `daily` (the
run that marks `execution_status`) and `pending` (`simulation execute-pending`, no lock,
no entry gate, no mark). Each loads its manifests (`Start`), plans and prices on the books
as they are then (`PlanBundles`), and books one fill per transaction: a key that is booked
already (`BookDuplicate`), `BookBuy`, `SkipBuy` (INSUFFICIENT_CASH_AT_FILL), `BookSell`,
`SkipSell` (LONG_TERM_PROTECTED), `FailSell` (SELL_WITHOUT_POSITION, which ends the run as
FAILED). A process may crash between any two of these. The operator records fills, rejects
and un-rejects signals, changes approvals and sets the long-term flag at any point; a
backfill stores late bars.

`overlapped` becomes true when a command or a second process works on the account while a
process is booking. The properties about limits are stated for the other behaviours: the
code has no protection there, and the hazards list says so.

The engine checks the cash of a BUY again at its fill, and of a SELL never. So an engine fill
that leaves the balance negative is a SELL: one on a balance that an operator's fill had
overdrawn, or one so small that it does not bring the fee of 20 TWD
(`EngineNeverOverdraws`).

### DailyRun: the stages of every day and account

`runs` is `daily_runs`, `proc` is the run-daily that holds the lock, with the row as it last
read it (`proc.rec`, the local `run_record`). Each action is one commit or one decision of
`run_daily`: `StartRun`, `SyncDone`, `SyncWaits`, `Refresh`, `PlanExecution`,
`ExecutionWaits`, `Book`, `BookFails`, `MarkExecuted`, `Measure` (Stages 2.5 and 2.6),
`GenerateFails`, `GenerateExits`, `SaveBundle`, `GenerateEntries`, `PlanNext`,
`MarkSignals`, `Finish`. Around it: `Crash`, `Fails` (an exception, whose handler writes
`proc.rec`), `Reset`, `RecordFill`, `RejectSignal`, `UnRejectSignal`, `Backfill`,
`SourceDelivers`, `NextDay`. A bucket is
held or not; which orders of a plan trade is left open, because `Execution` has that part.
Which signals fire is data here (`Picks`, `Stops`) and computed in `MarketRules`; which of
them are made, saved, loaded and planned is what the module is about. Exits are one bundle
for each strategy a position is stopped in (`ExitBundles`), and a bundle without a signal is
not saved (`NoSignal`). Whether a position is stopped is judged on the lots of the account,
which the fills of a later stage change: `SignalsComplete` speaks of the positions that were
not traded since (`Untraded`).

An `Item` is a row of `signal_items`; `rejected` has those with `user_override =
'REJECTED'`, and `restored`, a history variable, those that were and are no more. The loader
(`Loaded`) drops what is rejected and then the entries of strategies outside the pipeline
(`Gated`), and both the execution and the plan of the next one load. `intents` is the plan
as it was stored. The dashboard reads it and marks the items rejected since (`Shown`), so
`IntentsMatchLoader` compares what is shown with what is loaded, whenever a signal is
rejected: only an item that was rejected when the plan was made, and restored after it, is
loaded and not shown. The `signal_id` of an exit has no account in it (`risk_exit.py:60`),
and reject-signal sets every row of the id (`Namesakes`, `trade_write.py:174`): the exits of
the same position in both accounts, but not one that the other account saves later.

A wait in the execution marks the sync as done (`runners/simulation.py:267`), so that no
rerun syncs that day again, and `market backfill` fetches the symbols of the settings
(`FixedUniverse`). What an account on the liquidity universe has planned to buy is in neither:
such a day stays WAITING until the bar is stored otherwise, the signal is rejected
or the day is reset. `EventuallyCompleted` is therefore conditional (`Unblocked`).

The refusal to sync before 14:00 is a bar that is late. `report_status` is left out: Stage 4
sets it and nothing reads it.

### PortfolioOps, Portfolio, AccountViews: the books, what rewrites them, what reads them

One account, one symbol. The facts are `fills` and `ledger`, the rows of `cash_ledger` that
are not of a fill (`DepositRow`, `AdjustmentRow`, `PayoutRow`), each with its day. The
projection is `books`: `position_lots` in insertion order, `fifo_matches`,
`cash_balances`. `PortfolioOps` has what one fill does (`ApplyFill`: FIFO by strategy and
kind of lot), what a corporate action does (`LotsAfterAction`, `SyntheticFills`,
`Payout`), and what `rebuild_from_ledger` computes from the facts (`Replay`: fills and
price adjustments on one time line). The loops are recursive functions, as `Tally`, `Only`
and `Sorted` of `Tallies` are, so that they can be proved about: what is left of a SELL at a
lot (`Remaining`) is a sum over the older lots, the rows a statement selects are their
places in the table (`Places`), and `Replay` books the fills in their order, each after the
actions that are due before it.

A `stock_ratio` is a fraction. `ActionAssumption` says that the new total of a SPLIT is not
less than the old one and that a CAPITAL_REDUCTION leaves a part of the shares, as the
comments of `projection.py` have it; the code checks neither, and a ratio on the wrong side
would make bonus or cancelled shares negative.

A fill (`EngineFill`, `RecordFill`) and a corporate action (`ApplyAction`) are one
transaction; close-all is one per bucket (`CloseAll`, `CloseNext`), over the sums it read
at the start. A cash command or a long-term flag is several: `AdjustCash`, `Adjust` and
`SetLongTerm` commit the facts, then `Read` and `Write` are the two halves of the rebuild,
which selects the facts before its transaction opens. It may crash in between (`Crash`),
be overtaken by the transactions of others, or fail in the replay (`WriteFails`). Two
history variables make the guarantees precise and are read by properties only: `stale` (a
command that changed facts has not rebuilt, or its rebuild was overtaken) and `order`
(`kept` while facts come in the order of their time and none is lost, `broken` when one
was backdated, `restored` by a rebuild).

Time has two points a day: a bare date and `datetime('now')`, which sort before the ISO
times of the fills of that day. `datetime('now')` is UTC, so it may still have yesterday's
date (`Now`).

`AccountViews` adds the readers, each from other tables than the next: `Reconcile`,
`Snapshot` and `Curve` (`equity_snapshots.py`, from the facts), `Overview` and `PnlOf`
(`dashboard.py`, from the projection), `CompletedTrades` and `DaySummary` (from matches
joined with fills). `BooksReconcile` is `reconcile()` itself (`ReconcileOk`), and that
snapshot, overview and curve tell the same (`CurveAddsUp`). `FactsExplainBooks` is that a
rebuild finds what the transactions had left (`RebuildAgrees`), and that what the strategies
earned explains the balance (`PnlExplainsCash`).

### MarketRules, Backtest, BacktestReport: rules over bars, and a run over history

`MarketRules` has the point-in-time read of bars (`History`, `Found`), the entry rules of
five strategies with the names the code gives their conditions, the exit rules with their
precedence (`ExitReason`), and the broker's refusals (`UnfilledReason`: missing, empty,
limit-up, limit-down).

`Backtest` is the day loop of `BacktestRunner.run`: `Execute` what the session before
decided, `Mark` the watermarks, `Decide` exits and then entries as of the close, `Record`
the equity. `acct` is the private account in the database, `bundles` its signals, `memory`
what `run()` keeps in locals. Prices are in units of 1/10000 TWD and amounts in whole TWD, as
in the tables, with a rounding wherever the code has one: the order of a fractional price
(`PlanEntry`), slippage (`FillPrice`), the value of a fill (`Amount`, to the nearest), the
gross result of a match and the worth of a position (`Floored`), the fee of a purchase as
a sale sees it, taken of the unrounded value (`BuyFeeTotal`). `BacktestReport` computes from a finished run what the code
computes: statistics, return layers, years, unfilled orders.

`ResultsReconcile` says that these numbers explain each other up to the roundings, and how
much these may be: half a dollar for each fill, less than one for each match and each
position, and net of costs half a dollar more for a match and one for a purchase. What is
floored is only ever rounded down, so the bounds are not symmetric.

`MCBacktest` instantiates it twice and runs both copies in lockstep on markets that agree
up to a day of divergence: `NoLookAhead` is a property of two behaviours.

### Capture, TickCollector: the collector's threads and what its health promises

`Capture` is the abstract specification: events are taken in order; a settled event is
kept, foreign, or known to be lost; a session passes only when nothing was lost and
nothing is left.

`TickCollector` has the three threads. SDK callbacks (`Deliver`, `PutNowait`, `PutFull`,
`OnMalformed`, `Return`), the worker (`Take`, `RawWritten`, `RawRejected`, `RawFails`,
`HandleTransport`, `Resubscribe` with its retries, `Recovered`, `WorkerExits`), and the main
thread (`Start`, `Subscribe`, `GoLive`, `StopRequested`, `StopUnsubscribes`, `Joined`,
`JoinTimesOut`, `LookAtHealth`, `Close`, `Report` of `smoke_checks`, `Exit`), and `Maintenance`, which takes the lease
when it is free. Every statement that reads or writes what another thread shares is a step;
only what runs under the SDK lock is one. So stop() ends in two steps: it reads `health()`
(`LookAtHealth`) and then writes CLOSED (`Close`), and a callback that began before the stop
may report trouble in between, which is overwritten (`Overwritten`). `TroubleIsKept` is that
this is the only way to lose a report of trouble, and that a counter has what was lost.
`KeepsPromise` does not suffer: what is dropped is counted as a loss. A malformed transport
event is not among the losses, so after this race the smoke test may pass in spite of one.
`KeepsPromise` is the refinement
`Promise!Spec`, with the mapping: `pending` (`Pending`) is the numbers of the item the
worker holds and of the queue, `kept` (`Kept`) the numbers in the raw files, `foreign`
(`Foreign`) the events that are no data of the session, `lost` is `LossDetected`, `passed` is a
smoke test that said `PASS_CAPTURE_ONLY`.

### RawJournal: append, compression and audit of one raw file

`append_raw` under the file's lock (`BeginAppend`, `EndAppend`, a torn tail when it fails
or the writer dies), `compress_raw` step by step (`OpenTemp`, `Verify`, `PublishArchive`,
`PublishManifest`, `UnlinkRaw`), as `intraday-compress` runs it (without the lease) and as
`intraday-maintain` does (with it). A run dies or raises at any step and another meets what it left. `Status`
is the audit. A line that was appended to a torn tail is `Broken`: it parses no more.
`AuditIsHonest`: when the audit finds nothing wrong, every acknowledged record has a place in
the content, and the places are in the order of the acknowledgements.

### QuoteBooks, Observations

`QuoteBooks` is `normalize_raw_book`, `_side` and `book_metrics`, refusing a payload for
the first reason that is met. `Observations` is `replay_observations`: books and ticks in
the order received, a plan of support and resistance followed tick by tick, with `gap`s,
reconnections, delays and clocks ahead.

### Universe, Research

`Universe` is the table `universe_policy`: ranking at the first session of a month
(`Ranked` over `Trailing` sessions), effective intervals, rebuilds, seeded diagnostic
lists, and members on a day. `Research` adds the ledger, the gates, and runs that commit three
times (`Record`, `CountTrials`, `PersistFingerprint`, then `GiveVerdict`) and may die between any two.

### Approvals

The approvals directory at the level of file operations: an inode with a name, opened
(truncated), written on close, moved by `os.replace`; every command uses one temporary name.
`StoreManifest`, `ReadMap`, `OpenTemp`, `WriteTemp`, `ReplaceMap` are the steps of
activate and deactivate, `Die` may come after each. `LoadMap`, `LoadManifest`, `Refusal`,
`ExpiresSoon` and `Preflight` are what the daily run reads and reports. What a
manifest permits (`Modes`) is asked last, as in the validator. A legacy pointer
file is the fallback of the map, as in the code.

`TypeOK` of `Allocator`, `Execution`, `TickCollector`, `RawJournal`, `Observations`, `Research`
and `Approvals` is proved; that of `DailyRun` holds in the state space of its run. It
documents the state and is not a property of the run, because the other properties fail
with it.

## The runs

| Run | Module | Distinct states | What it shows |
|---|---|---|---|
| `allocator` | MCAllocator | 7,296 | limits, netting, no-add, T+1, sizing for every placement of holdings; the preview's limits |
| `execution` | MCExecution | 82,306 | one day with two crashes, a second executor, an operator command and late bars |
| `daily_run` | MCDailyRun | 520,274 | two days, two accounts, one crash, exception, reset, rejected signal or manual fill |
| `daily_live` | MCDailyRun | 79,039 | a day that is started again and that nothing holds up is completed in the end, through one such event |
| `portfolio` | MCPortfolio | 96,770 | books reconcile with facts and views, no share is sold twice, a rebuild agrees with the transactions |
| `lost_fill` | MCPortfolio | (violation) | a rebuild loses a fill that commits while it reads |
| `tick_collector` | MCTickCollector | 412,667 | lease, streams, sessions, trouble and loss across three threads; refines `Capture` |
| `raw_journal` | MCRawJournal | 63,865 | writer, compressions, deaths: the audit is honest |
| `observations` | MCObservations | 1,074,708 | no event without its confirmation; no non-book accepted |
| `backtest` | MCBacktest | 239,400 | no look-ahead; watermarks, exits and, up to the roundings, results reconcile |
| `research` | MCResearch | 1,501,556 | trials, thresholds and point-in-time across concurrent runs and rebuilds |
| `approvals` | MCApprovals | 1,650,885 | commands that die or overlap at any file operation, and expiry |

Every property has a mutant in `PROJECT.json`: a plausible bug in a definition of the
model, with which TLC finds the property violated under the run's own configuration. The
mutated operators stand in the modules, before the definition they mutate, and are used by
nothing else.

### Bounds, and why they are enough

* `allocator`: two strategies and three symbols, so that one symbol can be in both
  strategies' signals and netted while another is free. 16 placements of holdings, two
  amounts of cash, two of money already spent, and three sets of limits, each written so
  that a different limit binds. One set buys more than a board lot, so that a signal has
  two legs.
* `execution`: five scenarios (see `MCExecution`): an exit that frees a place two entries
  want; a limit of one open symbol; both lots on both sides with late bars; a limit-down
  lock with an opening gap and a strategy outside the pipeline; an exit whose own strategy
  enters the symbol again. Two crashes, one operator command and one execute-pending
  (`MaxCrashes`, `MaxCommands`, `MaxPending`) in any order at any point. One crash has a rerun
  meet half-changed books; with the second, a rerun meets what the first rerun made of them.
* `daily_run`: two days, so that what day 1 signals is executed on day 2; two accounts
  with different pipelines and different universes; one late index bar (Stage 1 waits) and
  one late stock (Stage 2 waits, Stage 3 fails), which is an entry outside the settings,
  picked on day 1 and late on day 2, so that no backfill fetches it. `MaxEvents` is 1: one
  crash, exception, reset, rejected signal or manual fill, at any point; un-rejecting is
  bounded by rejecting. `daily_live` has one account, one event, and a second late stock that
  a backfill does fetch.
* `portfolio`: one strategy beside the manual bucket, two days, and four facts or commands
  (`MaxSteps`: trades, corporate actions, commands), two of them commands of several commits
  (`MaxCommands`). Four facts are two BUYs, an action and a SELL that reaches into the second
  lot; two commands are one that crashed or was overtaken and one that heals what it left.
  Shares are odd after the bonus and the reduction, so that the truncation shows, and a
  reduced lot can become empty. The split has its ex-date after the last day: applied in
  advance. Three facts and two commands (572,752 states) hold too, but take longer than a
  run should.
* `tick_collector`: two topics, one caller at a time and a queue of one, so that the second
  event of a burst is dropped; three events, of which any may be a disconnect or a
  reconnection; two retries of a renewal, so that one can fail and one be given up;
  one fault of SDK or disk at any step; two stops, since a stop whose join timed
  out can be called again.
* `raw_journal`: four records in three sessions (a record torn in one session and joined in
  the next), three compressions and three faults: the first dies, the second meets its
  residue, the third runs after an operator may have restarted the collector.
* `observations`: five items (books, ticks, reconnections), the least in which a
  confirmation is begun, broken by any inconclusive tick, begun again and completed; two
  ticks and two seconds confirm, and a delay or pause of 3 is too long for both. The
  normalisation is checked besides on all sides of up to two levels (`MCSamples`).
* `backtest`: seven calendar days, day 4 no session; the window starts on day 2, so day 1 is
  history. Symbol `a` gets any of a set of bars (flat, breakout, shadow, gap, crash, empty,
  missing, locked) from day 3 on; `b` competes for cash. Day 3 to 7 is a breakout, a
  fill, a watermark, an exit that may be locked, and the day it is filled.
  Lookbacks of the rules are constants of a day or two. Prices are a few TWD with two
  decimals, and an order is for 15,000 TWD, of 17,000 in cash: board lots and odd lots occur,
  and the values of fills, matches and positions are fractions of a dollar that are rounded.
* `research`: two months of two days and three symbols ranked by one, so that a ranking
  changes; two researchers with two runs between them, three configurations of which two
  strategies share a family; two builds, over the first month or over both, so that a version
  is rebuilt over the same, a longer or a shorter window, and one seed, at any point.
  The researchers are symmetric: they appear in no property by name.
* `approvals`: two terminals and three commands at file granularity, so that two overlap
  and a third finds what is left; three days, in which one approval begins and one ends.

CHECK_DEADLOCK is off where the system stops: a day that is over, a plan that is
finished, a collector that has exited, a backtest that is done, bounds used up.

### Fairness

* `Execution`: `WF(Work("daily"))` says that a run-daily goes on, and that the operator
  starts it again until the stage is marked (daily_runbook.md tells him to), and
  `WF(BarArrives)` that missing bars are backfilled. execute-pending has none.
* `DailyRun`: weak fairness of the running process (`Step`) and nothing else. That somebody
  starts the day again is cron or the operator, so it is a premise of `EventuallyCompleted`
  and not a part of the specification: strong fairness of `StartRun` for the day in question
  (another account's run may hold the lock in between). The other premise is `Unblocked`:
  from some time on the source has the bars of the index and of the positions, and, when the
  sync of the day is marked, the bars of the positions and planned orders are in the
  database. What is shown is that nothing in the code keeps such a day from its end, whatever
  crashed, failed, was reset, rejected or traded before.
* `TickCollector`: weak fairness of the worker, of the main thread and of each callback
  that has begun: threads are scheduled. Neither the SDK nor an operator has to do
  anything. `KeepsPromise` and the other action properties need none of it.

## What is proved

Eight modules hold proofs. Each proves an inductive invariant `Inv` of its specification
(`Init => Inv`, and `Inv` is kept by every action) and from it the properties that the runs
check on small instances. The theorems hold for every value of the constants that the named
assumptions allow, the bounds included: however many crashes, commands or faults there are.

| Module | Properties proved, besides the invariant |
|---|---|
| `AllocatorProofs` | `TypeOK`, `NoWashTrade`, `EnterOnce`, `ExitsCloseBuckets`, `OpenPositionLimits`, `SpentInv`, `SpendingWithinMeans` |
| `ExecutionProofs` | `TypeOK`, `ExecuteOnce`, `BooksBalance`, `DailyLimitsHold`, `EngineNeverOverdraws`, `ExitsDoneAtCompletion`, `OpenLimitHolds` |
| `DailyRunProofs` | `IntentsMatchLoader`, `ExecutionStaysMarked`, `SignalsComplete` |
| `TickCollectorProofs` | `TypeOK`, `LeaseCoversStreams`, `TroubleIsKept`, `RenewalOpensSession`, `KeepsPromise` (the refinement of `Capture`) |
| `RawJournalProofs` | `TypeOK`, `AuditIsHonest`, `ArchiveSeals`, `ResidueKept` |
| `ObservationsProofs` | `TypeOK`, `EventsAreConfirmed`, `AcceptedIsBook` |
| `PortfolioProofs` | `BooksReconcile`, `EveryShareSoldOnce` |
| `GovernanceProofs` | `VerdictsStand`, `PassIsPointInTime`, `TrialsNeverUnderstated`, `PointInTime`; `LastWordHolds`, `ActiveIsStored`, `ActiveLastsUntilTheOpen` |

### Allocator

For every finite set of strategies and symbols, every set of signals and every set of calls:
the cash left to BUYs is never negative (`TypeOK`), and the money spent is within the daily
limits once it has grown (`SpentInv`).

Assumptions: `SymbolsAssumption` (finite sets), `SignalsAssumption` (a signal names a known
strategy and symbol and has a positive whole price) and `InputsAssumption` (arguments of
the types the engine passes; in particular no negative cash).

None of the properties is inductive alone, since orders say nothing about the locals the next
decision is taken on. `Inv` adds what ties them together: `NettingInv` (the symbols sold are
in `netted`, and no bucket bought is of such a symbol), `BucketInv` (a bucket bought is now
held, and was empty before), `SpentInv` (how `gspent` and `sspent` grew, and the limits they
respect) and `CountInv` (the number of buckets bought is bounded by `newCount`). There is one
lemma per action, and lemmas about the set of members of a concatenation and about the
cardinality of open buckets after a BUY and after a SELL.

`SpendingWithinMeans` speaks of the orders, and the locals of `plan()` are only what it
counted as spent. `ValueHolds` is the invariant between the two: the counters have grown by
exactly what the orders are worth, for the account and for each strategy, and the cash that
is left with that and a minimum fee for each bucket entered is no more than there was. The preview is a pure function of the same input:
its loops are followed order by order (`PreviewSells`, `PreviewBuys`), with what the limits
leave as the invariant of the loop.

### Execution

For every set of scenarios (books, limits, signals, prices, refusals), every set of operator
fills, and any number of crashes, commands and executions.

Assumptions: `ManualAssumption` (the operator's bucket is no strategy; his fills are of
positive shares at positive prices), `ScenariosAssumption` (arguments have their types; the
cash may be negative), `BoundsAssumption` (the bounds are numbers) and `SymbolsAssumption`
(finitely many symbols, for the limit is on how many are open).

`Inv` has four parts.

* `TypeOK`. A BUY needs a positive quantity and a SELL as many shares as the bucket holds, so
  that no bucket goes below zero.
* `KeysInv`: the operator's keys are numbered below his next one, and no key occurs twice. An
  engine fill is appended behind a check of its key; an operator fill has a new number, which
  `ExecuteOnce` alone does not tell.
* `BooksBalance` is inductive with the types.
* `LimitsInv`: while commands do not overlap, one process at most is booking, and at flat
  prices what is spent plus what is due from the fills still to book (`Due`) is within each
  limit. `DailyLimitsHold` alone says nothing of a plan that is half booked; a crash drops the
  rest of the plan, and the next one counts what was booked.

That a plan stays within the limits is the longest argument. A sum over a sequence is a
recursive function (`Tally`); `Recursion` proves that such a definition has its equations
(by the least number principle, `Least`), and from them come what the rest needs of sums: the
sum of a concatenation (`TallyJoin`), of one element, and that dropping elements makes the sum
no larger (`OnlyWeighsLess`). `Split` and `SizeExists` are about the legs of one order:
together they are worth what the budget allows. `SellPlanned` and `BuyPlanned` give one
decision, `SellsPlanned` and `BuysPlanned` the two loops, `PlanIsOf` and `PlannedIs` the whole
plan on the books as they are, `ExecutedIs` what the broker makes of it. Each fill then moves
an amount from due to spent (`BookingLimits`).

`EngineNeverOverdraws` was stated too strongly at first: that no fill of the engine lowers a
balance that is negative after it. The proof of its SELL case fails, and rightly: a sale worth
less than the fee of 20 TWD lowers the balance. The property now says what the code promises,
which is about BUYs.

`ExitsDoneAtCompletion` and `OpenLimitHolds` need a second invariant, `Closes`, behind `Inv`:

* `NamesInv`: every fill of the engine, booked or planned, is of a signal of the day and of
  the bucket that signal names.
* `ExitsInv`, while commands do not overlap. What a process that is booking still has to book
  is `Pending`: SELLs come before BUYs and no bucket has both; a SELL is a leg of what its
  bucket holds now (a board lot part and an odd lot part, `Legs`), or the bucket is settled;
  every exit that was not rejected and can trade has its legs there or its bucket settled; a
  BUY is of a bucket with nothing older than today; and the symbols that stay open after the
  SELLs and BUYs that are left (`KeptOpen`) are within the limit. `SoldInv` says what a crash
  leaves: a bucket the engine sold from is settled, or holds the odd lot whose leg was not
  booked.

Here a bucket is settled when it holds no more than was bought today. The rerun is what makes
this hard: it plans from books that are partly sold, skips the legs whose key is booked, and
must still end with nothing old. What holds of one plan does not carry over a crash, so the
invariant is about what is left to book and not about the plan.
`SellsPlanned` and `BuysPlanned` say what the two loops leave out as well as what they plan,
`PlanShape` what a whole plan is (`Shaped`), `ExecutedShape` what is left of it after refusals
and missing bars, and `RestKeeps` covers the steps that book nothing.

### Portfolio

For every set of strategies, trades, corporate actions and amounts, every number of days, and
any number of transactions, commands, crashes and rebuilds that overtake each other.

Assumptions: `MarketAssumption` (prices are natural numbers, trades are of positive shares,
there are finitely many strategies), `CashAssumption` and `ActionAssumption` (see above).

`PortfolioInv`, the inductive invariant (`BooksHold`), is stated about any facts `F` and any
books computed from them, because three things have to satisfy it: the tables as they are,
the rows a command has selected and will write back later, and every prefix of a replay.

* `Typed`, and `FactsOf`: no two fills have one number, every number was given, and a fill is of
  a day that has come or of an action that was applied (`Dated`). `LedgerDated` is the same of
  the rows of cash.
* `BooksOf(F, b)`: for every set of strategies the shares in its lots are its fills bought less
  its fills sold (`BalanceOf`); the cash flows are those of the fills; every lot is of a BUY of
  its strategy and every match of a SELL and a BUY of one strategy; what is open and what was
  sold of a BUY is at most the BUY (`BoughtOnce`; a reduction cancels shares without a match),
  and the matches of a SELL are all its shares (`SoldOnce`).
* `Selected`: what a command has read were facts with numbers and dates of their own, and unless
  it was overtaken its opening balance is still that of the ledger.
* Unless the facts were changed by a command that has not rebuilt (`stale`), the balance is the
  ledger and the flows.

The module goes from the general to the particular: recursive functions (`Recursion`, `Least`),
the sum of a sequence by the weights of its members (`Weight`: of a concatenation, of a
selection, of a permutation), `Sorted` (the members of the sequence, in the order of their
rank); then what a SELL takes (`TakenType`, `SellShares`: from the older lots first it takes
what it asks for or all there is), a fill (`ApplyFillKeeps`), a corporate action of each type,
where the shares of the lots and those of the synthetic fills are rounded apart and must be
the same (`Synthesized`), and the replay: sorting the facts keeps them, re-pricing keeps the
shares, and each row is a fill that keeps the books, whatever the actions in between. Then
there is one lemma per action of `Portfolio`.

`EveryShareSoldOnce` and `BooksReconcile` follow, with some work on the views: that the net
quantity by fills and by lots is one sum in two orders; that the P&L of the days telescopes
to the last equity less the first (`Telescope`), while deposits and adjustments are those of
some day up to now (`CapitalFlows`); that the matches of a day, summed by trade, are the
matches of the day (`SumsExchange`).

The definitions of the model were repaired on the way. `Flow`, `BuyFee` and `Reconcile` had
been CASEs whose guards overlap: TLC takes the first that is true, but TLA+ leaves open
which, and the prover rightly refused. They are chains of IF now, as the code is. That a
ratio may be on the wrong side of one, which the code does not check, came up in the same way.

### Daily run

For every number of days, and every set of accounts, symbols, strategies, pipelines and
universes. Assumptions: `DaysAssumption`, `UniverseAssumption`, `StrategiesAssumption` (types
of the constants) and `AccountsAssumption` (no account is called `all`, the owner of shared
bundles; accounts open with known buckets).

`Inv`: `RowsInv` (a process at work has a row, of a day that has begun), `RecordInv` (what
`run_record` in memory and the row in the table have to do with each other at each stage; they
differ after a stage has updated the row and before it is read again), `TodoInv` and
`BundlesInv` (bundles name what exists, and positions that were not traded are opening ones),
and `DoneInv` (a completed row has its signals). Unless a reset has taken the rows from under
a run (`raced`), also `ProgressInv` (each bundle of the day is saved or still to do, in the
stage that makes it) and `PlanInv` (when the signals are marked, the entries are saved and the
intents are what passes the entry gate now). The last is needed because later runs of other
accounts add bundles: `LoaderUnmoved` shows that no step after the mark changes what this
account's gate (`Gated`) lets through. Rejections do move what it loads, so `PlanInv` compares
the plan with the gate: what is planned passes it, and what passes it is planned unless it
was rejected at some time (`Overridden`).

`SignalsComplete` was restated on the way. It had spoken of all positions held at the mark;
with three days or more a position may have been bought after its bundle was made. It now
speaks of positions that were not traded.

### Collector

For every set of topics, callers and codes, every capacity, and any number of events, faults
and stops. Assumptions: `CapacityAssumption` (a queue of at least one) and `EventsAssumption`
(kinds are distinct).

`Inv`: `ThreadsInv` (which thread may be where when another is somewhere: a worker only after
start, the lease held while subscribing, closing only when the worker has ended or the session
is fatal), `ClosingInv` (between the last look at health and CLOSED, what was seen still
holds but for what a late callback has counted), `RenewalInv` (until a stop, what a renewal still has to do is active), `LeaseInv`
(what streams is active; while anything is active or the worker lives, the lease is the
collector's) and `SessionInv` (the epoch lags behind the gaps while a renewal is required, and
no record is of a later epoch). `LeaseCoversStreams` alone is not inductive: a renewal
subscribes without looking at the lease.

`KeepsPromise` is proved as `Inv /\ [Next]_vars => [Promise!Next]_vars` under the mapping, and
that initial states map to initial states. Callbacks are `Take` or a loss (`CallbackRefines`),
`RawWritten` settles the head of what is pending by keeping it (`RawWrittenRefines`), failures
by losing it (`FailureRefines`), transport events as foreign (`TransportRefines`,
`RecoveredRefines`), `Report` passes only when nothing is lost and nothing is pending
(`ReportRefines`); everything else stutters (`QuietSteps`).

### Raw journal

For any number of records, sessions, runs and faults. Assumptions: `BoundsAssumption`, and
`LinesAssumption` (a broken line is no record, an absent file no content).

`Inv`: `LocksInv`, `WriterInv` (no archive while a record is written; acknowledged records are
in order), `RawInv` and `ArchiveInv` (a file is in order, and if it is sound it holds every
acknowledged record; beside an archive the raw file is the same or gone; if both are absent,
nothing was acknowledged), and `RunInv` (what a run may rely on at each of its steps).
`AuditIsHonest` asks for places in the content; `PlacesInOrder` builds them from the order of
the records.

### Observations

For every plan and feed. Assumptions: `PlanAssumption` (levels are positive, at least two ticks
and a second confirm), `FeedAssumption` (whole seconds; nothing is received before it is sent),
`SamplesAssumption` (levels have whole prices and volumes, of either sign and any number) and
`DepthAssumption`.

`EventsAreConfirmed` speaks of the run of conclusive ticks behind an event, a history variable;
the machine keeps a time and a count. `SupportInv` and `BreakoutInv` say that these are the
time and the count of an end of that run, `RunInv` that the run is in order, close enough in
time, and breaks with the health of the data.

`AcceptedIsBook` is about one payload (`AnyBook`). When no level is behind a hole, the quotes
that are selected are the first levels (`QuotesFirst`, `QuotedIs`); neighbours in order are all
in order (`SortedAll`); a sum of volumes is a number (`TallyNat`), hence the imbalance a share
(`ShareOf`). The check compares neighbours, the property all pairs.

### Research

For any number of researchers, configurations, versions and days. Assumptions:
`CalendarAssumption` (the calendar is not empty), `QualitiesAssumption` (a measured quality
is a whole number), `WindowsAssumption` (a build's window lies in the calendar) and
`OpenAssumption` (the mark of a ranking that is still in force is no day). The inductive invariant adds to the types: `PolicyInv` (rows that were not
ranked are only in versions named diagnostic), `LedgerInv` (a run that has gone past the record
is in the ledger, and so is every configuration somebody has a result of) and `VerdictInv` (a
verdict other than INVALID was judged by the thresholds that are still registered: a key that
is set is never set again).

`PointInTime` needs no invariant of the store. What a build sees up to a day is the same
however much later it ends: the sessions, hence the rebalance days, hence the trailing window
of each and the amounts in it, hence the ranking (`SameSessions` to `SameRanking`). A ranking
is in force until the next rebalance day of its build (`InForceIs`), and a later build adds
none before the day in question (`BuildsAgree`).

### Approvals

For any number of terminals, strategies, approvals and days. Assumptions: `IdsAssumption` (an
approval is for one strategy and has two dates), `FilesAssumption` (finitely many terminals;
an empty or torn file is not a map) and `WarningAssumption` (a warning period of at least two
sessions; with one the last theorem is false). The inductive invariant: `TargetInv` (what a
command is about), `StoredInv` (nothing that is in a file or is about to be written names an
approval that was not stored: the temporary name is shared, so it is not enough to look at the
map), `SerialInv` (while commands do not overlap, the map is what was told, the temporary
file is not the map, and the command at work is about to write what it read with one entry
changed) and `ReportInv` (the report was right on its day). A cardinality argument shows that
an open always finds a free inode.

### Only model-checked

* Liveness: `EventuallyExecuted`, `EventuallyCompleted`, `QueuedIsSettled`. The prover does not
  reason about fairness and ENABLED.
* `FactsExplainBooks`. `RebuildAgrees` says that two computations end with the same lots: the
  transactions, each on the lots as they were, and the replay of them all. `PortfolioInv` gives
  sums and numbers of both, not the lots themselves; that needs the replay of a prefix as a
  part of the invariant, with every price adjustment at its place on the time line.
  `PnlExplainsCash` bounds the errors of roundings that no invariant keeps.
* `Backtest`: `NoLookAhead` is about two behaviours of the same rules, the other properties are
  about maxima and sums over a whole run.

## Where the code and its documents disagree

`lost_fill` is a run that TLC refutes, in `PROJECT.json` under `findings`: a rebuild
selects the facts in autocommit mode, before its first DELETE opens the transaction, then
deletes every fill of the account and writes back those it had read. A fill that commits
in between is gone, and `reconcile` passes. The plan document says that a rebuild must
not touch the fills.

Others follow from the models without a run of their own:

* Netting, new positions per day and T+1 are rules of one plan, not of the day
  (docs/planning/multi_strategy_plan.md:246-247). After a crash behind a SELL, or with
  execute-pending, the day is planned again: the SELL is booked, its bucket empty, the symbol
  may be bought, and the proceeds are cash of the second plan. When the exit's own strategy
  buys the symbol, or the operator does, a third run plans the exit of the new shares, counts
  their place as free, and then skips the order, since its key is booked
  (`execution/engine.py:235-240`): the shares stay, and an entry can take the account beyond
  its limit of open symbols. `OpenLimitHolds` and `ExitsDoneAtCompletion` say what holds then.
* The daily limit is checked at the planned price only (docs/system-overview.md:120): an
  opening gap takes the fills beyond it. `DailyLimitsHold` is about flat prices.
* A saved entry bundle is that of the first account, with its universe
  (`runners/simulation.py:768-770`): a later account's own picks are dropped.
* A day that waits at Stage 2 is not resolved by running it again (daily_runbook.md:25): the
  sync is marked, and a rerun does not fetch the missing bar. With
  `Unblocked` asking for every bar at the source and none in the database, TLC refutes
  `EventuallyCompleted` in its run: the rerun of day 2 waits for `w` again and again.
* The exception handler writes the row as it was read before the stage
  (`runners/simulation.py:385`) and may take a completed mark back (daily_runbook.md:24).
* Exits can be judged on a stale bar for a position outside the account's universe
  (`runners/simulation.py:287-302`).
* docs/reviews/shioaji-pr1-pr2-p0-p1-review-20261012.md:29 says that each new disconnect
  epoch increments `gap_count`. After a renewal that was given up `resubscribe_required`
  stays set, and the next disconnect increments nothing (`intraday_connection.py:58`).
  `RenewalOpensSession` is what holds of sessions.
* docs/operations/shioaji-intraday-reliability.md:17 says that offline compression refuses to
  run while a collector is active. `intraday-compress` takes the lock of the file and not the
  lease; `RawJournal` has both commands.
* `tests/unit/test_corporate_actions.py:258` says that a rebuild after a corporate action
  changes neither the cash nor the adjusted prices. `RebuildAgrees` says when: facts in the
  order of their time. It does not hold for backdated fills (a backdated SELL can even make
  every rebuild fail), for a lot bought on or after the ex-date of an action that is applied
  late, or for two actions of one ex-date.

## What the models show that no document settles

The properties hold under the conditions they state; these are the conditions.

* Daily run. A reset takes no lock: it deletes the row and the bundles of all accounts under
  a run at work (`cli/simulation.py:115`), and is refused only by fills of its own day
  (`:137`). A day that waits is overtaken by the next (`runners/simulation.py:169`).
* Operator. `trade close-all` sums the lots of all accounts and sells from `simulation-main`
  (`cli/trade.py:449-480`). adjust-cash re-dates the deposit, so that the daily P&L of stored
  snapshots is off (`equity_snapshots.py:101`). `reject_signal` updates by a `signal_id` that
  private exit bundles of two accounts share (`trade_write.py:174`). The display of positions
  takes `MAX(is_long_term)` and shows a mixed bucket as unmonitored (`dashboard.py:69-90`).
  Whether an action was applied is read before the transaction opens
  (`projection.py:617`). An action applied before its ex-date makes snapshot and overview
  differ until then.
* Approvals. Activation validates nothing. With a legacy pointer the first activation silently
  drops the legacy-approved strategy, and deactivate says "nothing active" while the
  fallback still loads it (`store.py:41-51`, `:78-79`). Overlapping commands can lose one of
  them, or tear the shared temporary file; then only `ActiveIsStored` holds. A crash while an
  active manifest is stored again makes its load raise.
* Research. The docstring at `verdict.py:43` says that thresholds must be registered before any
  result was seen. The code leaves that to the researcher: it keeps them from being changed and
  does not look for results. A universe
  rebuilt over a longer window leaves the former last ranking open
  (`liquidity_universe.py:23`, `:98-105`), so that a day can have more than top N members; a
  policy that is not rebuilt keeps its last ranking for ever.
* Backtest. The ranking score is not persisted, so entries compete in the order of their
  symbols (docs/strategies/breakout_shadow_filter.md:80 says so). INSUFFICIENT_CASH_AT_FILL is not in the log of unfilled orders; an exit is never
  refused for cash, so `ExitsAreAccountedFor` holds. The fingerprint covers the bars from
  start to end and not the price basis.
* Observations. An out-of-order tick is inconclusive but moves `last_tick_time` back.

## Not modelled

* `mtf_resonance`, Sharpe and its relatives, bootstrap, deflated ratios, benchmarks and
  concentration: arithmetic over long series with no state that two steps could disturb.
  The gate compares them as data (`quality` in `Research`).
* Sector flow, reports, web pages, MCP and alerts: one sequential pass from tables to text.
  The web trade form calls the trade write service, which is modelled.
* Payloads of the providers, adjusted bars and weekly aggregation: I/O and arithmetic. That a
  bar is late, missing, empty or not complete is modelled.
* Tick normalisation, minute bars, price adjustment of watermarks, audit rows,
  `execution_events`.
* `lockbox.py`, `canonical_merge.py` and `plan_order`: no caller in `src/`.
* A machine that loses what it had not synced: a process dies in the models, and what it
  wrote is there.
