# A verification development for QuanTable

TLA+ models of QuanTable's backend: the durable jobs that run backtests, the
data they run on, the mock broker and the ledger that account for them, the
analyses and the approval of what they decide, the agent loop, the monitors,
the alerts, the reports, the generations and the registry of strategies. TLC
checks the models on small instances; TLAPS proves the main safety
properties for every value of the constants. `PROJECT.json` lists the
components, the runs, the mutants that break each property, the source lines
behind each definition, the hazards and the theorems.

    tlc -config MCBacktestJobs.cfg MCBacktestJobs      # a run
    tlapm BrokerProofs.tla                             # a proof

## 1. The system

QuanTable is a FastAPI process (`server/main.py`) over SQLite files
(`storage/store.py`: one connection per database and thread, WAL mode). Work
runs in three places: coroutines of the event loop (the route handlers),
threads (executors of jobs, the graph of an analysis, tool threads of the
agent, APScheduler jobs), and start-up code that repairs what the last process
left behind. Handlers do not hold a transaction over an `await`, and nothing
locks the data directory against a second process.

| component | state | operations | interacts with | hard behaviour | what makes it correct |
|---|---|---|---|---|---|
| Backtest jobs (`agent/backtest_jobs.py`, `storage/store.py`) | job rows, decisions, input snapshots; a queue and threads | create, replay, run, bind, record, complete, fail, recover, poll, export | store, backtest runner, routes | crash at any statement, a second server's recovery, store faults, polls in several reads | a row settles once; a completed result is what is stored; a replay sees its source's data; accepted jobs settle |
| Backtest data (`broker/backtest_data.py`, `dataflow/history.py`) | frames and their modes | preload, read, validate, freeze | market data store | six reads beside other writers; two writers of one row | no look-ahead; a warm-up that is enough; a run alone is accepted |
| Backtest policy (`agent/backtest_policy*.py`) | a frozen specification | freeze, decide, ask, repair | strategies, runner | the strategy changes meanwhile | a run goes by what it froze |
| Mock broker (`broker/engine.py`, `risk_checks.py`) | orders, positions, cash, fills, event log, latest bars | place, cancel, on_bar, reset | runner, execution node, ledger | orders waiting for the same cash or shares, rejection in mid-sweep, retried placements | no overdraft, no forbidden short, one settlement per order |
| Typed backtest run (`broker/backtest_runner.py`) | pending intent, the frame's position | decide, size, place, sweep, report | broker, jobs (as observer) | two formulas for the same money, look-ahead, the last bar | sized orders fill, on the next bar only, to the nearest share |
| Trade ledger and views (`broker/ledger.py`, `views.py`) | fills, snapshots | record, reconstruct, metrics, views | runner | partial episodes, drawdowns, missing benchmark bars | the figures say what the fills did |
| Agent loop (`agent/loop.py`, `recovery.py`, `compression.py`) | message list, recovery counters, tool memory | call the model, recover, compress, dispatch, answer | tool executor, permissions | recovery that does not retry, cuts between call and result | it ends; allowed calls have results |
| Tool execution (`agent/tools/`) | tracked tools, results, a pool | submit while streaming, collect, run writes | agent loop | reads that start early, writes that were filtered out | writes run last |
| Analysis graph (`quick_ask/orchestrator.py`) | agent state, debate counters | analyse, debate, conclude | analysis runs | ends by counters | the decision rests on all reports |
| Analysis runs (`server/analysis_runs.py`, `routes/analyze.py`) | snapshot files, subscriber queues, deletion markers | start, progress, complete, fail, delete, subscribe | worker thread, SSE clients | joining late, timeout with a live worker, failing writes, deletion during a run | each listener gets the one outcome; deleted stays deleted |
| Approvals (`hitl/`, `routes/approvals.py`) | approval rows | rules, approve, reject, modify | execution | rows that cannot be stored, two reviewers | what needs review is not traded without it |
| Execution node (`quick_ask/execution_node.py`) | its report, orders of a session | check, size, place | broker, approvals | early returns | what was decided last is traded |
| Monitors (`routes/monitor.py`, `scheduler/`, `monitor_engine.py`) | run_status, current_run_id, last_run_at, a set of running tasks | manual, cron and polled runs, update, delete | scheduler threads, store | check-then-start in three entry points, crash | requests exclude each other; the status ends |
| Watchlist alerts (`routes/watchlist.py`) | alert rows | create, check, notify | notification channels | an await between read and mark, one commit at the end | an alert notifies once |
| Reports (`reporting/`) | report rows, PDF files | submit, render, complete, recover, download | store | crash between file and row | a completed row has its file |
| Insights (`routes/insights.py`, `morning_brief.py`) | generation rows, briefs | generate, complete, recover, delete | store | repeated requests, crash | one generation per id |
| Scanner (`routes/scanner.py`) | scan rows | start, complete, fail | store | crash | - |
| Strategies (`routes/strategies.py`) | strategy rows | create, update, clone, start, pause, stop, delete | jobs | partial updates | a stored quant strategy can be run |
| Market data (`dataflow/`, `scheduler/`) | price rows, cache files | fetch, fall back, refresh | providers, collector | several writers with different modes | the mode of a row is that of its data |
| Memory, risk analytics, settings, notification, MCP, knowledge, chat sessions | tables and files | mostly pure or I/O | routes | few | - |

The frontend, the documentation, the plans and the tests are not modelled; they
were read for what they say of the components.

## 2. Modules

| module | what it is |
|---|---|
| `JobLifecycle` | abstract: a register of jobs that settle once |
| `BacktestJobs` | handlers, threads, store statements, crashes, recovery, polls, exports; implements `JobLifecycle` |
| `BacktestJobsProofs` | the two invariants of `JobLifecycle`; of `BacktestJobs` type correctness, the inductive invariant `JobInv`, six theorems, the refinement |
| `ServerJobs`, `ServerJobsProofs` | reports, generations and scans; its two job tables implement `JobLifecycle`; four theorems |
| `MarketData` | the store of daily bars, its writers, the provider |
| `BacktestPolicy` | operators: what a frozen rule needs and decides |
| `BacktestInputs`, `BacktestInputsProofs` | loading and reading the bars of a run, and its decisions; EXTENDS the two above; four theorems |
| `Strategies`, `StrategiesProofs` | the registry of strategies and the freezing of one; two theorems |
| `Broker` | the mock broker for one account |
| `TargetRun` | the typed bar loop, composed with `Broker` (it EXTENDS it and calls its actions) |
| `RunReport` | ledger, metrics, benchmark, evidence and views of such a run; EXTENDS `TargetRun` |
| `BrokerProofs` | type correctness and the theorems of `Broker`, of `TargetRun`, and of `RunReport`, which implements `TargetRun` |
| `AnalysisGraph` | which of the twelve agents runs next |
| `Approvals` | the rules, the approval row, the reviewers, the execution node |
| `AnalysisRuns`, `AnalysisRunsProofs` | one analysis with task, thread and listeners, composed of the two above; five theorems |
| `AgentLoop`, `AgentLoopProofs` | one run of the ReAct loop with its tool executor; three theorems |
| `MonitorRuns` | the requested, cron and polled runs of one monitor |
| `WatchlistAlerts` | checks of alerts that await their notifications |
| `MonitoringProofs` | of `MonitorRuns` type correctness and four theorems, of `WatchlistAlerts` three |
| `MC...` | constants and symmetry sets for TLC |

An operator whose comment begins with "Mutant" belongs to no specification: it is the
form of a definition that a plausible bug would give it.

### BacktestJobs

One action is one SQLite transaction or one step between two of them. `pc[j]`
is where the handler or thread that holds job `j` stands: a handler inserts the
row (`Create`, `CreateReplay`) and then submits it (`Submit`); a thread takes it
(`Start`: `mark_backtest_job_running`, which a recovered row refuses), rebinds a
replay, fetches data, binds the input snapshot (payload and hash in one
transaction), walks the decision dates (`RecordExecution`, `Decide`,
`DecisionError`, `RecordFailure`, `NeverReady`, `FinishBars`), reads everything
back (`Collect`) and completes. `FailWith` is the worker's mapping of
exceptions to error codes. `Crash` loses everything in memory; `Startup` runs
`recover_interrupted_backtest_jobs` and `OtherStartup` is the same statement run
by a second server. `StoreRaises` lets any statement raise; where the code
has no handler left, the job is `"lost"` until the next start. A poll is two
steps, `ReadRow` and `Respond`; an export checks the same agreement of row,
snapshot and decisions and is part of the answer.

The result of a run is modelled by what its verification compares: the input
hash and the decisions. `WriteOnce` is the refinement: the status column and
the pair of result and error implement `JobLifecycle`, which shows that the
`WHERE status IN (...)` guards are what protects a settled row.

### MarketData, BacktestPolicy, BacktestInputs

A row of the store is a session, the revision of the provider's adjusted prices
it was fetched at, and the mode its writer names. `df_get_prices` stores what it
fetched under the default mode (`StoreRaw`) and the loader stores the same rows
again as adjusted (`StoreAdjusted`); the collector does only the first
(`RefreshFetch`, `RefreshStore`). A run loads its ticker and its benchmark, with
retries, then reads window, history and modes of each in six statements
(`ReadNext`), is `Refused` when they do not fit together, and decides session by
session from the closes up to it (`DatedCloses` of the rows `InOrder`, `PolicyTarget`). `calm[j]` remembers
that nobody else wrote a ticker of `j` since its load began. Columns other than
the close, and the checks on their numbers, are left out.

Averages and thresholds are compared without their divisions.

### Strategies

One action per route. `Merged` is what an update stores; only what it makes is
validated (`Storable`), and `PUT` may set any status. `Request` freezes a
strategy (`Frozen`) when it is `Eligible`. A job then decides by its rule
(`Decide`) or asks a model, with one repair of an answer and a bound on the
attempts (`Ask`).

### Broker

`place_order`, `cancel_order` and `reset_account` are one action each, with the
replayed client order id a stutter. `on_bar` is a sweep: `OnBarBegin` marks the
account, `OnBarOrder` visits one order, `OnBarEnd` marks it at the close
(`sweep` holds the bars and the index). Each visit sees the cash and shares the
previous one left, which is where the waiting orders compete. The sweep is
atomic in the code, so no other operation happens inside it; it is split to
keep one order per step.

Money is exact: prices are integers, rates are integers over `Scale`, fill prices
integers over `Scale`, cash over `Scale * Scale`, and every comparison of the code
is multiplied out. The code computes in floats; what rounding does at exact
equality is outside the model. Average cost, identity columns, timestamps and
callbacks have no effect on what is decided here and are left out. A ticker
has a mark from its first bar on; a market order without one is rejected, as
in the code.

### TargetRun and RunReport

`OpenBar` reads a row, sizes the pending intent (`_place_pending_target_order`,
formula by formula, in the same exact arithmetic) and places it; `Sweep` is
the broker's `on_bar` on that row; `CloseBar` takes a decision or not. Only the
last bar is known never to be a decision date (`_decision_dates`), so the others may be or not.
It uses `Broker` with `next_open` and without short selling, on one ticker.
`RunAssumption` states what the code's configuration implies: the cap is at
most the equity, and a sale brings more than it costs.

`RunReport` adds what the run records (`recorded`, `unfilled`, `snapshots`) and,
as operators over them, what is computed from it: `LedgerAfter[n]` replays the
first `n` fills as `_reconstruct_long_only_episodes` does, with average costs as
fractions; `Metrics`, `MaxDrawdown`, `Benchmark`, `Evidence`, `Reasons` and
`ResultView` follow the functions of those names. The benchmark model assumes
that the cash buys at least one share of the benchmark. The ledger is
long-only, as these runs are.

### AgentLoop

`Iterate` compresses and starts a response; `Submit` and `StreamEnds` are the
stream, during which read-only tools run in threads (`Finish`) and writing tools
are queued. `Recover` walks the ladder of the error type, `Dispatch` drops
repeated calls and asks the permission check, `RunWrite` runs what is queued,
one after the other, and `Collect` appends the results in order. A call is its
tool and primary argument, and a compression may cut at any place the code's
search for a tail can return.

### AnalysisGraph, Approvals, AnalysisRuns

The graph runs in a thread (`Work`) and only fills a queue. The task of the
event loop (`Await`, `Timeout`, `Record`, `WorkerRaised`, `Finish`, `Stumble`,
`Fail`, `Notified`) empties it, writes the snapshot file and publishes to the
clients; `Raises` lets writes of the snapshot fail where the code has an except
clause for it and where it has none. `Join` is a subscription while the run is
open, while it closes, or too late. `Delete` writes the marker that later
writes look at.

`Finish` proposes the decision: `Propose` applies the rules, clamps the target
and stores the approval row, which may fail. `Decide` is a reviewer's request and
`Execute` the execution node. The model runs the node once per decision, and again
while it answers that it waits (`ExecuteLater`). What the broker does with its order
is a free choice here and the subject of `Broker`. A price of 1 and an equity of
100 make one per cent one share.

### ServerJobs

Reports and generations go through a pool each (`Enqueue`, `Take`, `Render`,
`Place`, `CompleteReport`; `MorningBrief`, `CompleteGeneration`), with a database
error at any write (`GiveUp`). The PDF is placed by a rename before the row is
completed. `Start` recovers the tables one by one and `OtherStart` is a
second server. A scan runs in its request. `Sources` is what
`ReportSourceResolver` finds among the stored analyses, which may be deleted at any time.

### MonitorRuns

A run is triggered in three ways and `pc[r]` follows each through its code. A
request (`run_monitor`) and a cron thread (`_run_scheduled`) read the row
(`Read`), look at `run_status` and `_running_tasks` (`Check`), write the row
(`Start`: `start_monitor_run`, which has no guard on the status) and add the
monitor to the set (`Add`). A polled run (`MonitorRunner`) touches
`last_run_at` in its thread and does none of this. All of them go through
`monitor_engine.execute` (`Begin` to `TouchAfter`), where any part may raise;
a requested or cron run then settles the row with `WHERE current_run_id = ?`
(`Finish`, `Fail`) and leaves the set (`Discard`).

`loop` says which handler holds the event loop between two of its steps: a
handler without an `await` keeps it, so requests do not interleave with each
other, but threads interleave with both. An update is a read and a write
(`EditRead`, `EditWrite`), since threads run in between; `edit` is what it
writes back. `Crash` ends the threads, the set and the scheduler and keeps the
row; `Startup` is `register_all_jobs`.

Assumed: monitors do not share rows, so one is modelled; it has keywords or
tickers (otherwise a request is answered with 400 before anything changes); the
threads of one poll touch their rows within the five minutes to the next, and
a period is longer than that (`AllTouched`). `clock` counts periods: a row is due when its
`last_run_at` belongs to an earlier period. Statements that raise are modelled
where they leave something behind, at the end of a run.

### WatchlistAlerts

All handlers are coroutines of one loop and use the loop thread's SQLite
connection. `row` is what that connection sees and `disk` what is committed:
a handler's commit writes what another one left pending, and every handler
starts with an `executescript`, which commits. `check_alerts` is cut at its
awaits: `BeginCheck` reads the untriggered alerts and goes to the first
notification, `Resume` marks that alert and goes to the next one, raises on a
market value, or ends with the commit. `todo` is the rest of its list, in the
order of `created_at`. Whether a value matches is nondeterministic, and a channel's
answer changes nothing. The code does not keep a check from beginning while another one
awaits; `overlapped` remembers that it happened, and `NotifiedOncePerLife`
speaks of the time before.

## 3. Runs

| run | instance | what it shows |
|---|---|---|
| `backtest_jobs` | 2 jobs, 2 threads, 2 snapshots, 1 decision date, 1 crash, 1 second server | completed rows verify, answers of polls stand, replays keep their source's snapshot, refinement of `JobLifecycle` |
| `backtest_live` | 2 jobs, 1 thread, 2 decision dates, 1 crash, 1 store fault | decisions rest on a stored snapshot; every accepted job settles unless a statement outside every handler raised |
| `inputs` | 2 jobs on ticker T with benchmark B, 6 sessions of which 3 are evaluated, shortest momentum, crossover and agent rules, one revision, one refresh by the collector | decisions depend on the past only; the bars loaded are enough for the first; a run nobody disturbs is accepted and runs on its snapshot |
| `strategies` | 2 ids, 3 configurations, 7 updates, 5 requests, 2 jobs, 3 attempts, 2 decisions | a stored quant strategy can be run, and a run goes by what it froze |
| `broker_close` | 1 ticker, prices 1-2, limits 0-2, quantities 1-2, 3 orders, 2 bars, `close_bar`, no short, cap 80 % | no overdraft, no short, settled orders stay, the cap holds after a market fill |
| `run_report` | prices 1-3, targets 0, 30, 50, 90, 100 %, cap 90 %, 4 bars | the runner's sizing fits the broker's checks; each decision executes on the next bar; ledger, closed trades and figures agree with the fills; every decision is accounted for |
| `agent_loop` | 3 iterations, 3 calls of a reading, a writing and an unknown tool | calls and results stay paired, writes run last, the run ends |
| `analysis` | the three modes, targets -30, 0, 25, 40 %, positions 0 and 40 %, 2 clients, 1 reviewer, 2 failing writes, 1 tool round | the decision rests on all reports; listeners are told the one outcome and their streams end; no unreviewed trade, and trades as decided |
| `server_jobs` | 2 reports on 1 thread, 1 generation, 1 scan, 1 analysis, 1 crash, 1 second server, 2 database errors | completed reports can be downloaded, one generation per id, two refinements of `JobLifecycle`, jobs settle |
| `monitors` | 2 requests, 1 cron run, 2 polled runs, 2 periods, 1 crash, 1 fault, 1 update | until a cron run, requests exclude each other; until an update, polled runs begin once per period; only its run releases a row |
| `watchlist_alerts` | 3 alerts, 3 checks, 1 crash | what is sent is marked; without overlap one notification per life of the process |
| `monitor_restart` | 1 request, 1 crash | expected to fail, see below |

`monitor_restart` shows where the code does not do what it says. `run_monitor`
answers "Task is already running. Please wait." (`routes/monitor.py:158`) while
`run_status` is running; after a crash during a run nothing resets it, and every
later run is refused.

Every property is violated under a mutant listed in `PROJECT.json`: a change of
one definition that a plausible bug would make.

### Why the bounds are enough

Jobs interact only through the executor and the
recovery statement, so two jobs and one crash meet every pair of operations; a
second crash after recovery finds only states the first already produced. Two
decision dates are enough for a gap and for a record after a failure.
Two rejected or filled orders suffice for a conflict over cash or
shares and a third for one that comes after; limit 0 is the invalid limit the
order model lets through. Four bars are three decisions: a purchase, a change
in either direction, and one after it, which makes scale-ins, partial
reductions and a second round trip. The rates are 10 %, so that costs
matter at single shares, and the targets lie below, at and above the cap.
Three sessions before the window are exactly what the longest of the shortest rules needs
(slow average 3), and a listing may begin at the third, so both sides of the warm-up happen.
The targets of an analysis lie below, between and above the two thresholds of the rules,
and one is short. Two failing writes are one at the outcome and one in the except clause that
answers it. Three calls in one response are a read, a write and one more, or the same
one again; three iterations let a recovery follow a response with tools.
Three triggers of a monitor are a run, one that
supersedes it and one that supersedes that; further ones meet the row in a state the
first three already produced. Three alerts are one notified, one being
notified and one left when a check raises or the process dies.

Bounds that are parameters of the code get smaller values (`KeepLast`,
`MaxIterations`, `MaxStale`, `MaxLoads`); all others (`MaxCrashes`, `MaxAlertCrashes`,
`MaxFaults`, `MaxIntruders`, `MaxCalls`, `MaxEdits`, `MaxRefreshes`, `MaxClock`, ...) count
events of the environment. `CHECK_DEADLOCK FALSE` stands where a run, an analysis, or
everything the bounds allow really comes to an end.

### Fairness

- `BacktestJobs`: weak fairness of each thread's next step and of a handler's
  submit, of the process exit once it drains, of the start of a server that is
  down, and of the second half of a poll. Threads of a pool run until their task
  ends and an operator restarts a server; nothing makes a request, a fault, a
  crash or a shutdown happen. `OpenJobsSettle` needs no more.
- `ServerJobs`: weak fairness of each thread's next step and of the start. Rendering and the
  calls of the pipeline return or raise.
- `AnalysisRuns`: weak fairness of the task only. The event loop runs it whenever it
  is ready, and `queue.get` has a timeout; the thread may hang for ever.
  `StreamsEnd` says that the clients do not.
- `AgentLoop`: weak fairness of the loop's own step, of the end of a stream and of each read
  tool. The model's client has a timeout and raises; the tools return or raise.
- `MonitorRuns`: strong fairness of each run's steps after its trigger, weak
  fairness of an update's second half and of the restart. The steps of a
  request need the event loop, which others take again and again; asyncio serves
  ready callbacks in order, so each gets it. Only `monitor_restart` uses it, so that its
  counterexample is not a run that simply stops.

## 4. Proofs

TLAPS proves, for all constants that satisfy the named assumptions of the modules
(TLC evaluates each of them in a run):

- `JobLifecycle`: `SettledJobsHaveOutcomes` (a job has an outcome exactly when it has
  settled), `JobsSettleOnce` (a settled job keeps both).
- `BacktestJobs`: `TypeCorrect`; `CompletedRowsVerify`, `EvidenceIsGrounded`,
  `ReplaysAreFaithful`, `BindingIsForever`, `AnswersAreFinal` and `RowsAreWriteOnce`,
  the refinement of `JobLifecycle`.
- `Broker`, any tickers, prices, rates and timing: `BrokerTypeCorrect`,
  `CashStaysNonNegative`, `NoPositionIsShort`, `SettledOrdersStay`, `RetriesPlaceOnce`,
  `FillsRespectTheCap`.
- `TargetRun`, any bars, targets and rates: `RunInvariant`, `SizedOrdersAlwaysFill`,
  `OrdersLiveOneBar`, `TargetsAreReached`.
- `RunReport`: `ReportingIsPassive` (it implements `TargetRun`, so that the four above hold
  of it), `ReportInvariant`, `DecisionsAreAccountedFor`, `LedgerInvariant`,
  `LedgerAlwaysReconciles`, `ClosedTradesAreAlwaysRoundTrips`, `FiguresAreAlwaysRight`.
- `BacktestInputs`, any market and rule: `InputsInvariant`, `DecisionsUseThePast`,
  `WarmupIsEnough`, `UndisturbedRunsAreAccepted`.
- `ServerJobs`: `ServerTypeCorrect`, `CompletedReportsDownload`, `GenerationsRunOnce`,
  `BothTablesKeepTheirLifecycle` (each table implements `JobLifecycle`).
- `AgentLoop`, any tools and any compression: `LoopInvariant`, `CallsAreAnswered`,
  `WritesFollowReads`.
- `MonitorRuns`: `TypeCorrect`, `RunningRowsHaveARun`, `OnlyItsRunReleases`;
  `RequestsExclude` until a cron run is triggered, `PolledOncePerPeriod` until
  the monitor is updated.
- `WatchlistAlerts`: `SentGetsMarked`, `OneNotificationPerLife`, `CommittedMarksHold`.
- `AnalysisRuns`: `LongsStayReviewed`, `TradesFollowTheDecision`, `OutcomesStand`,
  `ListenersAreTold`, `DecisionsRestOnAllReports` (of the decision that is acted on, too).
- `Strategies`: `StoredQuantRuns`, `FrozenRulesRun`.

The two hypotheses on `MonitorRuns` are necessary. An update that overlaps the touch of a
polled run writes the old `last_run_at` back (`store.py:817`), and the next poll runs the
monitor a second time in the period, against "Touch last_run first to avoid duplicate
execution" (`scheduler/__init__.py:453`). A cron run that ends while a request executes
removes the monitor from the set and lets a second request in.

*The jobs.* `CompletedIsVerifiable` is not inductive: nothing in it
says that a thread about to complete holds what is stored. `JobInv` adds, per
job, that evidence is grounded (a hash names a stored snapshot and decisions
need a hash), that whoever holds a job holds one whose row is not completed, that a
thread at `"complete"` holds a result equal to what is stored, that an open
row has no result or error, and that a replay's hash is its origin's. A lemma
per primitive says what it does to one job; `Frame` lemmas carry the invariant
over to the others; one lemma per group of actions restores it; the theorems
and the refinement follow from it.

*The broker.* `MoneyMovesInFills` shows that cash and shares change
only in a reset or in a fill whose order passed the checks in the state it executes
in, at a price that is not negative. A purchase was then affordable at
exactly the sum the fill takes (`Value` and `Fee` are the same operators), and a
sale brings at least its fee because the rates are at most one
(`SaleCoversItsFee`, the one non-linear fact). `BookSteps` shows that a step
keeps the order book except for one NEW order that settles or one fresh order;
settlement and retries follow. *The cap* compares a sum over all tickers before and after
the fill: `EquitySums` says that `Equity` obeys a recursion over the sets of tickers,
`SumsDiffer` says that two such sums whose terms agree but for one differ by that term, and
`EquityIsProjected` that what the check projected, costs subtracted, is the equity after the fill.
`SweepMarks` is the invariant it needs: a sweep executes at the price the account is marked at.

*The run.* `Sizing` says what the runner's quotient promises: the shares it wants are within the
target of the equity left after the costs, a purchase can be paid, and one share
more would break either. `OrderMoney` says what the broker computes for the same order, and `SizedPasses` puts
the two together; `FillReachesTarget` says where the fill leaves the position. `RunInv` brings the
order to the fill as it was sized: an intent is of the bar before (`IntentIsFresh`), only the last
order is ever open and it is for the shares wanted at today's open from the shares held now
(`OneOpenOrder`, `PlacementIs`), a sweep runs at that open (`SweepIs`), and a placement that is no
longer open is at its target (`TargetIs`).

*The report.* `ReportInv`: there is a fill for every order but an open one, a bar signals and is
decided at most once, the dated decisions are exactly those that left an order or an unfilled
intent, and as long as there is no order, the decisions to hold are those that left nothing; for the
one still pending that is known from its target. `DecisionsAccountedFor` reads the result off it.

*The figures and the ledger.* `LedgerInv` adds that there is a snapshot for every bar that is over,
that fill `n` is of order `n`, the signals in the order of their bars, and that the fills add up to
the position and the cash of the account. The rest is about what the report computes in such a state.
A fraction is kept in lowest terms, so the laws of sums, differences and shares (`FracPlus`,
`MinusTwice`, `PartsOfWhole`, ...) are equalities of records; they rest on Euclid's algorithm
(`GcdIs`, `GcdScales`). `Books` are what an accountant would keep of the same fills in integers:
running totals of the shares, the cash and the fees, and the rounds, that is how often the position was flat and
since when it is not. `LedgerIs` says that after every fill the ledger agrees with
them: what it realized above the cost of what it holds is the cash, in all and since
the position was last flat. A purchase and a sale each keep that (`BoughtEpisode`, `SoldEpisode`), a
partial sale because the parts of a cost add up to it (`SoldAbove`). `LedgerReconciles` and
`ClosedTradesAreRoundTrips` compare the ledger at the last fill with the books. `FiguresAreRight`
compares the folds over the days with the falls and stretches they are defined by.

The code computes in floating point, the model in exact fractions: what is proved is that the formulas agree.

*The inputs.* `InputsInv`, per job: the bars executed on are among those decided on (`Snapshot`), and
every decision is what the rule makes of the closes up to its session and of the target
decided before it (`DecidedInOrder`). Two jobs with the same past are compared at the first
session their decisions differ at. `WarmupIsEnough` counts: the bars of the warm-up map one to one to
dates before the session, so that the rule is given more closes than they are. A load that nobody disturbs (`CalmLoad`) finds every row in the mode it
asked for, so nothing refuses it. What recursive functions compute is proved through the
least counterexample (`NatLessThanWellFounded`, `WFMin`).

*Reports, generations and scans.* `StepsOfRows`: a step of the system is a step of the two tables,
one row or one recovery; the refinement and the agreement of status and outcome follow.
`FileOK` says that the PDF is there before the row is completed and that no worker touches a
completed report; `BriefOK` that a pipeline runs only as its row leaves pending, which it never
enters again.

*The analysis.* `GraphOrder` says of each node of the sequential graph who has reported and how often
both teams have spoken. `DecisionOrder` carries the end of the graph to the decision: a "done" in the
queue or a known decision means that the graph has ended, which then takes no further step
(`GraphSteps`), so nothing that is reviewed or executed rests on a graph still under way.

*The loop.* `Conversation`: every result follows its call, no call follows its result, and a call is
denied, awaited or answered later. Compression keeps it because it only
cuts where no call is separated from its result (the lemmas on `Kept`). `AwaitedWereCalled` says
that what is waited for was called by a complete response. `WritesFollowReads` adds that a
read never queues as a write (`ReadsStartAtOnce`).

Induction over data is done on sets: `UpTo` says that a set with 0 that has `n` with `n - 1` has
all numbers up to N, `OverSubsets` the same of the subsets of a finite set, and a recursive function obeys its
equation once some function does (`ChainExists`, `FoldExists`).

Left to TLC: liveness (`OpenJobsSettle`, `JobsSettle`, `StreamsEnd`, `RunEnds`,
`RunningEnds`), since the prover has no ENABLED.

## 5. What the models leave out

### Behaviour worth knowing that no property states

These follow from the code and are visible in the models or beside them.

- Monitors: a cron thread and a request can both pass the check (`monitor.py:157`, `:253`) before
  either starts the run, and execute together. A paused monitor keeps its cron job: an update
  without a cron expression does not touch it (`monitor.py:106-117`), though the button says
  "Pause scheduling" (`frontend/app/monitor/page.tsx:308`).
- Alerts: two overlapping checks notify the same alert (`watchlist.py:418`, `:437`). An alert deleted
  during a check is still notified. `create_alert` with a threshold that is no number raises
  after its ticker's UPDATE, which the next handler commits (`watchlist.py:380-392`).
- Agent loop: `micro_compact` clears the results of all but the last three reads before the model saw
  them, when a response asks for more (`compression.py:81`, `loop.py:901`). Writes that were repeated or denied
  in PLAN mode still run from the executor's queue beside an allowed call (`executor.py:177`), and a
  denied call stays in the history without a result. `_execute_batch` and
  `_is_empty_args_tool` are not called.
- Backtests: when others write between a run's load and its reads, the run may be refused or its
  snapshot differ from the bars executed on (`docs/api-contracts.md:987`). Two calls of `submit_backtest_decision` in one response
  place two orders. A run that ends with an open position and no closed trade is
  labelled `completed_no_trades`; one whose only decisions were unaffordable has no
  `no_trade_reason`, only an unfilled intent.
- Broker: `reset_account` keeps the latest bars; the position cap is skipped when the projected
  equity is not positive. `record_fill` computes a realized profit of its own from the
  broker's average cost, which `load_execution_records` replaces, and looks its last position up
  per session.
- Approvals: the rules compare a target with the position the request names, 0 unless it does.
  The reviewer's `modified_action` does not reach the execution node, so a HOLD that is modified to
  BUY stays "held". `InvalidTransitionError` is not caught by the routes. `HITLExecutor` is not called.
- Analyses and scans: a snapshot or a scan that is running when the process stops stays so; no
  start-up step resets it. A client that joins between the outcome and `close_run` is told
  only the end and reads the outcome from the snapshot.
- Strategies: `PUT` may set any status, whatever the status before.

### Not modelled, and why

- The chat stream (`routes/agent.py`) and its session files: I/O around the agent loop.
- The migrations of the job tables (`store.py:1483-1603`, `2385-2640`): one IMMEDIATE
  transaction in front of every call, so no other step sees their middle.
- Memory, risk analytics, the scanner's scores, ratios of the metrics: floating point numbers over
  data frames, with no concurrency of their own.
- Provider fallback, the news, macro and fundamentals tables, the file cache (`cache.py`, a blob and its
  digest in two files), the financial tools, notification, settings, MCP, knowledge: I/O.
- A debate node whose agent returns no message would not count (`orchestrator.py:160, :192`); its
  agents are chains of a prompt and a model, which return a message or raise.
- `Sources` decides when a report can be requested; no property is about which sources it gets.
- The agent loop's `_stream_index` and the executor's index are one index.
- A statement that raises has no effect. A COMMIT that raises in `complete_report_job` could leave
  its UPDATE open on the connection of the thread.
- In modelled components: progress and agent-settings columns, identity columns,
  timestamps, callbacks, message texts, prompts, the parsing of answers, float rounding.
  Short positions exist in `Broker` but not in `RunReport`. The execution node's branch for a
  modified row without a target is left out, since such a row always has one.
- A monitor's pipeline is "may raise"; a report's rendering and a generation's collection likewise.

Prices and requests come from small sets throughout.
