# PolyTempo in TLA+

PolyTempo collects weather forecasts and Polymarket quotes, calibrates the
forecasts against observed temperatures, turns them into a probability per
temperature bucket, and trades the buckets a strategy likes: on paper (a ledger of
simulated trades) or live (orders on the exchange, from a node with its own
journal). This directory holds TLA+ models of its stateful parts and of the
calculations between them, the TLC runs that check them on small instances, and
proofs about them checked by TLAPS.

## 1. Inventory

| component | code | state it keeps | operations |
|---|---|---|---|
| live journal | `live/ledger.py`, `live/models.py`, `storage/live_postgres.py` | append-only table `live_events` (INTENT, ORDER, RESULT, SETTLE, HALT rows) | record intent, order state, result, settlement, stale intent, halt; queries for exposure, dedupe, retry, PnL, unresolved intents |
| execution client | `live/execution.py` | none (the exchange's orders) | place a limit buy, read, cancel, list orders, positions, balance |
| order loop | `live/orders.py` | locals: the ack, the last state seen | place, journal the ack, poll to a deadline, cancel, read the final status |
| reconciliation | `live/reconcile.py`, `_run_reconcile` | locals: open orders, intents left, the report | close intents without a result, compare positions |
| live node | `live/node.py`, `live/risk.py`, `scripts/run_live_node.py` | locals of one tick; kill switch file, HALT rows | settle open events, find due profiles, analyse, size, risk-check, open; reconcile at start and every few hours |
| live sizing | `live/sizing.py` | none | walk the asks, shares for a stake |
| paper ledger | `paper/ledger.py`, `storage/paper_postgres.py` | append-only event table per wallet | open, add, flatten, settle, close; wallet state by replay |
| paper bot | `paper/bot.py`, `paper/active_controller.py`, `scripts/run_paper_bot.py` | stored instant of the last active sweep; locals of a tick | settle, open at a gate, active exits, sweep of the active wallets, sleep to the next gate |
| gate clock and main loops | `model/lead_time.py`, `paper/market_context.py`, the loops of `run_paper_bot.py` and `run_live_node.py` | locals: the tick's `now`, its result, `wake_at` | lead hours, the instant of a gate, whether a gate is open, the dates to scan, the next wake; tick, sleep |
| collectors | `collectors/`, `scripts/run_collector.py` | in memory the last slot run per collector and kind, the file's content and time; tables `stations`, `collector_state`, snapshots | reload the file, find due slots, run a cycle station by station, sleep to the next slot |
| calibration jobs | `weather/calibration_runner.py`, `calibration_storage.py`, `scripts/bootstrap_calibration_store.py`, `scripts/run_daily_calibration.py` | calibration tables, raw forecast files, last success of each part, the statistics CSV | bootstrap, nightly update, recomputation of the statistics |
| choice of a calibration | `weather/calibration_stats_csv.py`, `profiles/calibration_ready.py` | none (the CSV) | the row a live forecast gets its error from, the mixture of models, which profiles are ready |
| planned and past forecasts | `weather/historical_forecasts.py` | raw files, a JSONL file of records | plan runs and leads, fetch a batch that can be resumed, daily maxima |
| live forecasts | `weather/open_meteo.py`, `wu_live_forecast.py`, `wunderground.py`, `calibration_wu_forecasts.py` | rows of a fetch cycle | fetch with the runs before and after, the Wunderground member, the observed floor, records for the calibration |
| markets | `markets/polymarket.py` | none | pick the event, resolution, winner, live quotes |
| probability model | `markets/buckets.py`, `model/distribution.py`, `visualizer/bucket_math.py` | none | buckets of labels, a distribution over buckets, conditioning on what was observed, the market's cap on the spread |
| strategies and sizing | `analysis.py`, `strategy/`, `paper/sizing.py`, `live/sizing.py` | none | model strategy of a path, decisions, stakes, orders |
| backtest | `storage/snapshot_reads.py`, `paper/backtest.py` | a ledger in memory | rebuild the inputs of a past gate, replay days, daily rows, drawdown |
| profiles and configuration | `profiles/load.py`, `live/config.py` | none (the YAML files) | expand a file into wallets, the profiles and limits of the live node |
| readers of the paper ledger | `scripts/report_performance.py`, `visualizer/trades.py`, `cli/main.py` | none | P/L by day and wallet, the trades behind a cell, what each winner would bring |
| reports, the rest of the visualizer and CLI, deployment | the rest | read-only | |

**How they interact.** The collectors and the calibration jobs write tables that
the analysis reads: the calibration jobs also read the collectors' scrapes, and hand
the analysis their errors in a CSV file. The paper bot and the live node each run one thread that ticks:
they ask the gate clock which profiles are due, analyse the market and open trades.
The paper bot writes the paper ledger; so does the command line (settle, close), in
another process and without a lock. The live node writes an INTENT row, talks to the
exchange, writes ORDER and RESULT rows, and later a SETTLE row; the exchange fills
and cancels on its own, markets resolve, and an operator touches the kill switch.
launchd starts the processes; the live node is not relaunched after it exits
(`deploy/launchd/README.md:48-56`).

**What is hard.** Everything between the INTENT row and the RESULT row: a call that
raises may have had its effect, fills arrive at any time, a process dies between two
transactions, and reconciliation must close what it left without guessing. Limits are
checked on a quote and binding on fills. In the paper system: a sweep that is repeated
because its instant was not stored, two processes settling one trade, gates that open
for minutes while ticks take minutes. In the calibration: windows that begin where the
last success was, jobs that die between a file, the CSV and the commit. In the
calculations: an error of the wrong run, an observation of the future, a hedge that
buys one leg. `PROJECT.json` lists each hazard at its line.

**What makes each part correct.**
- journal and node: no order without its intent, one result per intent, one
  settlement per held result and for exactly its shares, shares in the ledger never
  above the fills of the exchange, no second live intent of a profile on a token;
- risk: the exposure limits, the daily loss limit and the stops bind what is sent,
  with the slack that checking before sending leaves;
- reconciliation: every orphan is resolved or reported;
- progress: every intent gets a result, every held share of a resolved market is paid;
- paper ledger: a trade ends once, cash is conserved; paper bot: one sweep per gate,
  one opening per profile and event;
- collectors: no slot run twice, none lost but by a pass that overruns, an outcome that
  tells what was committed;
- calibration: no forecast is passed over but in the listed ways, the statistics
  never lag behind the store, an error covers the age of the run it is used for;
- forecasts: nothing is known before it was published, also when the past is rebuilt;
- markets, strategies, sizing: the event that was meant, bought only what the strategy
  favours at its price, with stakes that the balance and the budget cover.

## 2. Plan

Order of work, most important first.

| # | modules | what they model | status |
|---|---|---|---|
| 1 | `LiveJournal`, `LiveExchange`, `LiveOrders`, `LiveReconcile`, `LiveNode` | the live node with its journal, order loop, reconciliation, exchange, operator, crashes | done |
| 2 | `IntentLifecycle` | what the node promises of one intent; refined by `LiveNode` | done |
| 3 | `LiveNodeProofs`, `LiveLedgerProofs` | types, write-ahead, one result, payments, dedupe, stops; ledger and exchange, the refinement; the limits, for all constants | done |
| 4 | `PaperLedger`, `PaperReports`, `PaperBot`, `PaperOperator` | event-sourced wallets and their readers; the tick of the bot; the active sweep and its instant; a second writer, edited profiles | done |
| 5 | `SlotClock`, `Collector` | the slots against the grid they stand for; the collector process that sleeps on them | done |
| 6 | `CollectorProofs` | the grid, reload, outcomes, the walk of a pass and its slots, for all constants | done |
| 7 | `GateClock`, `GateLoop`, `GateLoopProofs` | arithmetic of gates, tolerances and wake times; the two loops that sleep to a gate, or through it; no gate is missed in a sleep | done |
| 8 | `CalibrationJob`, `CalibrationProofs` | the calibration store with the jobs that fill it and the collector's scrapes; types, statistics, losses for all constants | done |
| 9 | `RunTimes`, `ForecastBatch`, `LiveForecast`, `CalibrationChoice` | past and live forecasts, and the error they are given | done |
| 10 | `Buckets`, `Markets`, `Desk`, `Strategies`, `Tickets`, `Analysis` | from a forecast and an event to stakes and orders | done |
| 11 | `Snapshots`, `Backtest` | what a past decision is rebuilt from, and the replay | done |
| 12 | `Profiles` | from a configuration file to wallets and limits | done |
| 13 | `SumProofs`, `PaperBotProofs` | sums over finite sets; the replay and the views, payments, means, dedupe and the sweep of the paper bot, for all constants | done |
| 14 | `PaperBotProofs` | the report of performance, the viewer's trades and the table of scenarios against the replay and the settlement, for all constants | done |
| 15 | `DeskProofs` | of the calculations behind `desk`: runs, maxima, the calibrated row, the live forecast and its records; what strategies buy, stakes, live orders, the credible interval; the past as it was known; buckets and markets; for all inputs | done |
| 16 | more proofs | the book of the backtest, batches, mixtures, analyses, profiles | open |

Abstract specifications worth stating: `IntentLifecycle` (stated, refined by
`LiveNode`); a ledger of trades that are opened, ended once and paid, which
`PaperBot` alone implements (`EndsOnce` and `WithinMeans` say its parts as invariants);
"every slot of the grid is run once, or passed over by a pass that overran it", which
`SlotsRunOnce` and `OnlyOverrunsDisturbSlots` of `Collector` say as properties.

Theorems worth proving next: that the book of a backtest balances
(`BacktestBooksBalance`), and that a batch resumes without losing a record
(`BatchResumes` of `ForecastBatch`).

## 3. Modules and the code

`MCLiveNode`, `MCPaperBot`, `MCPaperOperator`, `MCCollector` and `MCGateLoop` only give
the constants values; `MCDesk` also asks the questions of the calculating modules.
`Absent` has the value `None` of what may be missing.

### The live node

One sequence `journal` is the table `live_events`; `exch` is the list of the node's
orders on the exchange and `winner` what Gamma reports. Shares are small integers
and money is counted in units of the limit price, so a fill of `n` shares costs `n`.

- **`LiveJournal`**: the rows with the columns some query reads, and every query of
  `LiveLedger` as an operator of the journal: `InFlight`, `Held`, `Exposure`,
  `has_open_on_event`, `unfilled_retry_pending`, `unresolved_intents`,
  `realized_pnl`, `open_event_ids`, and the rows that `record_*` append.
- **`LiveExchange`**: the client's view of an order (status normalization, terminal
  filtering of `open_orders`) and, marked external, the exchange itself: it accepts
  with any initial match, fills, cancels, resolves. Any call may raise, before or
  after it took effect.
- **`LiveOrders`**: `manage_order` and `record_result`, one action for each call or
  transaction: `Place*`, `JournalAck`, `Poll*`, `Cancel`, `Final*`, `RecordResult`.
- **`LiveReconcile`**: `reconcile` and `resolve_stale_intent`. The open orders are
  listed once, each unresolved intent is then kept (`StillOpen`), looked up
  (`ReadOutcome`), closed (`AssumeNeverPlaced`) or left to an operator
  (`ManualReview`); any call may raise and end the run.
- **`LiveNode`**: the process. `pc` is the place of its one thread, `tick` the locals
  of `run_node_tick`, `phase` where the wall clock is in the gate of each profile.
  `Start`, `ReconcileStep`, `BeginTick`, `record_settlement`, `NextUnit`,
  `NextProfile`, `record_intent` (risk check and INTENT row), `ManageStep`,
  `AfterTick`; `TickFails` and `Crash` can happen between any two steps;
  `Environment` is time, the operator's stops, fills and resolutions.
- **`IntentLifecycle`**: what the node promises of one intent: intended, sent at most
  once, booked once with at most what was filled, and paid once if it holds shares.

### The paper system

`log` is the table `paper_events`, `stored` the instant in `paper_bot_state`.

- **`PaperLedger`**: the rows, `read_state` as the fold it is in the code, and the SQL
  views as set expressions over the whole log.
- **`PaperReports`**: the other readers of the rows. The report of performance replays
  them day by day, under the settlement date that Gamma tells or else the day a row was
  written; the viewer joins each row that ends a trade with its OPEN row; the table of
  scenarios pays the open trades for each possible winner and rolls up the cheap ends
  of the ladder.
- **`PaperBot`**: one tick is `settle`, `exits`, `sweep`/`manage`/`mark`, `units`.
  `settle_event` and `close_position` read in one connection and append in another:
  the rows wait in `pend` for `Commit`. `SweepFails` is the exception that
  `run_active_sweep` swallows, `TickFails` every other one, and the crash.
- **`PaperOperator`**: `paper settle --all` as a second process with the same two
  steps, and edits of the profiles.

### The collectors

- **`SlotClock`**: `collectors/schedule.py`. An instant is a number of ticks, a day has
  `Day` of them. `SlotForInstant`, `NextScheduledInstant` and `IsSlotDue` are the
  functions; `OnGrid` and `GridAround` say what their docstrings promise.
- **`Collector`**: `run_collector.py`, its one thread at `node.pc`. `node` holds the
  locals of `main`, `sched` the `RunState` of each collector, `pass` the locals of
  `_run_due_tasks` and of the runner it is in, `tx` the open transaction of a station,
  `known` the table `stations`; `recent` and `polls` remember what was
  committed. `Load`, `FirstStat`, `FirstSync` are the start; `Top`, `Reload`,
  `RunDueTasks`, `RunCycle`, `CycleDone`, `PassDone`, `Wake` the loop;
  `BeginStation`, `FetchPage`, `PageFails`, `MetricFails`, `UnexpectedError`,
  `FinishStation` one station of a runner. `Tick`, `Edit`, `Signal` and `Crash` come
  between any two of them. The file's time is read before its content, at the start
  and in the loop, so an edit can fall between the two.

### The gate loops

- **`GateClock`**: `lead_time.py`, the settlement dates of `market_context.py`, the wake
  times of `bot.py` and the retry dates of `node.py`, over integers: an instant counts
  ticks, `Hour` of them an hour, and a date is a number of days.
- **`GateLoop`**: the main loops of both programs (`who` says which one runs). A tick
  reads the clock once (`BeginTick`), looks at the units at their gates
  (`LookAtUnits`, where any market context may fail) or raises (`TickFails`); time
  passes meanwhile. Then the loop reads the clock again and sleeps: the bot to the
  next gate after the tick, a sweep, a retry or a poll (`BotSleeps`); the node to a
  sweep or to the gate that was next when its tick began (`NodeTickEnds`), perhaps
  after a reconciliation (`Reconciled`). `ticks` and `born` are history that only the
  properties read. What the tick does at a gate is the matter of the other modules.

### The calibration jobs

- **`CalibrationJob`**: `db` is the committed store, `tx` what the open transaction of
  the one job sees, `proc` the locals of the script. `Start` is one of the scripts with
  its command line; `BeginBootstrap`, `BeginDaily`, `NothingToDo` compute the windows;
  `IngestObservations`, `IngestHistory`, `IngestRun`, `RunFails`, `RunRaises`,
  `IngestSnapshots` fill the store, with raw files that survive; `Recompute`,
  `WriteStats`, `GivesUp`, `Succeeds` end a part. `Scrape` is the collector, `Crash`
  comes between any two steps. A tick is one model initialisation, so a success at
  tick `t` lies after `t`'s full hour. `log` and the field `missed` are history.

### Forecasts and their errors

These modules and the next ones have no variables: a function of the code is an
operator of its arguments, and a property is an operator that compares what it returns
with a definition of what it should.

- **`RunTimes`**: the instants at which models start, the runs planned for a target day
  and a longest lead, daily maxima of hourly series by local day.
- **`ForecastBatch`**: the batch that fetches past forecasts. A call is what the service
  answers and where the process dies; the disk after some calls is a fold over them.
- **`LiveForecast`**: one live fetch (metadata, values, metadata again), the stored rows,
  the Wunderground member with the day's observations, and the same member as the
  calibration rebuilds it from scrapes; the daily maxima of `wunderground.py`.
- **`CalibrationChoice`**: the row of the statistics for a model, a lead and an anchor,
  the best model, the weighted mixture, the profiles that may run.

### Markets, strategies, stakes

- **`Buckets`**: temperatures in tenths of a degree. The normal distribution is any
  symmetric bell that ends some sigmas from its mean: the properties are about how
  mass is cut at bucket edges, conditioned and capped, not about its shape.
- **`Markets`**: events with their markets: labels, resolution, the winner, quotes of
  Gamma overwritten by the order books.
- **`Desk`**: the questions about these two, as `MCDesk` asks them: the inputs that may be
  asked about and `MarketsAreRead`, which a theorem states for all of them.
- **`Strategies`**: the fifteen strategies on rows of probability and quote, in
  percentage points, which is also how their thresholds are written.
- **`Tickets`**: stakes of the paper ledger (the old ramp and the budget), the shares
  they buy, and the walk of the live node over the asks.
- **`Profiles`**: `load_paper_profiles` with its lists as sequences, so that a name
  given twice is a wallet loaded twice; what the report says of a wallet; the live
  node's profiles, ticket and limits that scale with the collateral.
- **`Analysis`**: `analyze_event`: the model strategy that is asked for and the one that
  is had, the floor, the cap, the decisions, and which results the paper, live and
  active path trade on.

### The past

- **`Snapshots`**: the nearest stored cycle, scrape, slot and calibration file for an
  instant, and the gate inputs made of them.
- **`Backtest`**: `run_backtest` as a fold over days on a list of rows, the daily rows
  and the drawdown.

**`MCDesk`** runs `CalibrationJob` and asks the questions. A question is a record with
the inputs of one property (`about` names which; those about buckets and markets are in
`Desk`, with what may be asked); `Ask` goes from the quiet initial
state to any question of the lists in the module, `Answered` goes back, and the
invariants say of a state with a question that its answer is right. So one run covers
the job's interleavings and the calculations for every listed input.

## 4. What the runs check

| run | instance | what it shows |
|---|---|---|
| `live_node` | 1 profile, 2 tokens, 2 shares, 2 intents, 1 fault | types; no order without its intent and none twice; one result per intent; settlement once and for the shares booked; the ledger never claims more than was filled, and less only in the listed cases; no two live intents on a token; exposure within the limits up to one order's slippage; the node implements `IntentLifecycle` |
| `live_two_profiles` | 2 profiles with an event each | realized loss plus everything at risk stays within the daily limit plus one full book |
| `live_progress` | 1 token, 2 shares, an operator who stops and resumes | at most one order is sent after a stop; every intent gets its result; held shares of a resolved market are paid |
| `live_stranded_fill`, `live_resent`, `live_orphans` | as small as each needs | the disagreements below |
| `paper_bot` | a gated wallet with brackets, an active wallet, 2 legs, 2 instants, 1 fault | a trade ends once; replay, views, report, drill-down and scenarios agree with each other and with what is settled; no wallet is overdrawn and no leg passes its cap; one decision per event; one ticket per leg and instant, plus one per failure; resolved trades are paid; the latest instant is swept |
| `paper_two_writers`, `paper_sweep_again` | 1 leg | the disagreements below |
| `collector` | 2 versions of the file with 2 and 3 collectors, a broken one, 2 stations, 2 starts | slots are the neighbours of an instant on the grid; none is run twice, and only a pass that overruns loses one or makes two polls share one; a slot is done when every station was tried; `collector_state` tells what was committed; a sleeping process runs on the file it has, with its stations known; SIGTERM ends it; an edit is taken up |
| `gate_loop` | three gates around a midnight, one retry window, 2 starts of either program | no open gate and no retry window falls out of the dates scanned; the sweep's instant is the latest of all; a gate goes by unseen only in one of the listed cases |
| `desk` | 2 stations, days of 2 runs, 3 jobs of 5 command lines, 1 fault, 1 scrape; the questions of `MCDesk` | what the jobs pass over is lost only as listed; the statistics cover the store; forecasts and their errors are of what was known; a backtest looks ahead only as listed and its book balances; events, buckets and winners are read as meant; decisions, stakes and orders are what was asked for and can be paid; a file gives each profile a wallet of its own |

`GateMissedOnlyInTick` lists what keeps a gate from being looked at, and the run shows
that nothing else does. The bot may miss a gate that opens while a tick is running,
one whose tick fails, and one whose market context fails when the tick ends after the
retry's instant, thirty seconds after the tick's beginning. The node may miss more: it
has no retry for a market context that fails at the gate, it can reconcile through a
gate, and because it asks for the next gate as of the beginning of its tick
(`node.py:352`), a tick that runs past one gate makes it sleep a whole sweep, through
gates that open later. "Bot wakes at the exact UTC instant"
(`config/paper_profiles.yaml:26`) holds outside these cases.

**What the properties of `desk` list.** Each holds of the code only with exceptions,
and the run shows that there are no others.
- `LossesAreListed`: a run whose fetch failed is not tried again by a nightly update; a
  run of a day the last success did not cover, made before that success, falls between
  two windows (`calibration_runner.py:438`); a scrape between the job's read and its
  success is skipped; an update of one station (`--station`) moves the windows of all.
  Scrapes off the full hour are not records at all. A record stays unadjusted when it
  was read before its day was over, or the history of the day once could not be fetched.
- `StatsCoverStore`: the CSV is written before the commit, so it may show rows of a job
  that then gave up or died, and a job that dies while writing leaves it torn.
- `ForecastsAreKnown`: the run stored with a fetch may be newer than its values, if it
  was published meanwhile, which a flag says that nobody reads; a raw file torn by a
  crash is never fetched again, and a line torn in the file of records stops every
  later call.
- `HindsightIsListed`: a fetch cycle after the gate is used if there is none before it;
  a price counts by the slot it was polled for and not by when it was fetched; an
  observation by when it was made and not by when it was published; the calibration
  file counts as there before its first archive; and a day that opens before an earlier
  one is settled (lead and delay together above 24 hours) has the bankroll of that
  settlement already.
- `MarketsAreRead`: when the observed floor leaves no mass, the observation is ignored;
  the cap of a market may widen a spread that was below 0.1; enough events ahead of the
  one that was meant hide it.
- `DecisionsAreRight`: with a `best_historical` strategy the active sweep trades on the
  ensemble when the calibration is missing, where the other two paths refuse
  (`paper/run.py:164-189`, `live/node.py:147-153`); a book of `book_arb` is not bought
  whole if a leg is held already or rounds to nothing, and rounding may cost it cents;
  the window of `coverage_band` is the smallest if the distribution has one peak; an
  order's shares at its limit may cost more than the stake, by at most the walk above the
  best ask; a file that names a model, a strategy or a gate twice loads a wallet twice,
  two gates of a knob in one hour are one live profile id (`live/config.py:174`), and
  `xsell_wallets` may name a model without a hold-to-settle twin.

**Disagreements between the code and what the repository says of it.**
`NoStrandedFill`: a status read that raises makes the loop book zero shares although
the ack or an earlier poll journaled a partial fill. `FailedWithIdNeverResent`: the
retry decision is taken per profile, so a token whose order failed with an id (it may
still rest) is bought again when a neighbour is retryable. `OrphansResolvedOrReported`:
a refused placement is journaled with the empty order id; after a crash before its
result, every reconciliation raises on that id and the node can never start again.
`EndsOnce` with a second writer: a settle command beside the bot pays a trade twice.
`OneTicketPerInstant` with an edit: the sweep's dedupe tests equality with the latest
due instant of the loaded profiles, and a reload can move that instant back.

**Bounds, and why they are enough.** Two shares are the least with a partial fill; two
intents the least with an interplay between intents (a retry, a second token, a second
profile); one fault reaches every place where a crash leaves work for reconciliation. One
operator action is a stop at any moment. The paper instance has two trades because
every property relates at most two rows, five moments so that both gates open, pass
and leave a moment without a gate, and ticket sizes of which two together overdraw
the wallet or the cap. The collectors are watched for four ticks across a midnight, on
a day of 12 ticks: intervals of 2, 3, 4 and 12 with anchors on both sides of the
instant put every case of the slot arithmetic into them, and a pass can begin in one
slot and end two later. One edit is enough for a change of intervals, a new station,
an unknown collector and a file that does not load; the second start comes after an
exit or a crash anywhere. The gates of `gate_loop` lie three ticks apart, closer than a
sweep, so that a tick can outlast one gate and reach the next; retry, tolerance,
poll and sweep are the least that keep the order of the code's 30 s, 90 s, 3 min and
15 min, but for a retry as long as the tolerance. The calibration of `desk` has two runs a day, so that a success
can fall between the runs of one day, and three days (`Horizon` 5); three jobs are the
least for a bootstrap, an update that loses something, and one that could have brought it
back; two stations are needed for `--station`; one failing fetch or crash and one tick
that passes while a job runs reach each listed exception by itself. Of the questions,
days of four hours (`Day`) put every case of the hour arithmetic within a few days; ladders of
three to five buckets have both tails and a middle; the values of prices, probabilities
and spreads were chosen on both sides of each threshold of the code. The bounds are
`MaxIntents`, `MaxFaults`, `MaxOperator`, `MaxClock`, `MaxTrades`, `MaxCommands`,
`MaxEdits`, `MaxStarts`, `MaxScrapes`, `MaxSlow`, `Dawn`, `Horizon`; the guards that
hold them are in the actions they bound.

**Fairness.** Safety is checked without any. `FairSpec` of the live node assumes that
the thread takes its next step as long as it lives, that time passes, and that a
settlement that stays possible is not kept from happening by failing fetches for ever;
it does not assume that a stopped node is started, since launchd does not
(`deploy/launchd/README.md:41-56`). `OperatorRestarts` adds that, and that a call the
exchange can answer is answered in the end: the weakest assumption under which
reconciliation could be expected to finish, and it still does not. `FairSpec` of the
paper bot assumes that its loop goes on, which launchd's `KeepAlive` does ensure
(`deploy/launchd/com.polytempo.paper-bot.plist:25`), and that a resolved event is
fetched in the end. `Spec` of the collectors has weak fairness of `Process`: every
fetch has an HTTP timeout, so the thread takes its next step as long as it lives. It
may fail at each, and neither an edit, a start, a signal nor the passing of time is
assumed.

## 5. What is proved

`LiveNodeProofs`, for every set of profiles, events and tokens, every number of
shares, intents, faults and operator actions that satisfies the assumptions of the
modules (`LegsAssumption`, `SharesAssumption`, `StakesAssumption`, ...; each is what
the code's types and configuration ensure):

- `TypeCorrect`: `Spec => []TypeOK`;
- `WriteAheadHolds`: `Spec => []WriteAhead`;
- `OneResultHolds`: `Spec => []OneResult`;
- `NextInv`: the invariant behind them is preserved by every step.

None of the three is inductive by itself. That an intent gets one RESULT row although
two parts write it rests on what each holds in its locals: while the loop manages an
intent, that intent is in the journal without a result (`CurUnresolved`); what a
reconciliation still has to look at has none either (`TodoUnresolved`), and the two
never work at the same time because there is one thread. That no intent is sent twice
rests on fresh ids (`IdsFresh`) and on `FirstPlacement`: the loop is at its placement
only before the exchange has an order for the intent. `RestingHasRoom` (an order that
still rests has shares left) keeps fills within their type. `IndInv` is the
conjunction. The proof has a lemma for each action that changes what the invariant
reads; the actions that change only the clock, the operator's stops or the counters
are covered by one lemma for all of them.

The journal's purposes are proved from `IndInv` in the second half of the module:
`AtMostOneAfterStopHolds`, `PaidOnceForItsSharesHolds` and `OneLiveIntentPerTokenHolds`.
The dedupe is not inductive: the node asks `has_open_on_event` once, for a profile and
an event, and then works the BUY rows one by one. `RowsFree` says that what is still to
be bought is neither in flight nor held at any time in between; that a held result
blocks its event needs `ResultsFollow`, a RESULT comes after an INTENT of the same
profile and token. A settlement pays in the order of the rows (`Increasing`), so no
result is listed twice, and with `OneResult` no intent is paid twice. `Kinds` reduces
the actions to five: buying, intending, settling, and a step that adds an ORDER row, a
RESULT that closes an intent in flight, or nothing.

`LiveLedgerProofs` builds on it, under the same assumptions:

- `LedgerAgreesWithExchangeHolds` and
  `ImplementsLifecycleHolds`. A snapshot of an order is `Sound` if it claims no more
  than the order got and, unless it leaves the order open (`Unsettled`), all that it
  gets. `AgreeInv` says that RESULT rows are sound, and so is whatever is about to
  become one: a final ack, the loop's result, the outcome a reconciliation found.
  `SoundStays` is why a snapshot stays sound while fills, cancels and resolutions go on;
  `ListingSound` is why a reconciliation may trust an order that its listing left out.
  For the refinement, `Spec => Lifecycle!Spec`, a step changes the exchange or the
  journal, never both (`OneAtATime`), and each kind of change is one action of
  `IntentLifecycle` or a stutter: an entry is `Send`, a fill `Fill`, an INTENT `Intend`,
  a RESULT `Book` (its `n <= filled` is `AgreeInv`), the rows of one settlement `Pay`;
- `ExposureWithinCapsHolds` and `WorstCaseDayLossHolds`. Exposure
  and daily loss are sums over the rows of the journal that are held, in flight or paid.
  Both properties allow one order's slippage, `Slip`, and that is not inductive: a
  second order could slip on top of the first. `ExposureInv` says that while the loop
  manages an order, which counts with its quoted stake, the book is within its limits
  exactly; so only the RESULT, when fills cost more than the quote, uses the slippage,
  and the next risk check has it in its sums. A settlement moves stakes from the
  exposure to the realized loss one for one (`SettlementSums`), which keeps the worst
  case of the day.

`SumProofs` has the facts about sums over finite sets that these and the paper bot's
proofs need: a sum is what the last element adds to the rest, it does not depend on the
order of the fold, it grows with the set, it is the sum of its parts and of the sums of
its groups, and renaming its terms leaves it as it is.

`CollectorProofs`, for every length of the day, set of files, horizon, number of edits
and of starts that satisfies `DayAssumption` and `CollectorAssumption` (intervals divide
the day, `Dawn` is late enough for no slot to be negative), and for the slots also
`NamesAssumption`: no file lists one collector twice. `RunState` is keyed by the name
(`run_collector.py`), so two entries of one name would share their slots; the code does
not refuse such a file, and the files of `config/` are not of that kind.

- `NeighboursOnGrid`: for every instant, anchor and interval that divides the day, the
  slot and the next scheduled instant are the neighbours of the instant on the grid.
  The instant is written as whole days, whole intervals and a rest (`DivMod`), and an
  offset from the anchor is on the grid only if its rest is zero (`OnGridFromAnchor`);
- `GridsAlwaysHold`: `Spec => []GridsHold`, from it and from `OnValidConfig`: the
  process only ever runs on a content that loads;
- `AsleepUpToDateHolds`: `Spec => []AsleepUpToDate`: the process sleeps on the file it
  has, and its stations are in the table. The invariant `FileInv` says that an edit
  gives the file a time later than any the process holds, so equal times mean that no
  edit came in between; `TableHasContent` needs the exception that `raced` records;
- `OutcomeMatchesRowsHolds`: `Spec => []OutcomeMatchesRows`. `TxInv` lists which pages
  a transaction holds, with the pages still to fetch and the error flag: after an error
  only what came after its rollback;
- `SlotsRunOnceHolds` and `DoneMeansAllTriedHolds`: `Spec => SlotsRunOnce` and
  `Spec => DoneMeansAllTried`, both action properties. `PassInv` says that the task the
  pass is in was due when it began and has not been recorded since: a slot is recorded
  only at the end of a cycle, and the pass then moves on in the order of the file
  (`Turn`). `TriedInv` says that a station of the cycle is either still on the list or
  has an outcome of this pass;
- `OnlyOverrunsDisturbSlotsHolds`: `Spec => []OnlyOverrunsDisturbSlots`. `SlotInv` says
  that every task the pass has gone by is run up to its slot of the pass's `now`, and
  that a sleeping process wakes no later than the next slot of any of its tasks, so a
  slot is lost only in a pass. `PollInv` says that the label of a poll is not before
  the slot it was polled for, and that polls of earlier passes are of slots that the
  schedule remembers;
- `TypeOKHolds`: `Spec => []TypeOK`. That `None` is smaller than every slot rests on
  `Dawn`.

`GateLoopProofs`, for every length of an hour and every set of profiles, intervals and
windows that satisfies `HourAssumption`, `ScheduleAssumption` and `GatesAssumption`
(leads up to three days, a tolerance of at most a day and below the lead, a retry
window of at most a day):

- `UnitsCoverGatesHolds`: `Spec => []UnitsCoverGates`. The property says something of
  the arithmetic at each instant, so the invariant is only that the clock is a natural
  number; the work is in `SpanCoversLead` (the span of days is longer than the lead by a day,
  less an hour) and `DateOfLead` (a lead below some number of days belongs to a date
  fewer days ahead);
- `LatestIsLatestHolds`: `Spec => []LatestIsLatest`. Yesterday's and earlier gates have
  passed and, with leads up to three days, those beyond the scanned dates have not
  (`PassedGates`); the passed gates among the scanned ones are a nonempty set of integers
  below the clock, which has a maximum (`MaxOfBounded`: `<` on the naturals is
  well-founded);
- `TypeOKHolds`: `Spec => []TypeOK`. The wake time is ahead of the clock and at most a
  sweep away, for either program;
- `GateMissedOnlyInTickHolds`: `Spec => []GateMissedOnlyInTick`. `GateInv` follows a gate
  that has not closed yet under a loop that ticked before it opened: it was settled (looked
  at, or missed for a listed reason), or the thread sleeps and wakes before it closes, or
  a tick is running that began in time. That a sleep ends in time is `NextGateInTime`,
  a theorem of its own: asked before a gate opens, `next_gate_wake_utc` answers an
  instant ahead and no later than that gate, because some date it scans has a gate that
  early. What settles a gate is a tick's outcome, and the ticks that matter are in
  `ticks` until the gate has closed (`SettledStays`).

`CalibrationProofs`, for every set of stations and command lines, every length of the day
and of a forecast, every horizon and number of starts, faults, scrapes and slow ticks
that satisfies `JobAssumption`:

- `TypeCorrect`: `Spec => []TypeOK`. `Types` adds the locals of the process, and that
  nothing is recorded later than the clock: a window ends before today;
- `StatsCoverStoreHolds`: `Spec => []StatsCoverStore`. A job commits only what it has
  just written, but between the CSV and the commit other rows could join. `StatsInv`
  says that the store's rows stay in the transaction (upserts never remove a key, though
  they may change the adjustment), and that at the end of a part the CSV has what joins in
  the transaction;
- `LossesAreListedHolds`: `Spec => []LossesAreListed`. `LossInv` connects each state row
  with the logged success it came from (`Logged`), a window with the row it was computed
  from (`WindowsFollow`), and what a part has done so far with the window (`RunsDone`,
  `ScrapesRead`, `HistoryTried`). At a success the new covered stretch is the old one and
  the window: what is in neither lies between two windows or belongs to a station that
  was left out.

`PaperBotProofs`, for every set of wallets, events and legs, all gates, prices, stakes,
caps, payouts and bounds that satisfy `LegsAssumption` (an event has finitely many
markets), `FiniteAssumption` (so have the bot wallets and an event buckets), `MoneyAssumption`, `ProfilesAssumption`, `SizingAssumption` and
`BoundsAssumption`:

- `ReplayIsView`, a lemma about `PaperLedger`: for every well-formed log, what
  `read_state` has at the end of its replay is what the SQL views select, the balance and
  the open trades. The replay is a fold; `ReplayAppend` unfolds it by one row, and each
  row changes both sides alike (`ReplayBalance` and `ViewBalance`, `ReplayOpens` with
  `OpensOne` and `EndsOne`). Well-formed means that each row opens a trade under its own
  number or ends one opened before, as it was opened;
- `PaperInvariant`: `Spec => []PaperInv`, of which `TypeOKHolds`, `EndsOnceHolds`,
  `WithinMeansHolds` and `ViewsAgreeHolds` are parts. `Closes(pend, log)` says that the
  rows waiting for their commit end trades that are open still, each once: only one thread
  appends, and it appends nothing else while they wait, so what was read before
  the transaction is true in it (`paper_two_writers` shows what a second writer does to
  that). `Reading` is why tickets sized on one reading stay within means: while a wallet
  is managed its balance is at least what the sweep believes, the bankroll is one it had,
  and no leg still to be worked holds more than when it was read; the commits of flattened
  tickets in between only raise balances and lower exposures (`CommitPays`, `CapKept`);
- `ViewsAgreeHolds` is the first conjunct of `ReadersAgree`; the others are below;
- `OneDecisionPerEventHolds`: `Spec => []OneDecisionPerEvent`, from `PaperInv`: only
  `OpenTrades` opens trades of a gated wallet, in one transaction and only while the view
  shows none on the event, and no other row makes an open trade;
- `OneTicketPerInstantHolds`: `Spec => []OneTicketPerInstant`. The count of tickets is
  not inductive; `CountInv` adds that an instant later than the stored one has at most one
  ticket for each failure, unless the sweep that runs has worked the leg already
  (`Worked`). It needs that no tick computes an instant before the stored one
  (`ClockInv`), which holds as long as the profiles stay what they are
  (`paper_sweep_again` shows what an edit does to it).

`PaperInv` with `ClockInv` and `CountInv` was checked by TLC on the instance of
`paper_bot` before it was proved.

The last of them is `ReadersAgreeHolds`, about the readers of the ledger: `Spec =>
[]ReadersAgree`. `PaperInv` is invariant enough; what is to be shown is that every log it
allows (`Written`) is read alike by operators that compute in different ways:

- the report. `ReplayedRows` unfolds the fold of `_replay_profile` into a run, a row at
  a time, and `PerfIs` says what the run has after each row: the balance of `read_state`,
  the stakes of the trades that are open, and for each day of the window the gain and the
  number of the wallet's rows reported under it (`PerfStep`, with `HeldStep` and
  `DailyStep`). The first balance of a day is not such a sum; it is the same for all
  windows (`SameSod`), and that is all the property asks of it;
- the viewer's trades. Each row that ends a trade joins exactly one row that opened it
  (`TradesAre`), so the trades of a day are the rows the report has under it, renamed
  (`TradesAgree`);
- the rows of several wallets. The gains of all rows that end a trade, grouped by day and
  wallet as `_rollup` does, or by wallet as `read_state` does (`RealizedIs`), have one sum
  (`RollupEarns`);
- the scenarios. The rows a settlement writes are the open trades of the wallet on the
  event, each once, in the order of their numbers (`PaidInOrder`), so what they bring is
  `_scenario_pnl` (`ScenarioIsSettlement`). The ladder falls into two rolled ends and the
  buckets between them (`TableIs`), and every bucket is in one of those rows
  (`TableCovers`).

`FiniteAssumption` is what sums over wallets and permutations of buckets need; the code
has them in lists.

`DeskProofs` states properties of calculations, not of a specification: `desk` asks each
of them of the small inputs it lists, and the theorems below say that the answer is right
for all inputs. `Day` and `RunHours` are any that `RunTimesAssumption` allows, files and
answers are finite sets of rows, and `None` is no number, no sequence and no set of rows.

- `RunsAreTheGrid` and `PlannedLeadsAreNotUnderstated` are about the runs that are
  fetched. The hours of inits repeat every day, so the init before an instant is among
  those of its own day and of the day before (`SnapIs`), the one after it among those of
  its own day and of the next (`NextIs`); the rest is division by the length of a
  day (`MidnightIs`, `FloorIs`, `GridIs`);
- `MaximaAreOfWholeDays`: in a series of consecutive hours each day but the first and the
  last has as many hours as a day (`WholeDays`), and the last has that many or is left out;
- `BestRowIsCovered`: a row that is found has the shortest lead of those that cover
  the lead that was looked up (`RowIs`), and the chosen one has the least error of those
  found (`LeastSigmaIs`);
- `AdjustmentKnowsThePast`, `RecordsAreWhatLiveSaw` and `ObservedMaximaAreOfTheirDay` are
  about Wunderground: what it adds live, what is rebuilt from scrapes for the calibration,
  and what it observed. The first two compare what is computed from two sets of
  observations that agree up to an instant; the last is about rounding (`RoundIs`);
- `ErrorsCoverTheirRuns` follows a forecast from the answers of the provider to the error
  it is given. What is fetched has the leads of the runs known after the fetch
  (`FetchedIs`, `DailyIs`), Wunderground is appended without a run (`AppendingKeepsRuns`),
  so a lead that is looked up belongs to a known run (`KnownLeadIs`); the provider goes
  from the run before the fetch over the one that made the forecast to the run after it,
  and when the first is the last all three are the same (`MadeByItsRun`);
- `OnlyFavourableIsBought`: what a strategy buys passed a gate on the edge of the side it
  buys (`GoodBetIs`), so each leg is worth more than it costs (`GoodBetPays`); the first
  best bet is the best there is (`MaxEdgeIsBest`), the k-th best is behind k - 1 others
  (`TopKIsGood`). The basket and the whole book compare sums: of masses and asks over
  the window (`BandIsFavourable`), of prices that are a hundred less their bids
  (`HundredEach`);
- `StakesAreWithinMeans`: tickets are paid one after the other from what is left
  (`RunSpends`), so they never exceed the balance; shares of a pool in proportion to
  weights exceed it only by what is raised or rounded (`SharesAdd`). Weights are the
  implied stakes over a common multiple of their denominators (`CommonIs`);
- `LiveOrdersAreWithinStake`: the walk keeps cost, shares and limit within the stake, the
  best ask and the cap at every level (`TakeStays`); the bound at the limit follows;
- `NoShorterWindow`: the window grows to the greater neighbour, so it holds the most
  probable buckets of as many (`GrowStaysNarrow`), which add up to the most
  (`TopIsMost`); a step is only taken below the mass asked for.

These four take an event as `Sound` and `Liquid` say: probabilities and prices are
integers, or there is no price, and every edge has its bucket. Prices need not be those
of one book, nor probabilities add up to a hundred; asks come cheapest first, as the
exchange lists them and `size_buy` reads them.

- `PastIsRebuiltWithoutHindsight` compares what is rebuilt from all that was stored with
  what is rebuilt from what was there at the gate. The nearest of the cycles, slots and
  files at or before an instant are the same in both (`NearestIsKnown`, `LastIsKnown`),
  and what comes later is only looked at if there is nothing before (`LastBefore`); the
  event that is decided on has no outcome (`ViewIsOfThen`), whatever became of it;
- `PastIsRebuiltAsRecorded`: at the instant of a scrape the last scrape of the hour is that
  one, so what is read and what the calibration recorded are maxima of one set of rows.
  Seconds of a scrape are taken to be 0 to 59;
- `TheWinnerStands`: only a market that is settled for YES wins (`ShownIs`), it stays
  settled, and two of them are excluded;
- `MarketsAreAlwaysRead` is the whole of `MarketsAreRead`, for every question that
  satisfies `Askable`, which TLC evaluates for the questions it asks
  (`QuestionsAreAskable`). Its parts are theorems too: `SpreadIsBounded` (squares keep
  their order, floors grow), `TheCapTightens`, `ObservationsRule` (masses that are left
  out add nothing to a sum), `OneBellForAllLabels` (the values of an interval
  telescope to the difference of the bell at its ends, `CellsTelescope`; every value is
  of one bucket, so the sum over the buckets is the sum over the line, `SumByKey`) and
  `TheMeantEventIsFound`.

Only model-checked: liveness (`IntentsResolve`, `HeldSharesArePaid`, `ResolvedIsPaid`,
`InstantIsSwept`, `StopsWhenAsked`, `EditIsTakenUp`), which the prover does not cover; and
the other calculations of `desk`: of `ForecastsAreKnown` the mixture, the batch and the
readiness of profiles; of `HindsightIsListed` the book and the bankroll of the backtest;
and of `DecisionsAreRight` the analyses, the profiles and `WholeBookIsHedged`, a bound of
rounding that is meant for books of as many buckets as an event has. Their folds over
days, legs and calls would need an induction over each. The provers cannot take an induction principle with an operator for its hypothesis; where a proof here
follows a fold or a sum, it takes the least counterexample (`SetInduction`, from `WFMin`)
or counts up through a set (`CountUp`), which pays only for operators as central as the
replays. No module with a theorem reaches a `RECURSIVE` operator.

## 6. What is not modelled

- `LiveNode` and `PaperBot` take the analysis as a choice of BUY rows, at most one per
  bucket, and the sizing as a choice of stake: for the live node at most the shares at
  the limit, for the paper bot at most what the balance and the caps allow. `Analysis`,
  `Strategies` and `Tickets` calculate both; they are not composed with the processes,
  whose properties do not depend on which row it is.
- Limits that scale with the collateral, as those of both files in `config/` do: in
  `LiveNode` limits are fixed, `Profiles` has the scaled ones. The entry filters of the risk
  engine (price, spread, depth, age of the forecast): a row may always be skipped.
- One day and one gate with its retry window for each live profile: the windows
  "since" and "today" of the queries cover the whole run.
- A graceful stop, which the model does not tell from a crash; the guard against a
  journal of another mode; the dry-run client, which never fails.
- HALT rows and the kill switch file are both "a stop of the operator".
- The clock in seconds: the gate of three minutes is a phase, or two moments of the
  paper bot's clock. `GateLoop` has a finer clock, but its tick is only as long as it
  takes. A host that is suspended, so that a sleep outlasts its deadline, is not
  modelled; `_sleep_until` looks at the clock every second.
- Collectors: the pages themselves and the columns of their rows, the timestamps of
  `collector_state`. Intervals divide the day, as all of
  `config/weather_collectors.yaml` do: for others `SlotForInstant` starts a new
  grid at each anchor while `NextScheduledInstant` may step past it. A database error
  is a `Crash`: the transaction is aborted, and recording the error in it raises again.
- Calibration: the statistics themselves (mean, deviation and RMSE of the joined rows), the
  diagnostics that are printed. Two jobs at
  once: launchd starts one at a time, and an operator could start another.
- Requests and parsing of Open-Meteo, Wunderground and Gamma pages, and of YAML, with
  the ranges that the dataclasses of the configuration check: their results are inputs, with every way of being missing that the code
  handles.
- Confidence, warnings and texts of a decision.
- Reports, the visualizer and the command line, but for what computes money from the
  ledger (`PaperReports`): they show what the others wrote. The settle command is in
  `PaperOperator`. Deployment is shell and `pg_dump`; its policy gives
  the fairness of section 4.
