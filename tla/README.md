# Formal models of market-sentiment-predictor

TLA+ specifications of the parts of the repository whose correctness depends on
order, on failure or on several actors, the TLC configurations that check them on
small instances, and TLAPS proofs of the results that matter most.

All paths below are relative to the repository root (`src/trading/cycle.py` is the
Python file of that name).

## 1. The system and its parts

The program turns news, filings and prices into quantile forecasts of returns,
evaluates them under a preregistered protocol, and trades a paper account weekly
on the result.

| Component | State it keeps | Operations | Talks to |
|---|---|---|---|
| Trade planning and limits: `config.py`, `signals.py`, `rebalance.py`, `risk.py` | none: pure functions | `decide_targets`, `plan_orders`, `check_plan` | called by the cycle |
| Trading cycle and CLI: `cycle.py`, `run.py` | one process's memory: readings, the plan, the order it is at | `run_cycle`: three refusals, readings, plan, check, submission loop | broker, forecast file, ledger, kill switch file |
| Ledger: `ledger.py` | an append-only JSON-lines file, flushed and fsynced per line | `append`, `records`, `attempted_client_ids`, `orders_attempted_on`, `high_water_mark` | the disk; every run shares the file |
| Brokers: `broker.py` (fake), `alpaca_broker.py` | fake: cash, positions, ids. Alpaca: the paper account, outside the code | `get_account`, `get_positions`, `get_bars`, `get_open_orders`, `submit_order` | the Alpaca REST service |
| Forecast files: `forecasts.py` | one dated JSON file | `write_forecast_file`, `read_forecast_file` | the cycle |
| Holdout protocol: `eval/protocol.py`, `eval/h2.py`, `eval/h3.py` | dev results, a freeze, an exclusive-create marker, results; the git tree and history | `dev`, `freeze`, `holdout` | git, the operator who edits and commits |
| Cloud scoring: `scripts/cloud_score.sh` | VMs, a bucket, local caches | launch, wait, merge, salvage, relaunch, clean up | GCE, GCS, the uploader and finisher on the VM |
| Score caches: `sentiment/archive_scoring.py`, `ingestion/news_archive.py`, `scripts/score_archive.py` | one JSON file per ticker from URL to score | `score_archive`, `merge_caches`, `make_archive_reader` | concurrent scoring processes, the merge |
| News archive: `ingestion/news_archive.py`, `scripts/build_news_archive.py`, `scripts/cron_news_archive.sh` | one JSON file per day | `write_day`, `read_all`, the daily build | news API, cron |
| Walk-forward schedules: `eval/splits.py`, `eval/pooled.py`, `prediction/backtest.py` | none | fold generators | every evaluation |
| Price snapshots and API cache: `ingestion/price_cache.py`, `ingestion/cache.py` | dated snapshots; a best-effort cache with a time to live that nothing uses yet | `cached_sources`, `snapshot_used` | price API, disk |
| Serving: `pipeline/api.py`, `pipeline/run.py`, `sentiment/inference.py`, `utils/retry.py`, `utils/safe.py` | the loaded artifact, FinBERT's two module globals | `predict`, `_ingest` with per-source degradation, retries | source clients, request threads |
| Source clients: `ingestion/*.py` | the folder of downloaded filings | pagination, parsing | external APIs |
| Dataset and features: `prediction/dataset.py`, `features.py`, `regime.py`, `volatility.py` | none | `build_dataset`, `build_feature_vector` | sources, the archive reader |
| Evaluation: `eval/h2.py`, `live.py`, `runner.py`, `pooled.py`, `baselines.py`, `h2_select.py`, `h2_gate.py`, `gate.py`, `multiple.py`, `prediction/backtest.py` | one process's memory: panels, folds, results, the baseline cache | development, holdout, live and backtest runs | datasets, snapshots, the holdout protocol |
| Models, graph diffusion, sentiment aggregation, statistics, training scripts | arrays of floats within one call | numeric | each other |

How they interact. `run.py` is the only caller of `run_cycle`. Nothing in the
program keeps two runs apart: they share the ledger file and the account, and the
documented schedule (one run a week) is the only mutual exclusion. The same is true of
the processes that write one ticker's day files and score cache. The ledger is
at once the audit log and the memory from which the next run rebuilds what was
attempted, how many orders the date has had, and the high-water mark. Orders are
queued for the next session, so between two runs the account changes by itself.
Scoring writes caches that evaluation reads; evaluation's holdout protocol is
guarded by git state that the operator changes while long runs are under way.

What makes these parts correct:

- **Planning and limits**: a plan that passes the check can be executed whole in
  the order it is submitted; it lands on its targets; planning
  again does nothing; the weight leaves room for slippage.
- **Cycle, ledger, broker**: an order that may have reached the broker is in the
  ledger; an order of unknown state is never sent again; two plans never add up;
  daily count, drawdown and kill switch hold over any sequence of runs; the log has
  an outcome for each intent whose run was not killed; every run ends.
- **Holdout protocol**: the holdout is evaluated once, on the frozen selection, by
  the code that made the development results.
- **Cloud scoring and caches**: no score is lost, by a VM, a merge, a crash or an
  interrupt; nothing billable outlives the controller; the time that VMs run is bounded
  by the hour cap.
- **Archive and snapshots**: a day once written stays as it is and has what was
  fetched of it; one report names one snapshot, and its prices are from it.
- **Evaluation**: nothing a forecast or a baseline of a row is made of was known later
  than the row's close; every feature set is scored on the same rows, all of them, and
  against the ticker's own baselines; an edge is a discovery of the correction.
- **Serving**: an optional source that fails degrades the answer and never fails it; a
  forecast is made of its own interval's bars; every request ends.

Where it is hard: crash between two calls and in the middle of a ledger line; a
lost reply; queued, partly filled and expired orders; overlapping processes on one
file; a limit rebuilt from history; check-then-act on a file's existence, and on git state over
minutes; two writers of one temporary file; a VM
that finishes or disappears between two looks at it; threads that load one model;
an interrupt between filling a cache in memory and saving it; a run across midnight;
the last, shorter block of a schedule. The full list, with lines, is
under `hazards` in `PROJECT.json`.

## 2. Modules

| Module | Models | Kind |
|---|---|---|
| `TradePlan` | `config.py`, `signals.py`, `rebalance.py`, `risk.py` | pure operators |
| `PlanExecution` | `run_cycle` against `FakeBroker` | state machine |
| `TradingCycle` | `run.py`, `cycle.py`, `ledger.py`, `alpaca_broker.py`, several runs, market, operator, crashes | state machine |
| `OrderLifecycle` | what the cycle promises about one order id | abstract specification |
| `OneShotClaim` | what the holdout marker promises of each output directory | abstract specification |
| `ScoreStore` | what the score caches promise, on this machine and on a rented one | abstract specification |
| `HoldoutProtocol` | `eval/protocol.py` and the `dev`, `freeze`, `holdout` steps of `eval/h2.py`, git, crashes, the operator | state machine |
| `CloudScore` | `scripts/cloud_score.sh --run`: controller, VM job, uploader, bucket, time | state machine |
| `NewsArchive` | `ingestion/news_archive.py`, `sentiment/archive_scoring.py`, `scripts/build_news_archive.py`, `scripts/score_archive.py` | state machine |
| `Features` | `prediction/features.py`: what each column reads | pure operators |
| `Serving` | `pipeline/api.py`, `pipeline/run.py`, `sentiment/inference.py`, `utils/`, the source clients as they call them, `scripts/train_model.py`; uses `Features` | state machine |
| `WalkForward` | `eval/splits.py` and the schedule of `eval/pooled.py` | pure operators |
| `Evaluation` | a development, holdout, live or backtest run, from the loads to the verdict; uses `Features` and `WalkForward` | state machine |
| `MCPlanExecution`, `MCTradingCycle`, `MCHoldoutProtocol`, `MCCloudScore`, `MCNewsArchive`, `MCServing`, `MCEvaluation` | values of the constants for TLC | instances |
| `TradePlan_proofs` | facts about sums over finite sets and about plans, used by the next three | proofs |
| `PlanExecution_proofs` | `PlansGoThrough`, `PlanningAgainIsEmpty`, `EveryNameOnTarget`, `CashAccountsFit` | proofs |
| `TradingCycle_proofs` | `TypeCorrect`, `WrittenAhead`, `NeverAttemptedTwice`, `CycleImplementsLifecycle`, `HoldingsFollowThePlan`, `NoDateOverBudget`, `NoTradeBelowDrawdown`, `BreachedCycleIsOver`, `OutcomesAreRecorded`, `GlitchesStayOut`, `RunsGetOn` | proofs |
| `Holdout_proofs` | `HoldoutTypeCorrect`, `OnlyThePreRegisteredIsEvaluated`, `FreezesWhatItRan`, `EvaluatedOnce`, `CompletedMeansReported`, `HoldoutImplementsOneShot` | proofs |
| `NewsArchive_proofs` | `ArchiveTypeCorrect`, `CachesStayWhole`, `SuccessIsScored`, `NoScoreIsLost`, `DaysWrittenOnce`, `ArchiveImplementsStore` | proofs |
| `CloudScore_proofs` | `CloudTypeCorrect`, `CloudKeepsScores`, `DoneMeansComplete`, `CleanupLeavesNothing`, `CostIsBounded`, `CloudImplementsStore` | proofs |
| `Serving_proofs` | `ServingTypeCorrect`, `AnswersAreComplete`, `FailuresHaveACause` | proofs |
| `Evaluation_proofs` | `LabelsEndBeforeTest`, `TestsDoNotOverlap`, `EveryRowIsTested`, `ReportsOneSnapshot`, `GateAppliesTheRule`, `NothingLooksAhead`, `EverySetScoredAlike`, `EvaluationTypeCorrect` | proofs |

Definitions with an underscore after the name of another one (`Repeats_AcceptedOnly`
beside `Repeats`) are plausible bugs. Nothing uses them; replacing the original by
one makes TLC report the property it is paired with under `mutants` in
`PROJECT.json`, which shows that the property depends on that code.

### TradePlan

One operator per function or per limit: `Selected` and `EqualWeight` for
`decide_targets`, `PlanOrders` for `plan_orders`, `CheckPlan` and its conjuncts for
`check_plan`. The plan is a set of orders; `SubmittedBefore` is the sort key of
`rebalance.py:78`. Weights are exact fractions and comparisons are cross-multiplied:
the code's floats with a tolerance of 1e-12 have no counterpart, so rounding at the
tolerance itself is outside the model. Tickers are integers in place of strings
compared alphabetically. `ConfigAssumption` is what `TradingConfig.__post_init__`
accepts. `check_plan` raises at its first broken limit; its caller treats all the
same, so the model keeps the conjunction and not the message.

### PlanExecution

Plan, check, and submit in order to a broker that fills at once at the bar price and
refuses what shares or cash do not cover. The state is `FakeBroker`'s fields plus the
orders left. It asks whether the pure functions fit together.

### TradingCycle

One step of a run is one call that leaves the process: a broker request, the read of
the ledger at planning, one append. Computation between two calls belongs to the
step it follows or precedes, because nothing else can observe it. The program counter
names the next call, so the order of `run_cycle` is visible in the guards:

    date, openOrders, account, positions, bars       the broker readings
    forecasts                                        the first ledger line
    planning                                         reads the ledger: refuse, breach or accept
    breach | equity, plan                            ledger lines
    order_intent, submit, order_accepted             once per order
    order_failed                                     the exception goes on; the loop ends

| Code | Model |
|---|---|
| `Ledger.append` (`ledger.py:24-36`), refusing a file whose last byte is not a newline | `AppendLine`, `LedgerRefuses`; a torn line is `torn`, apart from the complete lines `ledger` |
| `attempted_client_ids`, `orders_attempted_on`, `high_water_mark` | `AttemptedIds`, `OrdersAttemptedOn`, `HighWaterMark`: read from `ledger` at planning |
| the refusal of a second attempt (`cycle.py:64-70`) | `Repeats`, `RefusePlan` |
| `check_plan` with the kill switch (`cycle.py:71-85`) | `PassesCheck`, `BreachLimit`, `AppendBreach` |
| submission loop (`cycle.py:101-117`) | `AppendIntent`, `SubmitReceived`, `SubmitDead`, `SubmitRefused`, `AppendAccepted`, `AppendFailed` |
| every refusal and error of a reading | `ReadRaises`, and the guards of `GetBars` |
| the process killed | `Crash`, `CrashTearingLine` |

A write that dies leaves `torn`: a last line that is incomplete, or complete but for
its newline. The code refuses both. `RepairLedger` is the operator who removes the
piece, or completes it; the code leaves the choice to them.

External, modelled from how the code uses it: the paper account. It keeps client
order ids unique, holds accepted orders until the next session, fills any part of an
order at the day's price in any order, expires what is left at the close, and may
lose a reply. Its equity field may be read as a value of `GlitchEquities`, which is
the case `max_equity_mismatch` is there for. The market opens, closes, publishes its
bars and goes to the next day between any two calls of a run.

Variables that no code holds: `planned` and `crashes` are history for
`PositionsWithinPlan` and `OutcomesRecorded`.

### OrderLifecycle

Three sets of ids: attempted, in flight, reached. An id is written down before its
one request is in flight, one request is in flight at a time, no id is attempted
again. The mapping is `attempted <- AttemptedIds` (intents in the ledger),
`inFlight <- InFlight` (the order of the run about to submit), `reached <- known`
(what the broker has seen). A run that finds its order refused, or dies, gives up.

### OneShotClaim

For each output directory: claim it, evaluate once on that claim, and never claim it
again. The only way back is `Forget`, a marker deleted while nobody evaluates and before
a commit could remember it, and it is counted. The mapping is `closed <- Claimed` (a
marker in the tree or anywhere in the history), `inFlight <- Evaluating` (the process
past `claim_holdout`), `seen` the number of evaluations of the directory and
`forgotten <- lost`. So `OneShot` is what the abstraction counts (evaluations and the one
in flight are never more than claims), and the refinement says which step each count is.

### ScoreStore

A map from articles under their tickers to scores that only grows, whose scores are
among those the article may have (`Given`), and a set of keys that were reported as
scored, each of which is in the map. `NewsArchive` and `CloudScore` both implement it:

| Here | In `NewsArchive` | In `CloudScore` |
|---|---|---|
| `store` | the readable caches on disk | the local caches |
| `promised` | the articles read by the scoring runs that ended well | the whole archive once the script ended with "done" |
| `Given` | FinBERT's score, or one of a merged source for that article | one value: scores are not told apart |

A run that checks `ImplementsStore` therefore checks that no score is lost or changed
(`ScoresKept` of both modules) and that success means scored (`DoneIsScored` of the one,
`DoneIsComplete` of the other). These have theorems of their own and no run.

### HoldoutProtocol

One hypothesis in one checkout. The state is the working tree (which version of the
frozen files, and one file per output directory and kind), every commit with its
ancestors, HEAD, and the memory of each process. A checkout of a commit, a commit of
some of the changed files, an edit and a deletion are steps of the operator.

| Code | Model |
|---|---|
| a file that is absent, whole, or cut by a crash | a set of at most one document; `Torn` for the last, which every reader refuses |
| `_require_clean_tree`, `git log --all -- marker` (`protocol.py:67-70, 210`) | `Clean`, `InHistory` |
| `dev` (`h2.py:166-181`) | `StartDev`, `SaveDev`; `DevDoc` takes the hash at the end, as the code does |
| `freeze` (`h2.py:183-193`, `protocol.py:109-161`) | `FreezeSelection`, one step |
| `require_unclaimed`, `verify_freeze`, then the load (`h2.py:195-201`) | `StartHoldout`, `LoadFails` |
| `claim_holdout` (`protocol.py:222-240`) | `ClaimHoldout`, `ClaimRefused` |
| `run_holdout`, `_save`, `complete_holdout` (`h2.py:205-210`) | `Evaluate`, `SaveResults`, `CompleteHoldout` |

Checks that take moments are one step with what follows them; what takes minutes (the
development run, the load, the evaluation) lies between two steps, and everything
else may happen there. A process runs the version it imported when it started,
`loaded`, whatever the tree becomes. `OperatorWaits` says whether the operator leaves
the files alone while a process runs; commits are allowed in either case.

A version of the frozen files stands for all of them and for the constants that the
freeze repeats, and it names what a development run selects: two versions are two
selections. `Clearing` are the versions whose selection passes the materiality rule.

Left out: a second hypothesis in the same directory, the price snapshot and universe
the freeze records, other clones of the repository, rewritten history, ignored files.

`evaluated` and `lost` are history that no code holds: every evaluation of holdout
data, and the markers deleted before they were in any commit.

### CloudScore

One step is one `gcloud` call of the controller, one write of the job to its disk or
to the bucket, or a quarter of an hour. Calls take moments, so time passes only while
the controller sleeps or is gone, and it polls at least once per tick; the 900 s it
waits beyond the deadline are one tick of a four-tick hour.

| Code | Model |
|---|---|
| bucket and uploads (`cloud_score.sh:221-226`) | `MarkBucket`, which writes the bucket down for the trap, then `MakeBucket`, `Upload` |
| `launch_vm` over the zones (`273-312`) | `Launch`, `Create`, `Stockout`, `CreateFails`; `Hours` is the rounding of line 276 |
| `wait_for_vm` (`348-386`), call by call | `LsDone`, `LsFailed`, `Describe` (which may find a status the script does not expect, and die), `Recheck`, `Wake` |
| `salvage_partial` and the loop around it (`408-439`) | `Salvage`, `Seed`, `Retry`, `GiveUp` |
| fetch, `verify_and_merge`, `merge_caches` | `Fetch`, `Verify`, `MergeTicker`, `MergeRaises`, `Finished` |
| traps and `cleanup` (`110-152`) | `Interrupt`, `DeleteVm`, `DeleteBucket` and `List`, or `NothingMarked` when there is nothing written down; `Kill` runs no trap |
| the startup script on the VM (`229-268`), `score_archive` | `Boot`, `Flush`, `ScoreDone`, `JobFails`, `Rsync`, `Pack`, `Finish`, `Halt` |
| preemption, `--max-run-duration` with termination action DELETE | `Preempt`, `Due`, `Vanish` |

A cache is the set of urls it has scores for; the values matter to `Verify` only,
whose outcome is a choice. Any call may fail, `MaxFaults` times altogether: a failed
listing reads as "not there", a failed upload in `salvage_partial` goes unnoticed
because `set -e` is off in a function whose status is tested, a failed create may have
made its VM or bucket, and other failures end the script. A preempted VM goes on for
moments before it is gone, so two VMs can write to the bucket at once.

Left out: argument and secret checks (a refusal there has created nothing), the dry
run, and which files in TMP are kept for inspection. A VM that is repaired or resumed
by the provider after the script gave it up for lost is not modelled. Nobody else
writes the local caches meanwhile; what other processes do to them is `NewsArchive`.

### NewsArchive

Processes that build day files, score, merge or read (an evaluation's archive reader,
which scores what is missing and saves it). One step is one look at a file, one file
opened, one file written, one file renamed, or one batch of scores; any process may be
interrupted (`KeyboardInterrupt`), fail to write, or be killed between two of them.

| Code | Model |
|---|---|
| `build`, `write_day` (`build_news_archive.py:67-89`, `news_archive.py:61-73`) | `StartBuild`, `SkipDay`, `CheckDay`, `OpenDay`, `DumpDay`, `EndBuild`: a day that exists is skipped, and a day file is looked for, opened and written in place |
| `_save_score_cache` (`news_archive.py:113-122`) | `OpenTmp`, `DumpTmp`, `Rename` (`Replace`, or `ReplaceFails` when the file is gone), from wherever it is called |
| `score_archive` (`archive_scoring.py:34-113`) | `StartScore`, `Load`, `Todo`, `ScoreBatch`, `ScoredAll`, `ScoreFails`, `Flush`, `EndFlush`; `New` is what a flush puts into a cache, from this run's scores (`Fresh`) or from another ticker's cache |
| the `finally` (`:111-112`) | `EnterFlush` with how the run ends after it: when all is scored, when a call raises, and in `Breaks` after an interrupt |
| `merge_caches` (`:116-144`) | `MergeTicker`, one ticker at a time; it refuses an incoming cache that is corrupt or holds an invalid score (`IsValid`) and one that disagrees (`Agrees`), perhaps after it saved another ticker |
| `make_archive_reader` | `StartRead`, `Serve`, `EndRead` |

A file is a set of at most one document, `Torn` from the open that truncates it until
it is written. Every process names a ticker's temporary file alike, so two writers may
have it open together: the second open truncates what the first has, the text of one
goes over that of the other and may leave the end of that behind (`Dumped`), and a
process that has the file open when another renames it goes on writing into the cache
itself (`file`, `Renamed`), or into a file that has no name any more. The one that comes
second finds nothing to rename, and `os.replace` raises. One simplification: text is
written in one step, so a process that is interrupted while it writes has written
none of it, which leaves the same file, torn, unless another writer had already put its
own text there.

`WritersApart` says whether the operator and cron keep the writers of one ticker's files
apart: one builder of its days, one process that fills its cache. Nothing in the code
does. With it, processes on different tickers still share articles and overlap, and
builds run beside everything else; section 3 says what holds and what fails without it.
An article belongs to one day and its text never changes under its URL. A builder
fetches what was published by then, so a build during a day is a build before the day's
next article.

### Features

Floats are left out. An observation is a record of its source, the stamp it is looked
up by (`at`) and the moment it is known (`known`); a column is the set of observations
it was computed from, `NaN` when the window is too short, empty when it is neutral.
`UpTo` is the slice `series.loc[:as_of]`, so the filter works on stamps, as in the
code, and whether a stamp tells when a value is known is for the caller to get right.
`FeatureVector` is `build_feature_vector`, `Complete` is what estimators require.

### Serving

| Code | Model |
|---|---|
| `train_model.py`, `QuantileReturnModel.save` | `Train`, `SaveModel` (the file is truncated, then written), `TrainerDies` |
| `lifespan` (`api.py:49-67`) | `Start` |
| `PredictRequest`, `predict` (`api.py:87-144`) | `Ask`, `Fails`, `Step`; an error inside the pipeline is status 502 |
| `_ingest` (`run.py:85-172`), `retry_call`, `safe_fetch` | `Fetch`: one attempt at one source; `Attempted`, `GivesUp`, `Takes` |
| `_load_model` (`inference.py:44-56`), statement by statement | `Check`, `LoadTokenizer`, `LoadModel`, `MoveModel`, `ReturnModel` |
| `score_batch`, `_features`, `_predict` | `Forward`, `Vector`, `Served`, `Predict` |

The two globals of `inference.py` belong to the process and every thread reads and
writes them between any two statements of another: a thread may find a model that
another has assigned and not yet moved to its device. `stuck` is history: a move
failed, and the model stays where it is for good. A request goes through the intervals
of its horizons one after the other; each asks every source again, and one that fails
fails the whole request. The folder of filings grows: a request also sees what others
downloaded. Facts the model made visible: no regime classifier is ever passed when
serving, so that column is always neutral; a Google Trends answer that is too short
makes a column undefined, so an optional source that answers can fail a request where
one that is down cannot (`FailsForCause` names the case).

### WalkForward and Evaluation

`WalkForward` gives both schedules as functions from the fold's number to its training
and test positions, for any sizes. `Evaluation` is one process: a list of tasks (load a
ticker, name the snapshot, walk a feature set), then the judgement.

| Code | Model |
|---|---|
| `build_dataset` and its refusals | `Load`, `Frame`, `Refused`; `run_backtest` differs in `AsOf`, `TrendsSeries`, `SectorReturns` and `Regime` |
| `cached_sources` (`price_cache.py:44-86`) | `FetchedFrom`, `Mixed`: each fetch uses the snapshot of the day it is then; a load takes from `began` to `ended` |
| `truncate`, `pooled_walk_forward`, `evaluate`, `walk_forward` | `Cut`, `Unsound`, `Begin`, `FitAndForecast`, `Finish` |
| `make_baselines`, the baseline cache | `Baselines`, `Realised`, `Short`, `CacheKey` |
| `select` | `Select`: scores are a choice, the tie-break and materiality are the code's |
| `apply_h2_gate`, `apply_gate`, `benjamini_hochberg` | `Reject`, `Compare`, `Conclude`, `BenjaminiHochberg`: p-values and coverages are a choice, everything decided from them is the code's |

Time is counted in thirds of a day, so that a bar's stamp, its close and the evening
after it are three moments. A number is abstracted to the latest moment of what it was
computed from: what a fold has learned is `walk.taught`, a forecast is its row and that
moment. One model stands for each feature set (`none` is the control, which reads no
feature), so the eight candidates of `select` are two here, one with news and one
without; which of a kind is best is one choice of a score, and no property is about it. `EndWalks` forgets what the judgement no longer reads.

## 3. Runs

Runs that pass:

| Run | Instance | Checks |
|---|---|---|
| `plan_execution` | 2 tradable names and one outside the universe, 0 to 4 shares each, prices 4, 7, 10, four kinds of forecast, four cash levels | `NoRejection`, `LandsOnTarget`, `ReplanIsEmpty`, `FromCashNeedsNoMargin` |
| `trading_cycle` | 2 runs one after the other, 2 dates, 2 names, two price scenarios, one crash, a glitched equity reading | `WriteAhead`, `AttemptedOnce`, `PositionsWithinPlan`, `DailyOrderLimit`, `DrawdownHeld`, `GlitchNeverRecorded`, `OutcomesRecorded`, `BreachStopsCycle`, `ImplementsLifecycle`, `CallsRunOut`, types |
| `concurrent_runs` | 2 runs that overlap, one name, one crash, the kill switch file appearing and disappearing at any moment | `RunsEnd` under fairness |
| `holdout` | 3 processes, 2 versions of the code of which one clears, one directory, 4 commits, one crash, one deletion, `OperatorWaits` | `OneShot`, `EvaluatedAsFrozen`, `CompletedIsReported`, `FrozenByItsCode`, `ImplementsOneShot`, types |
| `cloud_score` | 2 attempts, 2 zones, 2 tickers of which one is scored already, `--max-hours 1`, one failing call anywhere, signals, SIGKILL | `ImplementsStore`, `LeavesNothing`, `RunTimeBounded`, types |
| `cloud_ends` | 2 attempts, 1 ticker, no failing call, signals, SIGKILL | `EverythingStops` under fairness |
| `archive` | 3 processes of any kind, `WritersApart`, 2 tickers, 2 articles of one day of which one is carried by both tickers, batches of one text, a flush every two, a merged cache that agrees, differs or is invalid for one ticker, one interrupt, one crash | `CachesWhole`, `ImplementsStore`, `RawWrittenOnce`, types |
| `serving` | 2 requests in 2 threads, over one or two intervals, 7 sources, 2 attempts at each, a GPU, one training run, two starts | `AnswersWhatItCan`, `FailsForCause`, `EveryRequestEnds` under fairness, types |
| `evaluation` | the four kinds of run over 4 tickers and 23 days, 19 sets of histories of which at most one source is unusual, a midnight during the loads | `NoLookAhead`, `ScoredAlike`, `OneSnapshot`, `GateJudges`, types |

Why these bounds. *plan_execution*: price 4 is below `MinPrice`, a share of 7 or 10
is larger or smaller than the band for the equities that occur, and two names are
what a buy paid for by a sell needs; a third name held outside the universe reaches
the refusal. *trading_cycle*: the forecasts rotate between the two names, so a plan
sells one and buys the other; on the second date both the repeated trade and the
opposite trade are possible; the halved price of name 2 takes equity past the daily
and the drawdown limit; two orders a date against `MaxOrdersPerDay = 2` puts a run
after a half-failed one at the limit. One crash is enough for every cut of one run
followed by a complete one. The prices and shares are small, so that every quantity
of a partial fill is tried. The kill switch breaks its limit through the same steps as
the other limits, and its file would double the states at every step, so *trading_cycle* does
without it; *concurrent_runs* and the theorem `BreachedCycleIsOver` have it. *concurrent_runs* drops to one name because both runs interleave at each
call; a plan of one order has all the calls. *holdout*: three processes are a development run and two holdouts, which
overlap or follow each other after a crash; four commits are the first one, the
development results, the freeze, and one for a marker, an edit or a second freeze. The
crash cuts any file; the deletion takes a marker or a freeze. Directories do not
interact (`OneShot` is stated for each), so one is enough. *cloud_score*: the second attempt has everything a retry has
(seeded caches, a VM of the first that is still stopping, markers left behind, less than
a whole hour); one ticker that is scored and one that is not make a half-copied bucket
and a half-done merge differ from whole ones; one failing call, together with signals
and preemption, gives every failure followed by the script's reaction. `MaxClock` lies
beyond the last moment a VM can run. `cloud_ends` is apart because liveness needs the
whole graph at once. *archive*: a shared article makes a flush copy a score from one
cache to another and makes two caches of one run differ; two texts are one periodic
flush and the last one; three processes are a builder, a scorer and a merge or a reader
beside each other or in a row; one crash and one interrupt cut any save. *serving*: one
request meets failing and short prices, the other failing returns and filings and no
news, so the two differ in every step; a window of two bars with a short answer of two
has an undefined column and a full answer of three has none; two attempts are a retry
and a give-up; two starts serve an old and a new artifact. *evaluation*: two steps ahead,
three training dates and a refit every four give two folds to a development run, of
which the last is the shorter block, and four to a holdout run; the development end and the holdout start lie inside a fold;
histories begin late, end early, have a gap or a hole, the VIX has a gap, begins late,
ends early or is missing, news is missing or rare, search interest is weekly or stale;
three usable rows of a ticker are what the gate asks for, and two tickers; the p-values
are one below every threshold, one that only the monotone step makes a discovery, and
one that never is.

Deadlock checking is off throughout: a finite set of runs ends, and that is the end
of the model; so do the bounds on commits, deletions and crashes, and an evaluation. That runs do not get stuck on the way is `RunsEnd`.

Fairness. `RunsEnd` assumes weak fairness of each run's own steps: each call to the
broker returns or raises (the clients have timeouts), and a process that is not
killed goes on. Nothing is assumed of the market, the operator or of crashes. It
holds on a torn ledger too, because the ledger refuses and the run exits.
`EverythingStops` assumes weak fairness of the controller (calls return) and of the
provider's deletions, and strong fairness of time: the controller is asleep again and
again, and a clock that may advance then does. Nothing is assumed of the job.
`EveryRequestEnds` assumes `KeepsRunning`: a thread of the server's pool goes on while
its request runs. Each step of a request is enabled until its end, so that is weak
fairness, written without `ENABLED` as "stops running or keeps taking steps". Calls to
sources return or raise. Nothing is assumed of the other threads: `_load_model` has no lock to wait for.

Symmetry: runs and processes are interchangeable. It is used in the runs without
liveness.

Runs that show where a statement in the repository does not hold (`findings` in
`PROJECT.json` has the quotations):

| Run | Statement | What happens |
|---|---|---|
| `hour_cap` | `cloud_score.sh:50, 218`, `docs/scoring.md:64-65`: `--max-hours` is a hard cap on the run time of all VMs | a VM gets whole hours, rounded up, and the controller waits 900 s past the deadline; a second VM without a controller runs five quarters of an hour under a cap of one. `RunTimeBounded` is the bound that holds |
| `lost_update` | `archive_scoring.py:122`: "Local entries are never lost"; `docs/scoring.md:91` | a reader and a merge fill one cache at the same time; the later save drops what the earlier one added |
| `interrupted_flush` | `archive_scoring.py:112`: "an interrupt or error keeps every score computed so far"; `docs/scoring.md:7-8` | a periodic flush fills the cache in memory and then saves it; interrupted in between, the last flush finds the scores in memory, takes them for saved and drops them |

### Known divergences without a run

Each of these was found with the modules here, by the instance it names, and is left
without a run because another run asks more of the same component.

- *A full plan may fail the cash check.* `signals.py:34-37` says the weight leaves room
  "so a full plan still passes the cash check". A name above its target but inside the
  band keeps the cash the other buy was sized with: `FullPlanPassesCashCheck` as an
  invariant of `PlanExecution`.
- *The next run does not stop.* `docs/trading.md:71-73` says that after a crash mid-cycle
  "the next run stops". Ids carry the market date, so a run on another date has other ids
  and goes on: `NextRunStops` with one crash and `MaxDay = 2`. What goes out is planned from
  the real positions (`PositionsWithinPlan`).
- *Two overlapping runs attempt one order.* `cycle.py:35-37` refuses when a planned order
  was already attempted; both read the ledger before either writes its intent:
  `AttemptedOnce` with `Serial = FALSE`. The broker's unique ids still keep the order
  from being placed twice, and `WrittenAhead` is proved without `Serial`.
- *A failed job is retried.* `cloud_score.sh:346-347`: real failures die, a loss is a VM without
  a result. A job that fails after the look at FAILED has stopped its VM by the next look;
  only DONE is looked for again (`:367`), and another VM is paid for: `FailedIsFinal` on the
  instance of `cloud_ends`, under `Spec`.
- *A torn cache.* `news_archive.py:114`: "an interrupted run never leaves a torn cache". The
  temporary name depends on the ticker only, so one writer renames what another has just
  truncated: `CachesWhole` on the instance of `lost_update`.
- *A day written twice.* `news_archive.py:63-64`: "`data/raw` is never overwritten". Two
  builds both find no file for a day, and the second truncates what the first wrote:
  `RawWrittenOnce` on the instance of `lost_update`.
- *Articles a later build skips.* `cron_news_archive.sh:5-6`: "re-running is safe". A build
  during a day, as the example crontab at 06:30 has it, freezes the day's file; a later
  build fetches the rest of the day and skips it: `FetchedIsArchived` on the instance of
  `archive`.
- *Code changed since `dev`.* `docs/protocol_h2.md:140-141` has freeze refuse it; `dev`
  hashes the files when it ends, so a version that replaced the one that ran is recorded
  as its own: `FrozenByItsCode` with `OperatorWaits = FALSE`.
- *A marker that was ever committed.* `docs/protocol_h2.md:144-145`; history is read
  before the load, so a process that was loading claims after the marker was committed
  and checked out of the way: `OneShot` and `ImplementsOneShot` with `OperatorWaits = FALSE`. Under
  `OperatorWaits` the `holdout` run shows this statement and the last one to hold.
- *An answer without forecasts.* `docs/deploy.md:48-50` and `api.py:10-12` say the
  server fails fast "instead of silently returning empty predictions on the first request";
  they speak of a missing or unloadable artifact. The artifact of `train_model.py` never has `1h`; a request for
  `["1h"]` is answered with no forecast and status 200. `AnswersWhatItCan` states what
  does hold.
- *The backtest looks ahead.* `backtest.py:99-101` says it does not. Its folds have no
  embargo (`:131-136`), so the last labels of a training window end after its first test
  row (`BacktestNoLookAhead` with `Kinds = {"backtest"}` and `Worlds <- MCPricesAndNews`); its
  regime classifier is fit on the whole VIX series (`:283-288`) and its search values are
  stamped when their week starts (`:257-260`). `NoLookAhead` fails for `kind = "backtest"` by
  each of the three alone, and says so by leaving it out.
- *The regime when serving.* `train_model.py:78-80` saves the regime classifier beside
  the model "so serving can compute the same `regime_label`"; nothing under `src/pipeline`
  loads it, and `run.py` passes neither it nor the VIX, so a model trained with `--use-vix`
  is served the neutral label. `Vector` in `Serving` has no regime to read.
- *A ticker with no scored rows.* `docs/protocol_h2.md` removes a ticker with too few
  rows from every criterion and lists it; with none, `pooled.py:183-184` raises, and the
  one-shot marker is already claimed. `Finish` with verdict `norows` on `EndedEarly`.

## 4. Proofs

Assumptions on constants stand where the constants are declared, and every TLC run
evaluates them:

| Assumption | Says | Why the code justifies it |
|---|---|---|
| `TickersAssumption` | finitely many tickers, a non-empty universe among them | the universe file is a list, and an empty one is refused |
| `ConfigAssumption` | ranges of the limits | `TradingConfig.__post_init__` |
| `ExecutionAssumption` | prices are positive, holdings are whole | `FakeBroker` is long-only, `Bar` prices are of trades |
| `CycleAssumption`, `HoldoutAssumption` | types of the instance | |
| `ArchiveAssumption` | finitely many articles, each of one day; batch and flush sizes are positive | an archive is files on a disk |
| `ServingAssumption` | requests are distinct from the value for none, a request asks for a list of horizons, times and limits are natural numbers | they are Python objects, lists and counters |
| `EvaluationAssumption` | a non-empty list of tickers; bars lie in the days up to `Today`; sizes are positive; a search value is stamped no earlier than it is known once it is lagged (`TrendsLag >= Week`); the rate of false discoveries is below the p-value that marks a lower loss | the universe file is a list and an empty one is refused; bars are dated; the defaults and their checks in `splits.py` and `pooled.py`; `TRENDS_AVAILABILITY_LAG` is seven days and a value covers a week; `max_fdr` and the one-sided test of a mean below zero |
| `CloudAssumption` | deadline, attempts, zones and limits are positive | the argument checks of the script, `ZONES` is not empty |

Three constants are hypotheses of theorems and appear in their statements. `Serial`:
no two trading runs overlap. The code does not ensure it, the documented schedule
does; without it `AttemptedOnce` is false. `OperatorWaits`: nobody edits or checks
out files while a process of the holdout protocol runs; without it `OneShot` and
`FrozenByItsCode` are false. Section 3, known divergences, has both. `WritersApart`: one process at a
time writes a ticker's day files, and one its cache. The code does not ensure it either;
without it `ScoresKept`, `CachesWhole` and `RawWrittenOnce` are false (`lost_update`, and known
divergences). One theorem has a
hypothesis about states, `GlitchesDetectable` (below). Nothing else is
assumed: crashes, torn lines, repairs, partial fills, scoring processes that overlap on different
tickers, failing calls and signals are all in the specifications the theorems are about. The
theorems about schedules take their sizes in their statements.

Every proof of `Spec => []P` has one shape: an invariant that the first state has, that
every action keeps (one step per action, one below it per conjunct it can disturb) and
that implies `P`. What follows is the invariant each needs and why `P` alone is not kept.
TLC checked each of these invariants on the instance of its run before it was proved.

### One rebalance (`TradePlan_proofs`, `PlanExecution_proofs`)

`TradePlan_proofs` first shows that `MapThenSumSet`, a fold in an order fixed by
`CHOOSE`, adds up a finite set in any order: a sum splits at any element, grows with
its terms, and is the same for equal terms. There is no induction over data here: each
fact about all finite sets is proved from a smallest counterexample, a set none of
whose strict subsets is one. Then come the facts about plans: quantities are positive
and whole, one order per name, a name inside its band gets none.

`PlansGoThrough`, `PlanningAgainIsEmpty`, `EveryNameOnTarget` and `CashAccountsFit` share
`ExecutionInv`. Its heart is `PlanIsCurrent`: while orders are being sent, what is left
of the plan is exactly the plan that the account in hand would get. A fill at the
planning price moves value and makes none, so equity and with it every target stays;
it puts its own name on target, so it leaves the plan; and it changes no other name.
Hence a finished rebalance plans nothing. `StillCovered` carries the two limits of
`check_plan` that later orders rely on: sells are covered name by name, and the cash
left at the end is not negative. Since sells go first, no buy before the end can be
short either (`PlansGoThrough`). `CashAccountsFit` is the arithmetic of the weight: n names
of `GrossTarget / n` each, bought at a price raised by the slippage buffer, cost no more
than the equity, for any n and after each quotient is rounded down.

### The trading cycle (`TradingCycle_proofs`)

- `TypeCorrect == Spec => []TypeOK`. It says every
  order has a positive whole quantity and every line is a record that can be read
  back, hence that `PlanOrders` never yields a zero or negative order for any
  configuration.
- `WrittenAhead == Spec => []WriteAhead`, without `Serial`: overlapping runs, any
  number of crashes and repairs. `known \subseteq AttemptedIds` is not inductive:
  the step that makes an id known does not write. `WriteAheadInv` adds
  `SubmitIsWritten`, that the current order of a run about to submit is already in the
  ledger. That one survives because the ledger only grows (`LedgerGrows`), the current
  order of a run is unique (`CurrentIsUnique`) and no run touches another's orders
  (`OthersStay`).
- `NeverAttemptedTwice == Serial => (Spec => []AttemptedOnce)`. The check for repeats
  is made once, at planning, and the intents come later. What carries it over that gap
  is `AttemptedOnceInv`:
  - `OneActive`: no other run appends in between. This is where `Serial` is used.
  - `TodoPlanned`: only a run past planning has orders, at most one per ticker, so
    two orders of one plan never share an id.
  - `TodoFresh`: an order still to be sent is not in the ledger, except the current
    one after its intent.
  - `TornBlocks`: while the last line is torn no run is past its first append, so
  - `TornFresh`: the id on a torn intent is new, and an operator who completes the
    line by hand repeats nothing.
- `CycleImplementsLifecycle == Serial => (Spec => ImplementsLifecycle)`: the refinement
  of `OrderLifecycle`, step by step: intents attempt, submissions that arrive reach,
  refusals and crashes give up, a torn intent that is completed attempts without a
  request in flight, and everything else stutters.

The limits, all under `Serial` and all on top of `AttemptedOnceInv`:

- `HoldingsFollowThePlan` (`PositionsWithinPlan`). `PlanBoundInv` looks at `Open`, the orders
  pending at the broker together with those an accepted plan has still to send: one per
  name, in one of the two places, and inside the plan when it fills whole. That a new
  plan starts from the real holdings is `NothingOpen`: a run past the question for
  open orders has none, and what it read is still so.
- `NoDateOverBudget` (`DailyOrderLimit`). The limit is checked against the ledger once,
  and orders reach the broker one by one. `BudgetInv` bounds all ids of a date that are
  written, planned, or on a torn intent that a repair may complete; what is known at the
  broker is among them by `WriteAheadInv`.
- `NoTradeBelowDrawdown` (`DrawdownHeld`). `DrawdownInv`: the equity a run is about to
  record, and one on a torn line, is within the limit of all that are recorded.
- `BreachedCycleIsOver` (`BreachStopsCycle`). `BreachInv`: since the last forecasts line, a
  run that trades has seen no breach and a run that is planning has written no trade, and
  the same would hold of the torn line once it is repaired.
- `OutcomesAreRecorded` (`OutcomesRecorded`). `AuditInv`: an outcome follows its own intent,
  and the intents without one, a torn intent included, are at most as many as crashes and
  busy runs. A crash while an intent is written is the step that needs the torn one
  counted: the repair adds an intent that nobody is busy with.

Two more hold without `Serial`, for any overlap of runs:

- `GlitchesStayOut == Spec /\ []GlitchesDetectable => []GlitchNeverRecorded`. A wrong equity
  figure that is within `max_equity_mismatch` of the marked value is no different, to
  `check_plan`, from a correct one, so the theorem is about the others:
  `GlitchesDetectable` says that whenever a run is planning, each glitched figure would be
  refused beside the positions and prices the run read. It is about the run's own
  readings and not about the ledger, so it does not contain the conclusion: what is
  left to show is that every real cycle passes the check before it records, that the
  figure recorded is the one that was checked although other runs and the market go on
  in between, and that a torn line, once repaired, is one too (`NextGlitchFree`). TLC finds
  `GlitchesDetectable` to hold in all 789,999 states of the instance of `trading_cycle`,
  where the glitch is real: without the equity check `GlitchNeverRecorded` fails.
- `RunsGetOn == Spec => CallsRunOut /\ []CallsBounded`. This is the part of `RunsEnd` that
  needs no fairness. `CallsLeft` is a rank: three calls for each order still to be sent,
  and a place in the readings before. Every step of a run lowers it, refused and lost calls
  included; no crash, repair, market day or step of another run raises it; and it is
  never above `3 * MaxOrdersPerDay + 10`. What remains for TLC is that a run
  that may go on does. The bound needs `PlanWithinDay`: a plan that passed the check has no more
  orders than the day's limit, and the loop only takes orders away.

### The holdout protocol (`Holdout_proofs`)

- `HoldoutTypeCorrect == Spec => []TypeOK`: each file holds a document of its kind or
  a torn one, so a completed marker names the commit of a freeze.
- `OnlyThePreRegisteredIsEvaluated == Spec => []EvaluatedAsFrozen`, without `OperatorWaits`.
  It is not inductive: the evaluation comes minutes after the
  checks, when the tree may be different. `PreRegisteredInv` carries the fact from the
  freeze to the evaluation:
  - `FreezesNamed`: a freeze, in the tree or in a commit, names a commit whose code and
    development results are those it froze. This is where the clean-tree check is
    used, and it survives because commits are never changed (`CommitsKept`).
  - `MemoryNamed`: the freeze a holdout process read is one of those, and the code it
    runs is that of the commit, which is what `verify_freeze` compares.
  - `EvaluatedNamed`: so is each evaluation.
- `FreezesWhatItRan == OperatorWaits => (Spec => []FrozenByItsCode)`. `FrozenInv`: a process at
  work runs the version that is in the tree (`RunsTheTree`), and the development
  results and freezes, in the tree and in every commit, are of one version each
  (`OneVersion`).
- `EvaluatedOnce == OperatorWaits => (Spec => []OneShot)`. `ClaimInv`: a process that is still
  loading found no marker in the tree and none in any commit, so one that another process
  claims meanwhile stops it (`LoadingInv`); at most one process holds the claim of a
  directory, and it has not evaluated yet (`HolderInv`); an evaluated directory has its
  marker, in the tree or in a commit, or its deletion was counted (`SavedInv`).
- `CompletedMeansReported == OperatorWaits => (Spec => []CompletedIsReported)`. `ReportedInv`
  follows the results between their save and the completion of the marker, where a
  commit may carry them off and a checkout may bring back others.
- `HoldoutImplementsOneShot == OperatorWaits => (Spec => ImplementsOneShot)`, the refinement of
  `OneShotClaim`, on top of `ClaimInv`. `ClaimHoldout` claims, `Evaluate` evaluates, a crash
  of the process in between abandons, the deletion that `lost` counts forgets. A commit,
  a checkout, an edit, a torn file and every other step stutter: a marker goes from the
  tree to the history and back, and its directory stays closed throughout.

### Caches (`NewsArchive_proofs`)

Every theorem of this module has the form `WritersApart => (Spec => ...)`.
`ArchiveTypeCorrect`, `CachesStayWhole`, `SuccessIsScored`, `NoScoreIsLost` and
`DaysWrittenOnce` share `ArchiveInv`, which is mostly about memory. A save writes a whole
cache, so nothing is lost only if what a process holds still has everything that is on
disk: `CacheLinked`, from the load of a ticker (`HasLoaded`) to the rename of its temporary
file. It survives the steps of other processes by `OneWriter`: while a process
fills a ticker's cache no other does, which is where `WritersApart` is used, and so its
temporary file is its own. `Accounted` follows each article of a scoring run: it is still to be scored,
scored, or known under some ticker, and when the last flush has passed a ticker nothing
of it is missing; `SuccessScored` is what remains of that after the process has ended.
`RawLinked` says that a day torn by a builder at work is its own to finish, and that a
day it found missing still is when it opens the file.

`ArchiveImplementsStore == WritersApart => (Spec => ImplementsStore)` needs one thing more:
where scores come from. `Provenance` says that each score on disk, in the memory of a process or in a source
being merged is one its article may have; a flush that copies a score from one ticker's
cache to another's keeps it because both are of one article. Steps then map to
`Write` (a temporary file renamed over a cache) or `Promise` (the last flush has passed the
last ticker), and `CacheLinked` and `Accounted` give what those two ask.

### Cloud scoring (`CloudScore_proofs`)

- `CloudTypeCorrect`, and `CloudKeepsScores`: a merge only adds.
- `DoneMeansComplete` (`DoneIsComplete`). `DoneInv` follows a complete result from the disk it
  is packed on, through the bucket and the download, to the tickers merged so far. A
  salvaged or half-copied cache is never on that way.
- `CleanupLeavesNothing` (`LeavesNothing`). `TrackInv`: a VM that exists is in the list the trap
  works through, written before the create is called; what is still there when the
  trap lists again took a call that failed.
- `CostIsBounded` (`RunTimeBounded`). The time of all VMs is a sum over attempts. `TimeInv` makes
  it a bound on the clock: at most one VM is neither stopped nor on its way out, so `ran <= clock`,
  and the clock goes past the deadline only as far as the grace, or, without a
  controller to delete it, to the end of the last VM's `--max-run-duration`.
- `CloudImplementsStore == Spec => ImplementsStore`: a merge of one ticker is a `Write`, the
  exit after "done" is the `Promise`, which `DoneInv` honours, and everything else stutters
  (`GoneStays`: nothing is promised twice or taken back).

### Serving (`Serving_proofs`)

- `ServingTypeCorrect`, and `AnswersAreComplete` (`AnswersWhatItCan`). `ServingInv`: what a
  request has gathered is what its sources gave for the interval it is at, from bars of
  that interval up to the request (`GatheredOwn`); each horizon that was asked for and
  trained has its forecast or its interval is still left (`Progress`). That every interval
  is reached once needs `RanksAreANumbering`: the order in which a set is worked through
  is a numbering of it, whatever order that is.
- `FailuresHaveACause` (`FailsForCause`), an action property: one lemma per action says
  when it may fail a request, and `BertKnown` says what the two globals of FinBERT can
  hold together, so that a thread finds the half-moved model only while another moves
  it or after a move that failed.

### Evaluation (`Evaluation_proofs`)

- `LabelsEndBeforeTest`, `TestsDoNotOverlap`, `EveryRowIsTested`: for every number of
  rows and every size, in the pooled schedule each fold's last training label ends
  before its first test row, no row is tested twice, and none between the first test
  row and the newest is left out. A fold of the schedule is a regular one or the short
  last one (`FoldForm`), and blocks of one size that start later end later, which is the
  one fact about products the solver needs stated.
- `ReportsOneSnapshot` (`OneSnapshot`). `RunInv` is about the tasks left: every ticker without
  a frame still has its load among them, and in a pooled run no load comes after the
  question for the snapshot, so a ticker loaded after midnight is never behind it. The
  live run asks last, in `Conclude`.
- `GateAppliesTheRule` (`GateJudges`). The code multiplies, divides, rounds and makes
  monotone; the rule counts. `AdjustedWithinRate` relates them: an adjusted p-value is
  within the rate exactly if some rank at or above its own satisfies the rule's
  inequality, and the rounding never crosses the rate because the p-values are kept
  `Exact` times as large (`RoundingIsExact`). `AdjustmentIsStepUp` follows for every set of
  p-values; `GateInv` ties it to the comparisons of a run, in their order.
- `NothingLooksAhead` (`NoLookAhead`) and `EverySetScoredAlike` (`ScoredAlike`). Neither
  is inductive: both are about what a walk has collected, and say nothing of how the
  next fold will choose its rows. `WalkInv` adds it, and TLC has checked it on the
  instance of the run. Frames are what `build_dataset` gives for the loaded histories
  and were not refused (`Loaded`); after some folds a walk has scored exactly the rows
  due in their test positions (`Walking`); a finished result has the rows due, and a
  cached baseline is that of the rows its key names, which holds because the key names
  the ticker too (`RightRows`). The argument then goes:
  - `FoldsCover`: both schedules test every position of their range once, in order, and
    train at least the gap before it. `FoldScoresMore` and `OverScoresAll` turn this
    into rows: a walk that is over has scored what is due, whatever its feature set.
  - `LabelsEndBeforeRow`: labels are counted in bars of the ticker and folds in dates of
    the pooled calendar. A label that ended at the first test row or later would have
    more bars of its ticker between than the gap has dates. A complete frame leaves out
    no bar after its first row (`BarsFromARow`), so the calendar has them all.
  - `ColumnsKnown`: each feature column reads what is known by the row's close. For
    search interest this needs the assumption that the lag is at least a week.
  A backtest is left out, as the property leaves it out (see above: it does look ahead).
- `EvaluationTypeCorrect` (`TypeOK`) is the conjunction of what the three invariants say of
  the structures. That `fold` stays below `Today` comes from the schedules: fold `k` has a
  test position, and a calendar has no more dates than there are days.

### Only model-checked

- `RunsEnd`, `EverythingStops`, `EveryRequestEnds`: liveness under fairness is outside the
  prover. `RunsGetOn` proves of the first what can be said without fairness.
- The properties of the three runs that expect a violation.

## 5. Plan

What remains, in this order:

1. The price snapshot and the universe that a freeze records, composed of `Evaluation`
   and `HoldoutProtocol`.
2. `eval/h3.py` and the comparison of the two pipelines (H2b).
3. What two writers of one cache cannot break: that a cache which can be read holds only
   scores its articles were given, without `WritersApart`.

Every safety property that a passing run checks has its theorem. Theorems still worth
proving: a bound like `RunsGetOn` for the requests of `Serving`; the invariants of what items
1 to 3 add.

## 6. Not modelled, and why

- Cash at the broker: orders queue for the open and fill in any order, so a buy may fill
  before the sell that pays for it, or above its buffered price. Whether the account
  then borrows is the broker's affair; `FromCashNeedsNoMargin` is about the plan.

- The values of features, models, statistics, graph diffusion and sentiment aggregation:
  floating point over long arrays in one sequential call. What they read, when they
  refuse and what is decided from them is modelled; the numbers are choices.
- H3 (`eval/h3.py`), H2b (`compare_pipelines`), the thesis comparison of the live run,
  volatility targeting and the synthetic data set: further statistics over the same walks.
- `price_cache.py`: dropping the bar that is still forming, and the writing of a snapshot
  file (a temporary name per process, then a rename). `ingestion/cache.py`: used only by
  its own test.
- `--since`, `--max-articles` and `--verify` of the scoring script.
- Source clients: pagination and parsing. What they hand to the serving pipeline is in
  `Serving`; Alpaca and Alpha Vantage news are left out.
- `calibrate_graph.py`: sequential, one output file. `train_model.py` saves the regime
  classifier after the model; nothing reads it when serving, so a crash between the two
  is not a step.
- Forecast file parsing: a file that does not parse ends the process before it acts,
  so the model starts from well-formed files; crossed quantiles, which `decide_targets`
  refuses, are in `PlanExecution`.
- Operator errors inside the ledger file other than the torn last line.
