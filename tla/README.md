# TLA+ models of PoperRight

PoperRight screens A-share stocks, backtests strategies and keeps the trading
plans of its users. It fills its databases by long imports that run in Celery
workers (`app/tasks/*`), are started, stopped and watched by HTTP requests
(`app/services/*`, called by `app/api/v1/*`) and are coordinated through a
handful of Redis keys, log tables and Celery itself. This directory models that
coordination - three import protocols, the workflow above one of them, the
historical backfill - and two parts that move money: the daily loop of the
backtest, and the plans and positions of the users. All of it is checked with
TLC, and its safety - every invariant, action property and refinement the runs
check - is proved with TLAPS for any value of the constants, under the
hypotheses section 5 names; liveness is left to TLC. `PROJECT.json` maps every
definition to the lines it stands for and lists the runs, hazards, findings and
theorems.

Paths below are relative to `src/app/`; `WF` is
`services/data_engine/tushare_smart_import_workflow.py`, `SVC` is
`services/data_engine/tushare_import_service.py`, `TASK` is
`tasks/tushare_import.py`.

## 1. Inventory

### Tushare import task (SVC, TASK) - modelled

* State. Redis: the lock of an interface `tushare:import:lock:{api_name}`
  (2 h), per task a stop key (1 h) and a progress document (24 h). PostgreSQL:
  one row of `tushare_import_log` per task. Celery: the message on `data_sync`.
* Operations. `start_import` (look at the lock, insert the row, write the lock,
  write the progress, send), `stop_import` (stop key, progress, revoke with
  terminate, close the row, delete the lock), `_process_import` (progress, a
  strategy's loop of poll / call / write, `_finalize_log`, last report, lock
  deleted in the `finally`).
* Hard. All of it is awaited step by step in different processes: check-then-set
  of the lock, deletes that do not ask who holds it, a lock that lives shorter
  than the task's time limit, a worker that finalizes a row the stop has closed,
  `acks_late` with `reject_on_worker_lost` (the message comes again), a
  terminated process without its `finally`.
* Correct means: one import per interface; a stop stops soon; a row says
  `completed` only when all batches were attempted (the next incremental import
  relies on it); row and progress agree; an import that ends leaves no lock
  behind; nothing stays live for ever.

### Date batches (`services/data_engine/date_batch_splitter.py`, TASK) - modelled

* State. Plan of chunks, index in it, work list of the recursion over halves,
  streak of truncated chunks, warnings, failed chunks, counters, progress.
* Operations. `split`, `_process_batched_by_date`, `_process_chunk_with_retry`.
* Hard. Boundaries of chunks and halves, a plan that is replaced while it is
  walked through, exceptions and stops in the middle of the recursion, counters
  that are reported from two places.
* Correct means: the plan always covers the range, nothing is written twice,
  nothing is lost without a warning, the counters are those of the writes, the
  loop ends.

### Smart-screening workflow (WF, `tasks/tushare_workflow.py`) - partly modelled

* State. One running key (24 h), per workflow a JSON document that is always
  read and written as a whole, a pause flag and a stop flag; per step the lock
  of its interface and a stop key of the child import.
* Operations. `start_workflow`, `resume_workflow`, `pause_workflow`,
  `stop_workflow`, `get_running_workflow`, `run_workflow` with `_run_step`,
  eviction of stale locks, marking of failures, the Celery wrapper.
* Hard. Documents written back from an old read, flags polled one after the
  other, the running key deleted up to three times per run, a child's lock
  compared and deleted in two steps, redelivery of a run that gave its key up.
* Correct means: one workflow at a time; `completed` only when every mandatory
  step was imported; completed steps are not repeated; a pause or stop costs at
  most one more step; a step imports under the lock of its interface.
* Not modelled: how `get_plan` chooses the steps, the readiness checks, the
  workflow without steps, the merging of child progress into status answers.

### Historical backfill (`services/data_engine/backfill_service.py`, `tasks/data_sync.py`) - modelled

* State. Redis: one progress record for all tasks of a backfill, one stop signal
  (both 24 h). Celery: one message per data type (K lines, fundamentals, money
  flow). Each task keeps its own copy of the record.
* Operations. `start_backfill` (refuse or clear what is there, announce, send,
  write the ids), `stop_backfill` (signal, `stopping`, revoke), `get_progress`
  (settles `stopping`, deletes the signal), the three tasks (poll, mark the
  current item, fetch and store it, write the counters).
* Hard. Every party writes back a whole record it read before; the signal is
  deleted by the page that polls every three seconds; a start writes `pending`
  over the reports of tasks it has just sent; a task run again into a stop
  leaves the record alone.
* Correct means: a stop costs one item at most; the record never shows more
  than was done; it never says `running`, which keeps every new backfill out,
  with nobody left to change that; `running` and `stopping` are settled.

### Local K-line and adjustment factor import (`services/data_engine/local_kline_import.py`, `api/v1/data.py`) - modelled

* State. Redis: a progress record with a heartbeat, a stop key, and per archive
  the modification time it was imported with. PostgreSQL: the rows.
* Operations. `execute` and `execute_adj_factors`, which follow one protocol;
  start, stop, reset and status requests of the API.
* Hard. Whoever finds the heartbeat old (120 s for some requests, 600 s for
  others) takes the import for dead; requests look first and act later; the
  start of a factor import reserves nothing; the stop key is deleted by the task
  that starts and by the one that polls; archives change on disk.
* Correct means: imports do not overlap unless a live one was silent or two
  requests crossed; an accepted stop costs one more block at most; an archive
  marked as imported is in the database, whole, in that version.

### Backtest engine (`services/backtest_engine.py`) - partly modelled

* State. Cash, frozen cash, positions with their highest close and a delayed
  sale, trade records, equity curve; an index of the bars of each stock by date.
* Operations, per trading day: settle, retry delayed sales, check the conditions
  of a sale, execute sales, screen, execute purchases, snapshot.
* Hard. An order is booked at once at the opening of the stock's next bar,
  which is days away for a suspended stock, and dated by it; limit prices block
  purchases and delay sales; caps are computed at cost while purchases go on.
* Correct means: the account is never overdrawn and holds no more stocks than
  allowed; a sale follows its purchase by a day at least; whoever replays the
  trades arrives at the equity; no stop that was reached is passed over.

### Trading plans and positions (`services/operations_service.py`, `tasks/operations.py`) - partly modelled

* State. PostgreSQL: plans, today's candidates, positions with stage, stop
  price, peak and days.
* Operations. Create, change, delete a plan; candidates of the screening, skip;
  buy; confirm a sale; set a stop by hand; the evening evaluation of all
  positions of active plans.
* Hard. Every request is a transaction of its own at READ COMMITTED; the limit
  of plans is counted before the insert; the evaluation loads, computes and
  writes the changed columns at its end, with `acks_late` possibly twice.
* Correct means: the limit of plans holds; the record of a sale is kept (its
  status may go back to `PENDING_SELL`); a position is held only above the stop
  its highest price calls for.

### Parts that are not modelled

| Part | State and operations | Why not, or what is hard |
|---|---|---|
| Trade execution (`services/trade_executor.py`) | orders, condition orders, T+1 quantities | Next in the plan: a condition order is switched off although its order was rejected. |
| Pools (`services/pool_manager.py`) | pools and items in PostgreSQL | Count-then-insert limits, the pattern of the plans. |
| Incremental dates (SVC) | the last completed row | An incremental start continues after a range whose chunks partly failed. |
| Other batch strategies (TASK) | own plans and statistics | In `TushareImport` they are one loop; by code, by index, by sector, by trade date. |
| Screening, risk control, metrics | none | Sequential numeric code over float series; in `Backtest` any outcome of the screen is possible. |
| Sector import | progress, stop key | File parsing with the protocol of the local imports. |
| Data source adapters | none | HTTP with retries: what they return or raise is nondeterminism here. |
| WebSocket relay, alerts | subscriptions | Best effort. |
| HTTP routing, authentication, administration, frontend, migrations, scripts | none that the protocols share | - |

### How the parts meet

API processes and workers share nothing but Redis, PostgreSQL and the broker. A
workflow step runs `_process_import` in the workflow's own process, under a lock
of the same name as `start_import` uses; this is where `SmartWorkflow` meets
`TushareImport`: the first keeps an import through `start_import` as `Rival`
with the steps that touch the shared lock, the second has the import in detail.
The date batches are the loop of `TushareImport` seen from inside. Backfill and
local imports have keys of their own and meet the others only in the database,
where K lines replace the rows of the same keys (`ON CONFLICT DO UPDATE`) and
adjustment factors leave them (`ON CONFLICT DO NOTHING`). The operations use a
screening result and market data as given. `Backtest` trades on any screening
result and implements `BrokerAccount`.

## 2. Modules

| Module | What it is |
|---|---|
| `Lease` | Abstract: an exclusive lease, which may break once and then promises nothing. Both lock protocols implement it. |
| `TushareImport` | The life of the import tasks of one interface. |
| `TushareImport_proofs` | Theorems about it. |
| `DateBatchSplitter` | `split`, as a function of the chunk's number and as the source's loop. |
| `DateBatchImport` | The import of a range of days by chunks, halves and re-cut plans. |
| `DateBatchImport_proofs` | Theorems about both. |
| `SmartWorkflow` | The workflow, its calls and runs. |
| `SmartWorkflow_proofs` | Theorems about it. |
| `Backfill` | Starts, stop, page and tasks around one record and one signal. |
| `Backfill_proofs` | Theorems about it. |
| `LocalImport` | The two imports of local archives, by one protocol. |
| `LocalImport_proofs` | Theorems about it. |
| `BrokerAccount` | Abstract: a T+1 account that is never overdrawn. |
| `Backtest` | The daily loop of the strategy driven backtest; implements it. |
| `Backtest_proofs` | Theorems about it. |
| `Operations` | Plans, candidates, positions and the evening evaluation. |
| `Operations_proofs` | Theorems about it. |
| `NumberSets` | Lemmas on sets of numbers and sums, for the other proofs. |
| `MC...` | Values of the constants for TLC. |

Definitions under a comment "Slip" are variants of the definition that follows,
as a plausible mistake would have it. No specification uses them; each serves to
see that the property it is listed with in `PROJECT.json` would notice.

### TushareImport

One interface is enough, since no key is shared between interfaces. `caller[t]`
is where the `start_import` call of task `t` stands, `stopper[t]` its
`stop_import`, `worker[t]` its message and execution. Every await is a step, and
every step may fail the way its code lets it: `StartAborts`, `StopGivesUp`,
`Raise`, the failing branch of `FinalizeLog`, `ReportRaises`, the lock that stays
after `ReleaseLock`. The lock goes in the `finally` and the message only after
the task has returned (`task_acks_late`), so an execution is `returned` between
`ReleaseLock` and `Ack`. `Killed` and `WorkerLost` are the two ways a process
dies before that: acknowledged (terminate, hard time limit) and redelivered.
Nobody writes the lock again for a message that comes again. `ExpireLock` may
come at any time, since 2 h is shorter than the time limit of 8 h;
`ExpireStopKey` only while no execution runs, since a batch is far shorter than
an hour. `breach`, `late`, `swept` and `fault` are history variables that no
action reads. A live task loses its lock, or is live without one, in four ways,
and `breach` records them: a start overwrites the lock, a stop deletes it, it
expires, a message comes again after its lock is gone.

Abstractions. All strategies that poll are one loop over `left` batches; a
failing batch is recorded and passed over. The read and the write of a progress
document are one step: the status written does not depend on the status read
(the counters, which do depend on it, are not modelled). The broker does not
redeliver what is being executed: its visibility timeout of 10 h is above the
time limit of 8 h.

### DateBatchSplitter and DateBatchImport

A day is a number, and `rows[d]` says how many rows the interface has for it; a
call answers with at most `MaxRows` of them. The recursion of
`_process_chunk_with_retry` is a work list with depths; before every item the
stop key is polled. `ChunkRaises` leaves the recursion and fails the chunk,
`ImportRaises` ends the import (invalid token, Redis). `AccountChunk` is the end
of a loop turn with all it does: statistics, streak, re-cutting, report, index.

### SmartWorkflow

`run[r]` is a message with its execution and its own copy of the children;
`call[c]` is a call of the service in an API process. `state[w]` is the document.
`InTry` are the points of `run_workflow` inside its `try`; `RaisesTo` says where
an exception leads from each point. `Verdicts` is what Celery's `inspect` may
answer about the holder of a lock: a message no worker has fetched is in none of
its lists. A rival import of a `Contended` step looks at the lock
(`RivalChecks`), sets its own over whatever is there by then (`RivalStarts`),
runs, deletes whatever lock is there (`RivalEnds`) and may be delivered again
before and after that (`RivalReturns`). Its lock expires after 2 h, a step's own
after 9 h, when its process cannot live any more (`LockExpires`); `StopImport`,
aimed at either, deletes the lock of the interface. `evicted` records that an
import which was alive lost its lock, or came again without it.

Abstractions. Workers answer `inspect` in time; documents do not expire (locks
and the running key do); the read and write at the start of a run are one step,
and so are the writes of `_mark_state_failed`.

### Backfill

`caller[r]` is where a `start_backfill` stands, `stopper` and `viewer` the
`stop_backfill` and the `get_progress` in flight, `worker[t]` the execution of
a task with its `copy` of the record. Each access to Redis is a step.
`Redeliver` is a lost worker, after which the message comes again; `Kill` is an
exception (these tasks have no automatic retry) or the hard time limit;
`Terminate` and `Drop` are what a revocation does. `aimed` and `late` follow the
tasks a stop found under way, `erased` says that the signal was deleted too
early, `broken` that a task ended without its last write.

Abstractions. The three tasks have the same control; an item is a symbol, or for
money flow a symbol on a day. The two reads of `get_progress` are one step.

### LocalImport

`Adj` chooses between K lines and factors. `record` is status and age of the
heartbeat in three steps (fresh, over 120 s, over 600 s: `Silence`). A request
is two steps, what it found and what it does about it; `Patience` is the age at
which it takes the import for dead. An archive has `Parts` blocks of rows per
version; `ReplaceFile` puts a newer one on disk. A block in `Revised` has the
same keys in every version, with other values; one that is not has new keys.
`Inserted` is what the database makes of a block: K lines replace the rows
`Standing` under its keys, factors keep them. `misjudged` and `crossed` are the
two ways the exclusion breaks, `swapped` the versions put in place while a run
had the one before in memory, `after` counts blocks since a stop.

Abstractions. `update_progress` reads, merges and writes in one step. Scanning,
parsing and validation of rows are one step each; a block is written as a whole
or refused. The stop key does not expire (1 h in the code, longer than a block
may take before the import counts as dead).

### BrokerAccount and Backtest

`BrokerAccount` says what an account promises whatever trades on it. `Backtest`
has a history of prices as input (`Markets`: for each stock and date a bar or
`NoBar`). `phase` is where the loop body stands, `sales` and `orders` what is
still to execute in it. Prices are whole ticks, money hundredths of a tick, so
that rates in whole percents are exact; the code uses `Decimal`. Screener, index
averages and conditions written by the user are any subset of the stocks that
pass the filters of the loop itself.

### Operations

A request about one row is one step, since it is one transaction. Two are not:
`CountPlans`/`InsertPlan`, and an evaluation `e` with its plans `unread` and the
rows `loaded`; `Changed` is what SQLAlchemy writes, the columns that differ from
the row as loaded. An exception in the evaluation of one position is caught and
logged, and what was set by then is written with the rest: `far` says how far
each position came, and `unjudged` remembers those whose last evaluation broke
off after it had set a column. `AbortEvaluation` is a vanished row, a database
failure or a lost worker: nothing is written. Stop prices are hundredths of the price, all
shares are bought at `Cost`, and parameters of a plan do not change.

## 3. Runs

| Run | Bounds | Shows |
|---|---|---|
| `import_contention` | two tasks, one stop, one call per import, one redelivery | Two executions overlap only after a breach: a start overwrote the lock of a live task, a stop dropped it, it expired, or a message came again after its lock was gone. Until then the lock is a lease (`LockIsLease`, refinement of `Lease`). An import that comes to its end leaves no lock behind (`LockOutlivesOnlyFaults`). |
| `import_life` | one task, both kinds of strategy, up to two batches, a stop, a redelivery | At most one batch after a stop, `completed` means swept, a finished stop has closed the row, row and progress agree; task and stop settle. |
| `batch_plan` | 6 days, steps 2, 3, 6 and day by day, 0, 1 or 3 rows a day, calls of 3 rows, depth 2, re-cutting after 2, one failure, a stop | The plan always covers the range, no day is written twice, nothing is lost silently. |
| `workflow_steps` | one workflow, two steps (the first optional and contended), two calls, one run, one redelivery, one key or lock that expires or is deleted | Locks, flags, meaning of `completed`. |
| `workflow_resume` | one workflow of one step, three calls, two runs, one expiry | A live run holds the running key, and the key is a lease of its run. |
| `backtest` | 3 stocks, two of one sector, 5 dates, 6 x 4 x 3 combinations of six histories (flat, crash, surge, suspended, suspended at once, newly listed), both allocations, every screening result | The loop is a T+1 account (`AccountKept`, refinement of `BrokerAccount`); trades replay to the equity; sales follow purchases; money is there by the dates of the trades; no reached stop is passed over. |
| `backfill` | two starts of two tasks together, one item each, a stop, a page | The record is never ahead, and `running` has a runner. |
| `backfill_life` | one task of two items, two stops, one fault | A stop costs an item; `running` and `stopping` are settled. |
| `operations` | two plans of which one fits, one position, two evaluations, four prices, with and without average | Limit of plans, positions above their stop, sales kept. |
| `local_kline` | two K-line imports of one archive of two blocks, stop, reset, status | Exclusion until a misjudgement or crossing; a stop costs one block. |
| `local_factors` | two factor imports of one archive in two versions, with one block corrected and one new in the second | Marked means that there is a row under each key. |

One run checks a statement of the repository's documents that the code does not
keep, and TLC refutes it:

| Run | Statement | What happens |
|---|---|---|
| `batch_fallback` | a range is imported without loss | An interface with `use_trade_date_loop` that comes to the date batches by the fallback (`index_weekly`, `index_monthly` with a `ts_code`) asks each 30-day chunk for its first day only and ends `completed` without a warning. |

Why these bounds. `TushareImport`: the breaches are relations between two tasks,
so two are needed and the proofs (section 5) take care of any number; a second
batch is needed to see that a poll between batches ends the loop.
`DateBatchImport`: six days in steps of 2, 3 and 6 give chunks that divide the
range, halves of odd ranges (three parts), a re-cutting with chunks left, and a
recursion of the whole depth; the day-by-day interface has its step 1, as the
registry gives it to all that are registered with `batch_by_date`.
The view of `import_contention` drops the progress record and the histories of
batches, which none of its properties and no guard reads.
`SmartWorkflow`: a resume needs a start and an interruption before it, hence
three calls and two runs; two steps are needed for a step passed over and for a
flag set between polls. The constraint of `workflow_steps` lets a lost worker
meet one more disturbance (a second call, the other import, a dropped key or
lock) and not two; without a lost worker they combine freely. In
`workflow_resume` the one key that goes is the running key, by an action
constraint: locks are the subject of the other run.
`Backtest`: two stocks of one sector and one of none meet the caps and the
limit of two holdings; five dates hold a purchase, a stop, an opening at the
limit, a second one, and a sale, or a suspension in between; the histories reach
each reason of a sale and each way an order is passed over.
`Backfill`: two starts are needed for a start that clears or overwrites another
one's record, two tasks for copies that overwrite each other; liveness has one
task, so that its own second item, second stop and fault fit.
`Operations`: one plan within the limit and one beyond it; the four prices are a
loss beyond the fixed stop, no gain, a gain for the trailing and one for the
tight stop, so every stage occurs. One of the two plans at a time has candidates:
only the purchase from a candidate reads them. The evening task passes empty market data, so
of these it would see no gain and no average; today it does not come that far
(see the divergences), and the model has all that the service can be given.
`LocalImport`: two runs for all that overlaps; two blocks to tell a poll between
blocks from one between archives; two versions of an archive for the mark. The
view of `local_factors` drops the history variables that neither its invariant
nor any guard reads.
Runs stop when all is done, so deadlock is not checked; that things do get done
is what the liveness properties say.

### Divergences from the documents

Met while modelling. Where a property allows for one, it names the history
variable that does. `specs/` is `src/.kiro/specs/`.

* Two starts of one interface both look at the lock before either writes it
  (SVC:387), against the docstring at SVC:349 (`breach` in `TushareImport`).
* `_finalize_log` updates a row that `stop_import` closed as `stopped`
  (TASK:606); `specs/tushare-data-import/design.md:1299`.
* At depth 3 truncated rows of several days are written and the rest given up,
  with a warning (TASK:1072); `specs/tushare-import-timefreqfix/bugfix.md:37`.
* A status query between the two writes of `start_workflow` deletes the running
  key (WF:363); `specs/tushare-smart-screening-import-workflow/design.md:162`.
* A pause writes back a document read before a step was recorded, so the step is
  imported again (WF:403); `specs/tushare-daily-fast-import-workflow/requirements.md:179`.
* `get_progress` deletes the stop signal once it sees `stopping`, so tasks that
  have not polled go on (`services/data_engine/backfill_service.py:224`);
  `specs/a-share-quant-trading-system/design.md:3969` (`erased` in `Backfill`).
* The mark of an archive is the modification time after its import, so one that
  is replaced meanwhile is skipped the next time
  (`services/data_engine/local_kline_import.py:841`);
  `specs/local-kline-import/design.md:465` (`swapped` in `LocalImport`).
* The plan limit is counted before the insert and never when a plan leaves the
  archive (`services/operations_service.py:88`);
  `specs/trading-operations/requirements.md:28` (`excused` in `Operations`).
* Deleting a plan deletes its positions and buy records
  (`models/operations.py:138`, `:185`); `requirements.md:30` of the same.
* Positions of a paused plan are not evaluated
  (`services/operations_service.py`, `run_stop_loss_evaluation`);
  `requirements.md:29`.
* A stop set by hand is stored and never read by the evaluation, which computes
  its own (`services/operations_service.py:619`); `requirements.md:77`.
* The position checks of `requirements.md:55` exist
  (`validate_position_control`, `services/operations_service.py:318`) and no
  caller uses them.
* The tasks of the operations import `async_pg_session` (`tasks/operations.py:31`,
  `:66`, `:86`), which `core/database.py` does not define, so each of them ends
  in an `ImportError`; `requirements.md:73` of the same. The model has the
  evaluation as `run_stop_loss_evaluation` would do it.
* A replaced factor archive is marked as imported in its new version, and its
  corrected factors are not written (`services/data_engine/adj_factor_repository.py:74`);
  `MarkedMeansWritten` asks for a row under each key only.
* A position whose evaluation raises is logged and passed over with the columns
  set by then (`services/operations_service.py:573`); `unjudged` in `Operations`.
* An import delivered again after its `finally` runs without a lock
  (TASK:624, `core/celery_app.py:60`); `breach` in `TushareImport`.
* Limit prices are 10, 20 or 30 % by the prefix of the stock
  (`services/backtest_engine.py:1246`), against a uniform 10 % in
  `specs/a-share-quant-trading-system/design.md:830`. The model follows the code.
* The sale of a suspended stock is booked, and its money spendable, before the
  date the trade bears (`services/backtest_engine.py:2180`);
  `specs/a-share-quant-trading-system/design.md:2261`. `FundsFollowDates` is
  therefore stated for histories without suspensions.

## 4. Fairness

* `TushareImport!FairSpec`: a handler that was entered goes on or fails, a worker
  listens on `data_sync` and executes what it took (calls have timeouts and
  bounded retries) and acknowledges it. Users are under no obligation, and
  nothing has to fail or to expire.
* `Backfill!FairSpec`: the page polls every three seconds (`View`), and workers
  take and execute their messages (`Work`). Requests are under no obligation,
  also not to finish.
* The other modules state none: their properties are safety properties. A
  workflow killed by its hard time limit stays `running` until its key expires
  after 24 hours, so no fairness the code justifies would settle it.

## 5. What is proved

`TushareImport_proofs`, for any set of tasks and any bounds, from the assumptions
of `TushareImport` (the key's "nobody" is no task, strategies are the two kinds,
bounds are naturals, an import has at least one batch at most):

* `TypeCorrect`: `Spec => []TypeOK`;
* `NoOverlapWithoutBreach`, `LocksOutliveOnlyFaults`, `PromptStop`,
  `CompletedRowsAreSwept`, `StoppedRowsAreClosed`, `RowAndRecordAgree`
  (`OutcomesAgree`): the safety properties of the runs;
* `LockImplementsLease`: the refinement `Spec => LockIsLease`.

None of the properties is inductive alone, so all rest on one inductive invariant
`IInv` (theorem `Invariance`), the conjunction of

* `Shape`: types, and what ties the counters together - only a sent task has a
  message, a batch being written is one of those left, an execution that
  finalizes has an outcome;
* `RowClosed`: the row exists when a stop can see it, and is closed once the stop
  has passed its UPDATE. Without the first half a stop could close a row before
  `CreateLog` opens it;
* `LockHeld`: without a breach the lock names every live task. It is the lock's
  name, not the exclusion, that steps preserve; the exclusion follows, because
  one key names one task;
* `LockOutlivesOnlyFaults` itself, which holds also after a breach: a task stops
  being live with its lock deleted or with a fault on record;
* `LateThenPoll`: after a late batch the execution stands before a poll, and the
  stop key is still there, since it does not expire under a running execution;
* `SweptFirst`: also the result that an execution is about to write, not only the
  row, says `completed` only after a sweep;
* `OutcomeTold`: once the execution has finalized, the row says the outcome it
  ended with, and once it has reported, so does the record, unless a stop came or
  a write was lost.

One lemma per conjunct shows that it is preserved, with one case per action; the
refinement maps every step to an acquisition, a release, a break or a stutter of
the lease.

`Backfill_proofs`, for any number of starts, data types, items, stops and
faults, from the assumptions that both sets are finite, an item list is not
empty and bounds are naturals: `TypeCorrect`, `ProgressIsReal`
(`ProgressNotAhead`), `RunningIsOwned` (`RunningHasRunner`), `PromptStop`
(`SignalHonoured`). The properties speak of the record and of tasks; what steps
preserve speaks of every copy of the record that may still be written over it.
`IInv` is the type invariant with

* `CopiesInHand`: whoever is about to write a copy has one, and a task at an item
  has an item left; `SentFirst`: a task exists only once it was sent;
* `CountsReal`: no copy counts more than was processed;
* `RunningOwned`: while the record says `running` there is a task that still has
  its last write before it. A lost worker's message counts before it is read
  again, since its first execution may have written `running`;
* `SignalStays`: the tasks a stop has found keep the signal until it is erased
  too early, and one that went through an item since stands before a poll.

`LocalImport_proofs`, for any number of runs, archives, blocks and versions, and
any blocks that are revised: `TypeCorrect`, `MarksAreTrue`
(`MarkedMeansWritten`), `PromptStop` (`StopObeyed`) for both kinds of import,
and `ExclusionUnlessMisjudged` (`OverlapNeedsSilence`) for K lines, `~Adj`;
factor imports reserve nothing, and for them it does not hold. `IInv` is the
type invariant with

* `SentFirst` and `FileInHand`: which archive, version and block a run has at
  each point;
* `VersionsKnown`: the version a run holds is on disk still, or every newer one
  is on record as put in place meanwhile; no mark is ahead of the disk;
* `HeldIsStored`: the blocks behind a run are stored. That a later insert cannot
  take them away is `BlockInserted`: a K line gives way only to a row that was
  on record as newer, a factor to nothing;
* `OneAtWork`, `StopStays`: without an overlap one run is at work, so the stop
  key set for it is there until it polls;
* `RecordOwned`: while nobody misjudged and no requests crossed, an import from
  its reservation to its last report finds the record claimed for it, every
  other request before its check, and no reset or condemnation under way. The
  exclusion follows from it and is not inductive alone.

`Operations_proofs`, for any number of plans, positions and evaluations, any
prices, percentages and limit: `TypeCorrect`; `LimitKept` (`PlansWithinLimit`),
by the plans that are counted and not inserted yet together with those that are
there (`TakenWithinLimit`); `SalesStay` (`SaleKept`), an action property, from
the types alone, since the evaluation writes no column of a sale (that it may
put the status of a sold position back is no part of it); and `StopHonoured`
(`HeldAboveStop`), under the hypothesis `RealStops` that shares cost something
and a stop lies below the price it is taken from (the code does not check the
percentages a user sends). It needs `PeaksTracked` (the row's peak is the
highest price seen) and `LoadedCurrent` (what an evaluation has loaded of a
position it has to itself is what the row still says), which is why it speaks of
positions two evaluations never held together. An evening whose evaluation of a
position raised is excepted (`unjudged`) until the next verdict.

`SmartWorkflow_proofs`, for any number of workflows, steps, calls and runs, any
optional and contended steps, losses and dropped keys: `TypeCorrect`,
`LiveRunsHoldKeys`, `KeyIsLease` (the refinement `RunningKeyIsLease`),
`ImportsHoldLocks`, `CompletedIsImported` and `OneLateStep`. They share `Shape`:
the types, what a run and a call have in hand at each point (`WellFormed`), and
that a call which claimed the key owns a run nobody else owns (`CallsOwnRuns`).
On top of it

* `LiveRunHoldsKey` is inductive; a step of a run leaves the key alone, takes it
  when the run is not live any more, or loses its process;
* `LocksHeld` adds to `ImportHoldsLock` the same of the imports of others: an
  import that ends deletes whatever lock is there, so neither half is inductive
  alone, and both end with the first import that is left without its lock;
* `CopiesSound`: every copy of a document - in Redis, in a run, in a call that
  read it and will write it back - calls completed only what was imported, and a
  run has left no mandatory step behind it. This is why stale documents written
  back cost repeated steps and never a false `completed`;
* `LateOK`: from the begin of a late step to the polls after it the flag that
  was set stays set, so the run does not get past them.

Two histories the properties exclude were found this way: a broken running key
lets a second run of the workflow clear the flags of the first (`TwoRunsAbout`),
and once a live import is without its lock, the deletes of one import hit the
lock of the next (`evicted`).

`DateBatchImport_proofs`, for any range of days, registry entries, rows per day,
limit, depth and threshold: `TypeCorrect`, `RangeCovered` (`PlanCoversRange`),
`NothingTwice` (`WrittenOnce`), `NothingLost` (`NothingSilentlyLost`). The
argument follows the `Cursor`, the first day that was not asked for: the work
list runs without a gap from the cursor to the end of the chunk and the plan from
there to the end (`PlanOK`), halves and re-cut plans included (`HalvesCover`,
`NewChunksCover`); nothing at the cursor or behind it was written
(`AheadUntouched`); every day in front of it is accounted for, or will be with
its chunk (`BehindKnown`). `NothingLost` has the hypothesis `DayByDay`: an
interface asked by `trade_date` has chunks of one day, as `date_chunk_days` in
the registry says of all that are registered with `batch_by_date`. Those that
come here by the fallback break it, which is what `batch_fallback` shows.
`SplitIsTheLoop`: the numbered chunks are what the loop of
`DateBatchSplitter.split` returns, for every range and chunk length.

`Backtest_proofs`, for any stocks, histories, parameters and screening results:
`TypeCorrect`, `SalesFollowPurchases` (`SoldAfterBought`), `StopsHonoured`
(`StopHonoured`), `AccountImplemented` (the refinement `AccountKept`),
`EquityIsReplayed` (`EquityMatchesLedger`), `FundsAreThere`
(`FundsFollowDates`). The invariants build on each other:

* `Sound`, the types, with a signal only for a stock held and one for each. Of
  cash and frozen money it says only that they are integers: without a bound on
  the fees a sale may cost money;
* `Steady`, what the loop keeps of positions and orders: a stock has no bar
  between today and its purchase when that is dated ahead, what waits to be sold
  was bought by today, orders are of stocks not held and fit into the limit;
* `BooksKept`: the last trade of a stock is its position's purchase, or its sale;
* `StopWatched`: between the check and the end of the sales every loss at the
  stop has a signal or waits for a buyer;
* `Counted`: cash and frozen money are the capital less the purchases plus the
  sales of the ledger, and a position is what was bought less what was sold;
* `FundsKept`: without suspensions a trade is dated by tomorrow at the latest, and
  the cash is the capital less all purchases plus the sales dated by today.

`AccountImplemented` and `FundsAreThere` assume `CommissionSellPct + SlippagePct <
100`: rates are percents a user enters and the code does not check them; with
fees above the amount a sale would cost money. `MarketAssumption` gives the
histories and scores their types (prices of whole ticks, `NoBar` is no bar); a
price of zero is possible, and `LotsFor` buys nothing at it.

`NumberSets` holds what these proofs need of recursive definitions: a recursive
function (the loop of `split`, the sums of the community modules,
`CompletedOnly` of the workflow) is reasoned about at the smallest argument at
which a claim about it would fail, since an induction theorem cannot be
instantiated here.

Model-checked only: liveness under fairness (`SentTaskSettles`, `StopSettles`,
and the settling of the backfill), which is out of the prover's reach.

## 6. Plan

1. `Trading`: condition orders, paper broker and T+1 quantities, against
   `BrokerAccount` where it applies; pools.
2. The other batch strategies and incremental dates beside `DateBatchImport`.
