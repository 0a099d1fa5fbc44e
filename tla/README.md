# Ghost Shell: a verification project in TLA+

Ghost Shell is a desktop application that runs an anti-detect browser on a
schedule. A Flask **dashboard** starts one **monitor** process (`main.py`, one
Chrome) per profile, a **scheduler** process asks the dashboard to do so all day
long, and all of them share one SQLite database and the profiles' directories.
The modules in this directory model the parts of it where several processes,
threads, crashes and retries meet. TLC checks them on small instances, TLAPS
proves the most important safety properties for every instance.

Contents: [1 Inventory](#1-inventory) · [2 Modules](#2-modules) ·
[3 Runs](#3-runs-bounds-and-fairness) · [4 Findings](#4-what-the-code-does-otherwise-than-it-says) ·
[5 Proofs](#5-proofs) · [6 Not modelled](#6-what-is-not-modelled-and-why) ·
[7 Plan](#7-what-is-left)

## 1. Inventory

Paths are relative to `src/ghost_shell/`.

| component | state it keeps | operations | hard behaviour | what makes it correct |
|---|---|---|---|---|
| background jobs `dashboard/jobs.py` | `_jobs` registry, thread pool, futures | enqueue, poll, cancel, collection of old results | the lock is given up twice inside `enqueue`; worker, canceller and collector race | the poll protocol; a cancelled job never runs; every job ends; the queue is bounded |
| run lifecycle `dashboard/server.py` (RunnerPool, `_spawn_run`, stop, startup, shutdown) | `RUNNER_POOL` slots, `_SPAWN_LOCK`, one `run_thread` per run | launch, stop, stop all, mark failed, reap zombies, cleanup at start, shutdown | request threads, run threads, signal handler and child processes interleave; restarts | one monitor per profile; slots describe the children; nothing stays locked out |
| process reaper `core/process_reaper.py` | none (reads `runs`, reads the process table, kills) | classify, reap, pre-spawn guards, kill tree, sweep of Chromes by command line | decides on rows and pids that may be out of date | never takes a healthy run for dead; always frees a dead one |
| monitor `main.py`, `session/quality.py` | its `runs` row, run counters, the profile's quality log, `needs_attention` | gates before the first search, loop over queries, rotation, recovery, recording | retries nested in retries; a browser that dies anywhere; what one run writes another judges | ends; counts what happened once; burned profiles stay out |
| scheduler control `dashboard/server.py`, `scheduler/scheduler.py` | `.scheduler.pid`, `scheduler.heartbeat_at` | start, stop, status | every look at the file may delete it; crashes leave it behind | one scheduler, always known, stop is final |
| scheduler loop `scheduler/scheduler.py` | counters derived from `runs`, round-robin index | tick, gates, quota, failure pause, batch, wait, delay | dashboard offline or late; restarts; midnight in a batch | respects the quota; takes turns; launches when it may |
| scheduled tasks `scheduler/scheduler.py`, `scheduler/cron.py` | `scheduled_tasks` rows | pass over the rows, edits, `next_fire` | rows edited under the pass; crashes; clock set back | once per match, never when off, never wedged |
| browser runtime `browser/runtime.py` | profile lock file with heartbeat, driver, Chrome | start with retries, clean-up, sweep, close, restart | check and write of the lock far apart; slow writes; suspended processes | one run per directory; nobody's Chrome is swept but an orphan's |
| watchdogs `browser/watchdog.py`, `browser/runtime.py` | strikes, pauses, stop flag, pids | probe, kill, pause, stall detection | two watchdogs, one flag, several browser generations | a wedged browser does not hold the run; only a hung one is killed |
| flow interpreter `actions/runner.py` | stack, scopes, variables | step types, loops, conditions, gates, aborts | flags that travel through copied scopes | runs a flow as its text reads |
| migration `dashboard/server.py` | - | old two-list configuration to one flow | nested searches, pipelines with flags | same searches and clicks as before |
| script library `db/database.py`, `dashboard/server.py` | `scripts`, `profiles.script_id` | save, default, pin, assign, delete, resolve | autocommitted statements of overlapping requests | one default, no lost pin, no lost save, a script for every run |
| log stream (RunnerPool, `dashboard/js/runner.js`) | ring, sequence number, subscriber queue, the page's last number | broadcast, subscribe, recent lines | numbers under one lock, fan-out under another; reconnects | every line once |
| proxies `proxy/*` | rotation state, forwarder threads | rotate, probe, report, forward | a provider that refuses, lies or is slow | what a run believes of its address |
| database `db/database.py` | SQLite, autocommit, WAL, one connection per thread | about 300 statements, migrations, cascade | multi-statement operations without a transaction | rows that belong together agree |
| profiles, cookies, accounts, extensions, fingerprints | files and rows | CRUD, backup and sync, vault, installs | a crash between file and row | file and row agree |
| front end, C++ patches, scripts | - | - | - | - |

How they interact: the front end and the scheduler call the dashboard over HTTP;
the dashboard forks monitors and the scheduler; monitor, dashboard and scheduler
share the `runs` table and `config_kv`; the scheduler forks a monitor by itself
when the dashboard does not answer; a monitor resolves its script from the tables
the dashboard edits and holds its directory through the lock file; its Chrome is
watched by two threads of its own and swept by the next run on the directory; the
dashboard's solo test of an extension is a job of the queue.

`PROJECT.json` lists every component with its status and every hazard at its line.

## 2. Modules

| module | models | its state |
|---|---|---|
| `JobContract` | abstract: the protocol of `/api/jobs/<id>` | what a poll would answer |
| `JobQueue` | `dashboard/jobs.py` | call, pool, future, status |
| `ProfileLease` | abstract: what RunnerPool promises to a launcher | set of leases, ids spent |
| `RunLifecycle` | launch, stop, reap, shutdown, restart of runs over all four programs | table, pool, processes, control of each thread |
| `SchedulerControl` | start, stop, status of the scheduler process | pid file, processes, heartbeat |
| `SchedulerLoop` | the main loop of the scheduler | hour of the week, batch, rows of the session, rotation index |
| `ScheduledTasks` | `_fire_scheduled_tasks` and what happens to its rows | clock, table, snapshot, rows in hand |
| `MonitorRun` | `run_monitor` and `search_query`, the quality log over several runs | place in the run, its counters, the query, the log |
| `ProfileLock` | lock file, starts, retries and closes on the profile directories | lock and freshness, processes, Chromes, orphans |
| `Watchdogs` | both watchdogs, the main thread, browser generations | health of each browser, strikes, flags, probes |
| `Flow` | `run_flow`, what a flow means, the migration of an old configuration | stack, scopes, shared variables, output |
| `FlowMigration` | the executor that flows replaced, for the migration to be compared with | that of `Flow` |
| `LogStream` | RunnerPool's log and the page that follows it | ring, queue, stream, requests, what was shown |
| `ScriptLibrary` | scripts, defaults, pins, assignments, saves, resolution | tables, requests statement by statement, a page |
| `CardinalityLemmas` | facts on bounds of counted sets, the least number of a set, induction over a range | - |
| `JobQueueProofs`, `RunLifecycleProofs`, `ScriptLibraryProofs` | theorems and proofs of the module they are named after | - |
| `SchedulingProofs`, `ProcessesProofs` | theorems of `SchedulerLoop` and `ScheduledTasks`, of `SchedulerControl` and `MonitorRun` | - |
| `BrowserProofs`, `FlowProofs` | theorems of `ProfileLock`, `Watchdogs` and `LogStream`, of `Flow` and `FlowMigration` | - |
| `MCJobQueue`, `MCRunLifecycle`, `MCSchedulerControl` | values of the constants for TLC | - |
| `MCScheduling`, `MCBrowser`, `MCProcesses` | independent parts explored side by side | which part moves |

`MCScheduling` (the loop and the tasks), `MCBrowser` (lock, watchdogs, flow, log,
scripts) and `MCProcesses` (scheduler control and monitor) put modules into one run
that do not read each other's state: a variable `part` chooses one, the others stay
at their initial state, and nothing is multiplied. Where modules do interact, they
are one module: launch, stop, reap and restart in `RunLifecycle`, two watchdogs and
the main thread in `Watchdogs`, interpreter and migration in `Flow`, with the old executor in `FlowMigration`,
page and server in `LogStream`, gates, queries and log in `MonitorRun`.

### JobQueue

`enqueue` is three actions because the code is three steps: *Admit* (first
critical section: trim, count, refuse or go on), *Submit* (hand the closure to
the pool, no lock held) and *Register* (second critical section). The runner is
*Take* (the pool's own step: a worker sets the future to running, which is what
makes `Future.cancel` fail from then on), *Start* (marks the entry, or bails when
there is none) and *Finish*. *GetStatus*, *Cancel* and *Expire* are the clients
and the clock. The collection of old results is part of *Admit* and *GetStatus*,
as in the code. `call`, `future` and `status` are per job because every call of
`enqueue` makes a job of its own; `revoked` is a history variable.

`ImplementsContract` says that all of this, seen through the poll endpoint, is
`JobContract`: unknown, queued, running, finished, gone, in that order.

### RunLifecycle

One run id stands for the row, the slot, the run thread and the process of that
launch. Control states:

* `at[q]` of a request inside `_spawn_run`: *Begin* takes `_SPAWN_LOCK` and asks
  RunnerPool; *CheckRows* is `is_profile_actually_running` followed by the first
  look of `ensure_no_live_run_for_profile`; *ReapRow* is one row of
  `reap_stale_runs`; *RecheckRows* its second look; *Reserve* the cap, `run_start`
  and `RUNNER_POOL.add`. Every way out goes through *Refuse*, which leaves the lock.
* `thread[r]`: *StartThread* or *StartThreadFails* (the slot-leak guard), *Fork* or
  *ForkFails*, *Attach* (`slot.process`, `run_set_pid`), *CloseRow* (`run_finish`
  after `proc.wait`), *CloseSlot* (`mark_finished`), *Collect* (a minute later).
* the operator: *StopKill* and *StopRecord* (other steps fit in between the kill
  and the bookkeeping), *MarkFailed*, *ReapZombies*.
* the dashboard as a process: *Shutdown*, *ShutdownKill*, *Down* (also at any
  moment, for a kill), *Up* (bulk-mark), *StartupReap*, *StartupDone*.
* the scheduler's fallback: *FallbackBegin*, then the same row checks without the
  lock and the pool, then *FallbackFork*. Several in a row are possible, as in the
  loop that starts a parallel batch.
* the monitor: *Boot*, *Heartbeat*, *OwnFinish*, *Exit*; its environment: *Crash*
  (also the chrome watcher that terminates it when the window was closed),
  *GoStale* (three minutes without a ping), *Recycle* (the pid is now one of our
  Chromes).

Data is reduced to what the code branches on: a heartbeat is fresh or not, a pid
is recorded or not, an exit code is a kind of outcome (own, died, -1, -99).
`LooksOurs` is the test of `pid_looks_like_ghost_shell` on the command lines that
exist: monitors run as `python -u -m ghost_shell monitor`, which it does not know.

### SchedulerControl

A handler is one access of the pid file per step: *Look* and *Judge* are
`_scheduler_pid_alive` (read; then validate, and delete whatever is there by now),
*Reserve*, *Spawn* / *SpawnFails*, *WritePid* are the start; *Resolve*,
*Terminate*, *Await*, *Clean* the stop. *Abandon* is the death of the dashboard
inside a handler. The scheduler's heartbeat thread is two steps, *Tick* (it found
`_shutdown` unset) and *Beat* (it writes), because the write may come after
*MarkStopped*. The placeholder `.pending` and an empty or half written file are
one value: neither is a number, and that is all the readers notice.

### SchedulerLoop

A tick is *Tick* (or *SetupFails*: the part inside the `try`), then exactly one of
the gates in the order of the code (*OutsideDays*, *BadHours*, *OutsideHours*,
*QuotaMet*, *Pause*), or *PickBatch*. The launch of one member is *Launch* or
*NoLaunch*; a batch launches its members at once or one by one (`serial`), waits
(*WaitEnds*, *WaitCut*, *BatchDone*), and *Delay* and *Wake* are the sleep. A launch
that the loop gave up may still come (*LateRow*), rows begin and end on others'
account, hours pass (*Elapse1*, which clears the day's count at midnight), and the
process is started, asked to stop and killed at any point. Of the table the loop uses
how many rows began today and how the last ones of the session ended, so that is what
`today` and `rows` keep. `own` and `ahead` are history.

### ScheduledTasks

One pass is the snapshot (*BeginPass*), then row by row: *NotNow* and *Compute* for
rows that are not due, *NobodyToRun*, *Reread* (the second look at row and profiles),
*Fire* with its outcomes *Refused* and *Offline*, and *Bump*. *Edit*, *DeleteTask*,
*ProfileChanges* and the clock act between any two of these. *BumpFails*, *PassCrash*,
*SetBack* and *DashDown* are the faults, with a common budget. A cron expression is
the set of minutes it matches; `NextFire` is the first one after now within the horizon
of the search, `None` (which leaves the column as it is) when there is none.

### MonitorRun

The gates are *RotateOnStart*, *CheckBurned*, *Health* (which may end the run with
code 75), *Diagnose*, *GeoRotate* and *SeedConsent*, each with every way it may leave
the run. A query is *Navigate*, then rounds: *Barrier*, *RotateOnCaptcha*,
*NoMoreRotations*, *RestartSession*, *GiveUp*, *Found*, *LateCaptcha*, *GiveBack*,
*Refresh*. *Raised* and *Settle* are what the loop does with an exception and with a
result, *Interrupted* a stop or any other exception. Between runs time passes and the
operator uses the three reset endpoints. Three facts of the code shape the actions:
the early rotation of a burned profile imports `ghost_shell.session.quality_monitor`,
which does not exist, so only the cadence counts; `force_rotate_ip` returns `None` for
an address that did not change and the old address for a call that was refused; and the
page is never loaded again after a rotation (see 4).

A page is one of the kinds the code tells apart. The quality log is reduced to what
`get_health` reads: events of the last hour and day and how many there are in all (three
suffice for its test). An address matters only by being known and by being another one.

### ProfileLock

A start is the guard (*Guard*), the sweep of Chromes whose command line holds the path,
the claim of the lock, the launch and its retries with their clean-up; a close stops the
heartbeat, removes the lock file and quits Chrome, in that order. Every heartbeat is a
read and a write, because the write may be slow enough to come after a close. The lock
cannot keep two processes apart in a number of situations the code has (no lock between
the guard and the claim, none between two attempts, a command line it does not know, a
suspended process, a slow write): each is recorded in `breach`, and the properties say
that there are no others. `Matches` is the substring test of the sweep.

### Watchdogs

*Main* is the main thread at the grain of driver calls; *Stall* and *DogBites* are
`BrowserWatchdog`, *Probe* the thread of each start of the driver watchdog. All
generations share one stop flag, one pause flag and one strike count, as in the code.
The shields of `actions/runner.py` look for a browser where there is none, so they are
left out: only a rotation pauses the probes. `crossed` is the history of a probe that
was still busy when the next browser came, after which it may kill the wrong one.

### Flow

`run_flow` with an explicit stack, because a step may be a loop whose body is a list of
steps; scopes are copied per round as in `RunContext`, so that a `break` is a flag of a
copy. The reference is what the text of the flow means with structured loops:
`StepsText` and `RoundsText` say what a list of steps and a loop make of a state, given
`Meaning` and `Rounds`, the same for what is nested in them. These two are constants with
`Unfolds` as their definition: they are equal to their texts. `MCBrowser` gives them to
TLC as a recursion over the same texts, and so satisfies `Unfolds` by definition; the
proofs, which know no recursive operators, have it as a hypothesis. The recursion ends on
every flow, since a list is longer than its rest and than the lists inside it, so there
are such operators for any flows. A gate with a
probability is a coin, recorded so that the reference meets the same ones.

`Migrate` is the dashboard's translation of an old configuration. What the executor that
flows replaced did with it is `OldRun` in `FlowMigration`, a constant again, with
`OldUnfolds` as its definition: a list of steps calls for the searches, and for the
pipelines of the ads they find, that `OldText` says, where a loop writes its item over its
placeholder in everything nested in it (`Written`, `_substitute_vars` in the code).
`LegacyAssumption` is what the two forms of the old dashboard let one enter, and TLC
evaluates it on the configurations of the run. `Faithful` names the configurations the
translation is right for. TLC showed that two kinds have to be left out which one does not
expect: a placeholder no loop binds, which the old executor searched for as it stands and
the flow looks up; and a loop variable called `query` in a loop that searches something
else first, which the flow takes for the last query (`RunContext.resolve_path`
looks at the query before the variables). Old steps have no gates here and lists no shuffling; a loop that
does not say whether to shuffle was shuffled by the old executor (`runner.py:2708`) and is
not by a flow (`runner.py:4216`), so that the order is kept for lists that say no.

### LogStream

*Number* and *HandOut* are the two critical sections of `broadcast_log`; the page opens its
stream, asks for what it missed, and takes both in any order. A stream may break, a
request fail, the server restart (which begins the numbers again).

### ScriptLibrary

The connections are in autocommit mode, so `with conn:` groups nothing: a request is a
sequence of statements, and two requests take turns between them. Deletion promotes the
oldest script, an assignment checks and writes, a save compares the ETag and writes, a
resolution looks in up to four places.

## 3. Runs, bounds and fairness

| run | instance | states | question |
|---|---|---|---|
| `JobQueue` | 4 jobs, 1 worker, queue of 2, 2 callers | 242 000 | does the queue keep its protocol and its bound, and do jobs end? |
| `JobQueueLost` | 3 jobs, 1 worker, queue of 2, 1 caller | - | expected violation, see 4 |
| `RunLifecycle` | 2 profiles, 2 runs, 2 requests, fallback, `max_parallel` 1 | 792 000 | do slots describe the children? |
| `RunLaunch` | 1 profile, 2 runs, 2 requests, `max_parallel` 2, fair threads | 525 000 | is a profile exclusive, and is every slot and the lock given back? |
| `RunReaped`, `RunOrphan` | 1 profile, 1 run, 1 request | - | expected violations, see 4 |
| `Scheduling` | week of 2 days of 3 hours, 4 settings, quota 2; 1 task, 2 crons, 1 fault | 402 000 | quota, turns, no idling; once per match, never when off, never wedged? |
| `SchedulerSurvives` | the same | - | expected violation, see 4 |
| `Processes` | 1 handler at a time, 3 schedulers; 2 runs of 2 queries under 4 set-ups | 327 000 | one scheduler, known and stoppable; does a run end, count right and respect the gates? |
| `SchedulerDoubleStart` | 2 handlers | - | expected violation, see 4 |
| `WrongPage` | as `Processes` | - | expected violation, see 4 |
| `Browser` | 2 processes, a directory and one whose name begins with its name; 2 browser generations; 1 800 flows, 1 056 old configurations (124 of them faithful, 94 with loops); 3 log lines; 2 scripts, 3 requests | 571 000 | exclusion, watchdogs, interpreter, log, library |

**Bounds.**

* *Ids.* Run ids, jobs and pids are finite sets, so each also bounds the number of
  launches; the two guards marked "bound" in `RunLifecycle` keep as many ids as there are
  launchers under way, so no launcher waits for one. A pid may be recycled only while the
  row is open. `MaxCallers` bounds the request threads inside `enqueue` and appears in
  `QueueBounded`: the code's true limit is `_QUEUE_MAX` plus the callers between its two
  critical sections. Two runs are enough for a run, its successor on the same profile and
  its rival on another; two requests for every race on the lock; four jobs with one worker
  and room for two give a running, a queued, an admitted and a refused one. Three
  scheduler processes are a crashed one, its successor and one more start. *Abandon*
  leaves out the moment between `Popen` and the write of the pid: a scheduler that is
  started there is known to nobody, in the code as in the model.
* *Time.* A day has `DayLen` 3 hours and a week `Days` 2, enough for a window that opens
  late, closes early, spans the day, and a day that is off. `Window` is the number of rows
  the failure count can see (`MaxFails` 2), `MaxToday` 3 the rows of a day (quota 2 and one
  more). The tasks' clock ends at `Horizon`, `Lookahead` and `SkewLimit` keep the order of
  the code's constants.
* *Faults.* `MaxFaults`, `MaxFrights`, `MaxBreaks` are budgets for what the host does:
  one at a time for tasks and locks, two lost connections or restarts for the log.
* *Retries.* `Attempts` 2 of 3 launches, `RefreshMax` 2, `RotateMax` 1, `RecoverMax` 1,
  `GeoTries` 2, `SilentMax` 2: each retry happens, happens a last time and is refused.
  `MaxRuns` 2: one run that leaves something behind and one that finds it; the operator
  steps in before the last. `JudgeAfter` 2 makes a profile burnable within one run.
  `KillAfter` is the code's 3; the theorem assumes two or more, since with one the first
  failure would do, with a pause or without.
* *Data.* `Ring` 2, `QueueCap` 2 and `MaxLines` 3 overflow by one. `MaxScripts` 2,
  `MaxEdits` 1, `MaxClock` 1, `MaxRequests` 3 in two threads: two requests that overlap and
  one that finds the result. The flows are every body of up to two of eight leaf steps in a
  loop in a loop, every condition, every combination of the per-ad flags; the old
  configurations every main list of up to two of ten steps with four pipelines.

**Symmetry** is used in `RunLifecycle` only, which checks safety; no property names a
particular profile, run or request. **Deadlock** is not checked in the runs whose system
really stops: when all ids are spent, when a flow has ended, when the bounded requests
are served.

**Fairness.**

* `JobQueue`: a thread that can run does run, and the job function terminates (the solo
  test has its own timeout). Nobody has to poll, cancel or expire.
* `RunLaunch`: the steps of a request inside `_spawn_run` and the two closing steps of a
  run thread are weakly fair; these threads wait for nothing but the database and, in
  `CloseRow`, a child that has ended. Nothing is assumed of the monitors, of the operator,
  or of the dashboard staying up. A leads-to that a restart of the dashboard discharges is
  meant so: slots live in its memory.
* `Scheduling`: the loop's thread and the clock go on (weak). *Tick* is strongly fair: its
  alternative, the failing set-up, is disabled by nothing, but a set-up that fails for ever
  is a broken installation. The pass goes on and a dashboard that is down comes up again,
  since outages are counted faults.
* `Browser`: the main thread, each probe thread and the dog go on (weak).
* `Processes`: the main thread of a monitor goes on, because page loads, scripts and HTTP
  calls have timeouts. No choice inside a step is forced: the run ends whichever page
  appears.

**Properties.**

* `CancelledNeverRuns`, `RunningIffExecuting`, `ResultKept`, `RegisteredJobFinishes`:
  cancel, worker and collector in every order. `ImplementsContract`: what a client sees.
* `LiveChildHasSlot` carries the rest of the run lifecycle: every guard of `_spawn_run`
  trusts RunnerPool, so a child that is alive without a slot that is running would break
  exclusivity and the cap. `OneChildPerProfile` and `ChildrenBounded` are about processes,
  not slots; `FreedSlotHasClosedRow`, `DeadChildFreesSlot`, `LaunchAnswered` say that
  nothing stays locked out; `ImplementsLease` what a launcher may rely on.
* `AtMostOneScheduler`, `SchedulerIsTracked`, `StaleFileNeverBlocks`, `StopIsFinal`: for
  requests one after another, with crashes of either side anywhere.
* `QuotaKept`: the loop's own runs of a day pass the quota by at most the rest of one
  batch, over midnight, late rows and restarts. `FairRotation`: turns are kept over
  restarts although the index is loaded lazily and 0 means "not loaded".
  `LaunchesWhenItMay`: no pause, sleep or backoff outlives its reason.
* `FiredOncePerSlot`, `OffStaysOff`, `ScheduleAdvances`: a snapshot against a table that
  is edited, a process that crashes and a clock that is set back.
* `CountersAgree`: four places count a captcha, two books keep it. `BurnedStaysOut`: the log
  one run leaves keeps the next one out, unless repaired or forced, and the flag agrees.
  `RunEnds`: refreshes, rotations, recoveries, restarts and the hunt for a country nest,
  and still end.
* `OneAtATime`, `BrowserKept`, `NoOrphanBeside`, `NoIdleBeat`: the lock fails only in the
  recorded ways. `WedgeEnds`, `StruckOut`: the second watchdog frees the main thread in
  every generation, and kills only what has failed its questions.
* `FlowFollowsText`, `MigrationKeeps`: interpreter against meaning, migration against the
  old executor. `LinesOnce`: nothing lost, nothing twice, but for the recorded excuses.
  `OverlapOnly`, `AlwaysResolved`, `SavesSeen`: what single-statement commits can break,
  and that nothing else does.

Every property of a passing run has a seeded fault (the definitions named `...Fault`) that
breaks it: a dropped guard, a missing wait, a swapped order. Type invariants that are
proved (`RunLifecycle`, `SchedulerControl`, `ScheduledTasks`, `LogStream`, `ScriptLibrary`)
are not checked again by a run.

## 4. What the code does otherwise than it says

Each of these is a run that TLC finds violated:

* **A job can be lost** (`JobQueueLost`). `enqueue` submits before it registers. A
  worker that is quicker finds no entry and returns; the job is registered as queued
  and stays so, and counts against the limit, until the dashboard ends.
* **A healthy run is reaped** (`RunReaped`). The reaper's test of "one of ours" looks
  for `main.py` or `scheduler.py` in the command line; runs are started with
  `-m ghost_shell monitor`. Every walk over the table finishes rows of live runs with
  -99. Runs of this dashboard are still protected by RunnerPool, which is why
  `OneChildPerProfile` holds; those of another process are not.
* **A shutdown can leave an orphan** (`RunOrphan`): a launch between the reservation
  and `slot.process = proc`.
* **Two starts, two schedulers** (`SchedulerDoubleStart`): the validation at the
  beginning of the second start deletes the first one's placeholder before `O_EXCL`
  can refuse it.
* **A bad tick ends the scheduler** (`SchedulerSurvives`): only the set-up of a tick is
  inside its `try`; the gates after it raise for `active_hours` [0, 24] and for a locked
  database.
* **After a rotation the wrong page is judged** (`WrongPage`): the reload uses
  `search_url`, a name that does not exist in `search_query`; the `NameError` is logged as
  a failed reload, and the next round looks for ads on the warm-up's last page.

Observed while modelling, part of the models, and not a run of its own:

* *Lock and processes.* The same command-line test makes the profile lock's guard inert for
  monitors (`ByPath`). The sweep matches by substring (process_reaper.py:211): starting
  `profile_1` kills the Chrome of `profile_10`. A heartbeat write may outlive the two seconds
  a close waits for it (runtime.py:843). The lock is absent between two launch attempts and
  removed before Chrome has quit (runtime.py:4030).
* *Watchdogs.* `_WatchdogShield` finds no browser in the contexts it is given
  (runner.py:281, 4072): shields do nothing. A probe of the old browser that is under way at
  a restart may drop or kill the new one (runtime.py:3047). `BrowserWatchdog` kills the pids
  of the first generation only (watchdog.py:304).
* *Monitor.* The 70 % rule of quality.py:60 cannot trigger on captchas alone: each query that
  met one is recorded as an empty search too, so that the rate stays at a half (repeated
  silent demotions aside). "Same IP" and "API failed" are swapped in the captcha path, and a
  sticky pool gives up without the session restart. After a session restart the function
  still holds the old driver, so the captcha is not recorded but raised. An aborted geo or
  WebRTC check exits with 0. Resets of the log during a run are overwritten by the run's
  next record. A diagnosis left by an earlier query counts as a silent demotion.
* *Flow and migration.* A disabled or empty search makes the migrated `foreach_ad` visit the
  previous ads again; `search_all_queries` loses its pipeline; both pipelines run for target
  ads where the target's used to replace the other; loops in loops are not wrapped;
  `items_from` is ignored; a loop variable called `query` repeats the old query.
* *Log.* The recent lines and the stream are asked for at the same time without removing
  doubles; a restart begins the numbers again; an overflowing queue is not filled up.
* *Scripts.* Two defaults after two overlapping requests; a lost pin although the endpoint
  says that calls converge; a dangling `script_id`; an edit of the name in the same second
  has the same ETag. The proxies' default (database.py:1818) and the active fingerprint
  (database.py:3234) are written the same way and not modelled again.
* *Tasks.* A task whose expression has no next match keeps its old `next_run_at` and fires
  again; so does an edited one until it is due; a crash between the request and the bump
  fires twice.

## 5. Proofs

All theorems hold for every value of the constants; what is assumed of them are the
named `ASSUME`s of the modules (finite sets of ids, positive limits, model values
distinct from each other), which TLC evaluates in the runs. Those on `SchedulerControl`
except its types also assume `Serial`, one request at a time, and the run with two shows
why.

* `JobQueueProofs`: `IInv` = types, what `call` says of `future` and `status`
  (`CallInv`), what a revoked job looks like, `RunningIffExecuting`, and the counting
  part: the busy workers and the running jobs are the same, and active jobs together
  with callers in flight stay below the limit. `QueueBounded` alone is not inductive:
  *Register* makes an in-flight job active, so the invariant has to count their union.
  From `IInv` follow the four invariants of the run, `ResultKept`, and the refinement
  of `JobContract`, one step of the queue at a time.
* `RunLifecycleProofs`: `IInv` = types, `RunsInv` (for one run: which slot, row and
  process go with which state of its thread), `TargetInv`, `LockInv` (a request
  inside `_spawn_run` has the lock and its profile is not in the pool: what the
  comment in the code calls serialising the window between check and reserve) and
  `PoolInv` (slots exclude each other by profile and are counted). `LockInv` is why
  *Reserve* preserves `PoolInv`; `RunsInv` turns statements on slots into statements
  on processes. From it follow `LiveChildHasSlot`, `OneChildPerProfile`,
  `ChildrenBounded`, `FreedSlotHasClosedRow` and the refinement of `ProfileLease`.
* `ProcessesProofs`, scheduler control: what a handler knows at each place (`Aware`: in front of its
  judgement it holds the file's content, in front of a reservation there is neither file
  nor scheduler, in front of a kill nobody lives but its target) and `Tracked`, the file
  names every scheduler off the gap between `Popen` and the write. Both are needed
  together: a judgement is right because the file was, the file is right because nobody
  acts on an old judgement, which is what a second handler would do.
* `SchedulingProofs`, loop: `QuotaInv` budgets what a batch under way may still add
  (own + unlaunched <= Target - 1 + BatchSize), the strengthening that survives midnight,
  where the day's counts go back to zero in the middle of a batch. `RotationInv`: the
  profiles before the one whose turn it is, and only they, are one ahead. `LoopTypeOK` is
  inductive as it stands once the sleep to the next active hour is known to be a number:
  the next active day is chosen as the nearest, and `NatMin` says that there is one.
* `SchedulingProofs`, tasks: `Steps` (rows in hand are what the pass read), `OffInv` (nothing
  that was switched off passes the second look) and `Past` (what was fired lies behind
  clock, table and snapshot) give once per match and off means off.
* `BrowserProofs`, lock: off the breached directories whoever works on a directory holds its
  lock, fresh and beating (`Held`); heartbeats, Chromes and orphans follow their processes
  (`Hearty`, `Chromed`, `Clean`).
* `BrowserProofs`, watchdogs: `OneProbe`. The count of failures is one for all probes,
  so the invariant relates it to what the browser at hand has failed: below the limit while
  a probe is out, not above its strikes, and zero during a pause. It holds until a probe outlives its browser, which is where the
  code stops keeping its promise.
* `ProcessesProofs`, monitor: fields and bounds of the run's record, the agreement of the counters,
  and the gate. `StepsUseUp` is the argument behind `RunEnds`: every step of a run ends it or
  lowers the pair (queries left, rest of the query) lexicographically, and `DescentEnds`
  says that both are natural numbers; only the last inference, from the descent and
  fairness to the leads-to, is TLC's.
* `BrowserProofs`, log: `LogInv` follows a line. One that is not excused has been shown, and
  then nothing will bring it again; or it is still in the ring and on exactly one way: in a
  hand or the queue of the open stream, in what one request for recent lines has been or
  will be answered, or, with the stream shut, above the last number the page has, so that
  the next request brings it (`LineOK`). For the ways to exclude each other the numbers
  have to agree: everything since the last restart has the number of its line less a
  constant (`Numbered`), an answer holds all the ring had up to its highest line
  (`Replies`), and the page's last number was given out or is from before a restart
  (`SeqInv`).
* `ScriptLibraryProofs`: `LibInv` says what each request has read and may still write. One
  request at a time is past clearing the default, and then there is none (`DefaultInv`);
  what is assigned, about to be assigned, or left by a delete between its two statements is
  there or was chased (`AssignInv`); the list a request is about to write is the list that
  was asked for, and differs from the row by that one pin (`PinInv`); a run found its
  script or one was deleted (`ResolvedInv`); what the page holds is the row, or the row has
  a stamp at least as late as the load (`TabInv`, with `StampInv` and `BaseInv`).
  `SavesSeen` needs the last three: it is about a comparison of seconds and not of
  contents.
* `FlowProofs`, flow: that the interpreter does what the text says is a statement on the
  end of the run, and the strengthening relates every state on the way to it. The calls on
  the stack are read as a chain of states: the present one, what the call on top makes of
  it, what the call below makes of that, down to a result (`Leads`). A list of steps makes
  what the rest of it means, a loop what follows the round at hand in the scope around it;
  `Levels` gives each loop its own scope. `FlowInv` says that for whatever the gates still
  decide there is such a chain to a result with the searches and clicks of the whole flow,
  and `FlowTypes` that no scope but the innermost has a flag up. A leaf step then keeps the
  chain below it, a call of a list or a loop unfolds one link into two, a return folds two
  into one, and an abort, which drops the whole stack, is right because it runs through
  every link without another search or click (`Aborted`, down to the least link it has
  reached). No induction over flows is needed: each step unfolds `Meaning` once. `Bodies`
  holds the flows and the lists nested in them, `Well` what the form of a step allows, and
  TLC evaluates both assumptions on the flows of the run.
* `FlowProofs`, migration: `MigrationReplays`. After `FlowReads` nothing moves: what is left
  is that the meaning of the migrated text is the old executor's run, for lists of any
  length. Both are concatenations (`FlattenSeq`) over parts that correspond: a disabled
  step to nothing, a search to the search and the loop over its ads (`SearchReplays`), a
  pipeline to the body of that loop (`PipelineDoes`, `VisitDoes`), a loop to its rounds
  (`LoopReplays`). `Through` is the induction over the parts, once for all of them: where
  each part takes a state in `K[k]` to one in `K[k+1]` and adds the searches and clicks of
  its old step, the whole takes `K[0]` to `K[n]` and adds all of them; it rests on `Upto`,
  the induction over a range that the library's theorems state with an operator. The
  invariants along the way are `InMain` (the flow has no last query until a search) and
  `InBody` (in a round the bindings name the loop's item by its placeholder), and
  where they fail to be kept is where `Faithful` has its conditions: the clause on
  a variable called `query` was found by TLC when the proof asked for it.
* `CardinalityLemmas`: monotonicity and unions, from `FiniteSetTheorems`; the least number
  of a set, from the well-foundedness of `<`, and from it induction over a range.

Only model-checked: liveness, which needs fairness and is out of the prover's reach
(`RegisteredJobFinishes`, `DeadChildFreesSlot`, `LaunchAnswered`, `LaunchesWhenItMay`,
`ScheduleAdvances`, `WedgeEnds`, `RunEnds`). Loops in loops, which the migration does not
reach, would take an induction over the depth of a configuration; `Faithful` leaves them
out for another reason, so no property is without proof for want of it.
Every other property of a passing run is a theorem.

## 6. What is not modelled, and why

* *In the modelled parts of the run lifecycle*: SQL statements that fail ("database is
  locked"), and handlers that end with an exception of their own; a failing start of the
  chrome watcher after the fork; the readiness self-heal in `ensure_profile_ready_to_launch`;
  the deletion of rows by `runs_clear`; a missing psutil; a process that survives a
  kill; grandchildren that keep the output pipe open; two stops of the same run at the
  same time; `BaseException`s in a job. The two reads of the row check in *CheckRows*
  are one step, as are the three statements of *StartThreadFails*. A scheduler that was
  started from the command line is not in the pid file and not in `SchedulerControl`.
* *In the others*: the fields of a cron expression (a test of one minute, without state);
  windows that cross midnight (`active_hours` [22, 6], which the code's test never finds
  open); the page actions of a flow and the query expansion; what happens inside a page
  (parsing, clicks, warm-up); the options and payload Chrome is started with; traffic
  collection; session files; providers of rotations beyond what a call may return.
* *Parts*: fingerprint tables and validators, cookie data, cryptography, banners and
  paths have no behaviour beyond one call. The cascade that deletes a profile
  (database.py:4552) is a list of autocommitted deletions, one per table, and what a
  remainder means differs from table to table. Backup synchronisation copies files under
  one lock. Front end (apart from the log page), C++ patches, build scripts and
  documentation are not part of a protocol. Anything that drives Chrome or the network is
  left to tests. Much of the repository is of this kind, which is why the map covers a
  modest share of its lines.

## 7. What is left

In order of importance:

1. `ProfileDelete`: the cascade over autocommitted statements with crashes, and the
   readiness self-heal that meets its remainders.
2. The parser of cron expressions against a reference definition.
3. Backup synchronisation, the extension pool's installs, and the recorder's sessions.
