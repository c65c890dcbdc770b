# A verification of process-launcher

process-launcher is an HTTP service that starts child processes, keeps track of
them, restarts declared services, and runs one-shot jobs that are kept in SQLite
and recurring jobs declared in YAML. This directory holds TLA+ models of its
state machines, TLC configurations that check them on small instances, and
proofs that TLAPS checks for every instance. Source paths below are relative to
the repository; `process.py` and the like are files of `src/process_launcher/`.

## 1. The system

| Component | State | Operations | Hard behaviour |
|---|---|---|---|
| `ProcessManager` (`process.py`) | `processes`, a table from pid to `TrackedProcess` (published `info`, `stop_requested`, `process_group_exited`); one watcher and one output thread per child; one timeout task per child | `start_process`, `stop_process`, `stop_all`, `_enforce_timeout`, `_wait_for_exit`, `_deliver_exit` | threads and coroutines share a handle with few locks; groups outlive leaders; pids are reused; SIGTERM is ignored; a signal may be refused; the heartbeat log may raise |
| `ScheduledManager` (`scheduled.py`) | `_jobs` in memory, rows in SQLite, one sleeping task per pending job in `_tasks` | add, update, cancel, `_delayed_run`, `_mark_scheduled_exit`, `recover_pending`, shutdown | crash between commit and launch; memory is written before the store; a write may raise; recovery under three misfire policies; the local clock changes during a sleep |
| `ServiceMonitor` (`service_monitor.py`) | per service: pid, status, failure chain, last restart task | start, `_handle_exit`, `_restart_after_delay`, restart, `reset_circuit_breaker`, shutdown | exits of old instances, sleeping restarts and requests meet in any order |
| `PeriodicManager` (`periodic.py`) | declarations, one loop per enabled job, `_active_runs` (one slot per label), rows in SQLite | `next_run_after`, `_run_loop`, `_start_run`, `_mark_periodic_exit`, reload, start, shutdown | lost callbacks are reconciled by pid; writes raise between launch and bookkeeping; reload under running children; late loops and changes of the clock |
| `SQLiteStore` (`storage.py`) | rows and the open transaction of one connection; schema version | upserts, queries, marking stale rows, migrations | a failed commit leaves its row for a later commit or is rolled back; several launchers migrate one file statement by statement |
| HTTP server (`server.py`) | the managers in `app.state` | handlers, start-up, shutdown | order of start-up and shutdown; a start-up that fails in the middle |
| `HeartbeatLogger`, `OutputLogger` (`log.py`) | heartbeat files by day, output files by start | append, query, retention | writes may raise; retention deletes files that threads still write to; a child blocks on a full pipe |
| Configuration, models, CLI (`config.py`, `models.py`, `cli.py`) | none after start-up | parsing and validation | none for a model checker |

Interaction. The HTTP handlers call the managers on one asyncio event loop. Every
manager starts children through `ProcessManager.start_process` and learns of
their end by the exit callback, which the watcher thread queues on the loop.
`ServiceMonitor` also calls `stop_process`; `PeriodicManager` also reads the
process table. `ScheduledManager` and `PeriodicManager` write through one SQLite
connection. Shutdown runs when the server has finished its requests: the loops
and timers are cancelled, then `ServiceMonitor` is told, then `stop_all` runs,
then the store is closed (`server.py:304-322`).

What makes each component correct:

- ProcessManager: nothing is published as ended while its group lives; a stop and a
  shutdown end, and leave nothing behind unless a signal is refused; the verdict
  matches what was asked; the callback comes at most once, and comes.
- ScheduledManager: at most one launch per job whatever crashes; a launch is
  committed before it happens; timers match pending jobs; terminal statuses stay.
- ServiceMonitor: one instance; the breaker opens at its limit and holds; a
  stopped service stays down; a failed one comes back; nothing starts in shutdown.
- PeriodicManager: `skip` means no overlap; an ended run does not block its job
  for ever; the history is true and the status a run ended with does not change.
- Schedules: each time a schedule names is waited for once, in turn, however late
  the loop is; a loop that found its first run goes on.
- SQLiteStore: a recorded version is complete; each migration runs once; a launcher
  that is up has the whole schema; every launcher gets up.
- Logs: nothing recent is deleted; an ended process has its output written; a child
  never waits for ever on its pipe.

## 2. Modules

| Module | Models | Builds on |
|---|---|---|
| `ProcessLifecycle` | what `ProcessManager` promises its callers, abstractly | |
| `ProcessManager` | `process.py` on a POSIX host: threads, coroutines, signals, groups, pids | implements `ProcessLifecycle` |
| `JobHistory` | what the database remembers of one-shot jobs, abstractly | |
| `ScheduledManager` | `scheduled.py`, the table `scheduled_jobs`, the handlers of `/run` and `/scheduled` | implements `JobHistory` |
| `ServiceMonitor` | `service_monitor.py`, start-up and shutdown | instantiates `ProcessLifecycle` |
| `PeriodicManager` | `periodic.py` but for the times, the table `periodic_runs` | instantiates `ProcessLifecycle` |
| `PeriodicSchedule` | `next_run_after`, the cron matcher and the times of `_run_loop` | |
| `SchemaMigration` | opening and migrating the database (`storage.py`) | |
| `LogFiles` | `log.py`, the output thread and the watcher's join (`process.py`) | |
| `MC...` | constants and symmetry sets for TLC, where a cfg cannot give them | the module named |
| `...Proofs` | the theorems about the module named | the module named |
| `ProcessManagerRefinement` | `ProcessManager` implements `ProcessLifecycle`, and what follows | `ProcessManagerProofs` |

The link between the layers is `ProcessLifecycle`: a child lives, its group ends,
a verdict is reached once, it is published, and then the callback runs at most
once. `ProcessManager` is shown to implement it, by TLC on an instance and by
proof for all, so `ServiceMonitor` and `PeriodicManager` may assume it instead of
the threads and signals behind it; and these are proved to do nothing with a child
that it does not allow. `ScheduledManager` needs even less of it (a
child that ends, a callback at most once) and states that itself.

`PeriodicManager` lets a loop come due at any time and looks at what a run does;
`PeriodicSchedule` looks at when one loop comes due and leaves open what becomes of
the run. In the code the two meet in one place only: a loop awaits nothing but its
sleep, so what a run does can only make it late, and `PeriodicSchedule` takes any
lateness.

History variables record what the code forgets, so that properties can say which
cases they are about; no action reads one. They are `launches` and `confirmed`
(`ScheduledManager`), `restarted` and `raised` (`ServiceMonitor`), `unsaved` and
`overlapped` (`PeriodicManager`), `last` (`PeriodicSchedule`), and
`written`, `wrote` and `late` (`LogFiles`).

### ProcessManager

A handle is one `TrackedProcess`. `proc[h]` holds the operating system's side
(leader, other members of the group, pid) and the handle's (published status,
`stop_requested`, `process_group_exited`, where its watcher is, its callback);
`table` is `self.processes`. `call[c]` is where a `stop_process` call is; callers
are HTTP requests, the timeout task of a handle, and the entries of `stop_all`'s
gather. The watcher's steps (`WatcherReaps`, `WatcherSeesGone`, `Judge`,
`Publish`, `LogExit`) follow `_wait_for_exit` statement by statement where another
thread can see the difference. `BeginStop`, `Mark` and `StopSignals` are the synchronous
part of a stop: the look at the status, the setting of `stop_requested`, the signal.
Watchers take no lock for what they publish and may run between any two of these, so
that a child may be marked that has just been published; the loop may not
(`LoopFree`).

`start_process` never suspends, so it is one step. Signals: SIGTERM may or may not
end a child, SIGKILL ends the whole group at once. The check of
`process_group_exited` and the `killpg` after it are one step.

A signal may be refused (`Refused`): Darwin answers EPERM for a group of which only an
unreaped leader is left, and every system does for processes of another user. A group
belongs to one user, so a refused signal reaches nobody. `_signal_process_tree` catches
`ProcessLookupError` only, so the stop raises (`StopRaises`), after the mark. If it is
an entry of `stop_all`'s gather, `stop_all` is over with it (phase "aborted"); the other
entries, which have all got to their first wait, go on until the loop is closed, which
cancels them (`LoopCloses`). `Refusals` says which of the two causes there are.

### ScheduledManager

A job is held in memory (`mem`), committed (`row`) and in the connection's
transaction (`open`). `Saved` and `Unsaved` are the two outcomes of `_update_job`:
memory changes in both. A write that raises leaves the transaction unchanged
(the statement failed), holding the row (the commit failed), or rolled back.
`sleeping` holds the delayed runs that sleep and `slot` the task `_tasks` names.
An awake delayed run goes through `Claim`, `Spawn`, `Record`, so that `Crash` can
fall between its commits. A stop of a job's child that raises during the shutdown ends
the launcher without closing the store, which is a `Crash` here.

There are two clocks. `run_at` is converted to naive local time (`_to_naive_local`) and
compared with, and subtracted from, `datetime.now()`: that is `Wall(now)`. The difference
is then slept in elapsed time, `now` (`Wake`). The local clock is changed once, at
`ChangeAt` by `Shift`, as by daylight saving time or by hand. "On time" therefore means:
when the local clock shows `run_at`, or would show it if nobody had changed it
(`OnTime`, `Due`).

A job is marked running before its child is started, although docs/rfc.md:27 says "marks
a job `running` after it starts the child process". The order of the code is the one
that keeps a crash from starting a job twice, and `LaunchIsClaimed` is about it.

What is left of all this in the database is `JobHistory`: the committed status of a
job only moves on, along the arrows of `After`, and a child is started once, for a
job recorded as running. The refinement mapping forgets memory, tasks and the open
transaction (`record` is the status in `row`, `launched` the jobs with a child), so
that `HistorySpec` says that no failed write, late commit, crash or restart shows up
in the rows as anything but such a move. `After` has two arrows nobody would draw
first: a job whose first row was never written may appear as cancelled, and a job
marked failed because its pid could not be recorded may still be completed.

### ServiceMonitor

An instance is one `start_process` call, which may raise before the child exists or
after. `naps[s]` counts sleeping `_restart_after_delay` tasks, of which the code
remembers the last; all naps of a service are equally long, so the last is also the
one that would wake last, and `Shutdown` cancels one. `call[r]` is a restart request
waiting in `stop_process`. `HandleExit` is separate from `Tell` because it is a
coroutine the callback only schedules. `reset_circuit_breaker` has no endpoint; it is
called, as in the tests, on a service whose breaker is open. Whether
`restart_window` has passed since the first failure of a chain is left open each
time.

An exit may be lost: the watcher publishes it, cannot write its event, and dies before it
has queued the callback (`WatcherDies`). A restart request may fail between the stop and
the start, when `stop_process` raises (`RestartRaises`). In both cases nobody starts the
service again, and `FailedServiceReturns` excuses them (`raised`).

A restart by hand neither cancels a sleeping restart nor keeps a second request
out, so one instance, a breaker that holds and stops that are respected are
properties of services nobody has restarted by hand (`restarted`);
`NoStartAfterShutdown` and `FailedServiceReturns` are properties of all.

### PeriodicManager

When a loop wakes is left open. `at` is the loop that is inside `_start_run`; it
goes through reconciliation, the decision to skip, the first write, the launch and
the second write, and a crash may fall between them. `active` is `_active_runs`;
`named` holds the runs whose entry there has a pid and an output file; `shadowed`
the runs whose entry in the process table is another child's. Skipped runs get no
row of their own, since no code path reads it again; the effect of their write on
the transaction is kept. `_update_run`'s branch for a run that ends before
`start_process` returns is unreachable, because nothing suspends in between.

A start may raise before its child exists (`SpawnMayFail`) or after. A row stands for its
status: a callback that comes after a reconciliation writes the same status again, with a
new `completed_at` and `last_error`, which no property looks at.

`SkipNeverOverlaps` is about jobs all of whose runs were started under `skip`
(`overlapped` holds the others) and about children with a watcher;
`HistoryIsCurrent` about runs no write of which has raised (`unsaved` holds the
others).

### PeriodicSchedule

One loop at a time, in real time (`now`, `since`, `alarm`) and in the wall clock time
of the job's zone (`next`, and every argument of `NextRunAfter`), both in seconds;
`Wall` goes from one to the other. Two aware datetimes of one zone are compared and
subtracted by their wall clock readings, so the loop computes in wall clock time
and sleeps that many real seconds. `Alarm` is `max(0, next_run - now)`; `Resumed` the
second `_run_loop` adds before it looks for the next run. `Begin` computes the first
run outside the `try` of the loop: if that raises the loop is dead. `WakeRaises` is
the same failure inside the `try`. A cron field is the set of the parts before the
first one that cannot be read: parts are tried from left to right, and a part that
matches keeps the later ones from being looked at. Day of month and month are
accepted by the validation and looked at by nobody.

A schedule is any that `validate_schedule` lets pass, among them "unparsable": a
reload takes over a time of day, a weekday or a zone without looking at it.

### SchemaMigration

`Statements` is `migrate` from its first statement to its last, and `pc[l]` the one a
launcher is at. Outside a transaction a CREATE commits itself; the INSERT of a
version opens a transaction that the next line commits; migration 3 runs between
BEGIN IMMEDIATE and COMMIT and looks again, in the transaction, whether it is still
to be done. `db` is the committed file and `draft` what the one open write
transaction makes of it. A statement that finds the lock taken waits; running into
the busy timeout is a `Fault`, like a crash or a full disk. Migrations 1 and 2
are not transactions, so a fault may leave a file with some of their tables and no
version, and no launcher left in the middle (`CutOff`). A launcher that fails
starts over from an empty connection. It may be a second launcher, or the same one
started again.

### LogFiles

A child prints lines into a pipe, an output thread copies them, the watcher joins
that thread for five seconds (`late` holds the children it gave up on) and publishes
the end. Events are stamped before the logger's lock is taken and go to the file of
the day of their stamp, after whatever delay. Both retentions run inside the calls
that create or write a file (`Cleaned`), and go by the time of the last write. An
output file that was deleted takes the lines a thread still copies with it.

## 3. Runs

Every run listed in `PROJECT.json` checks the properties named there; each
property comes with a mutant, a small change of one definition of the kind a bug
would make, under which TLC finds the property violated. The mutants stand next to
what they change and are marked as such.

| Run | Instance | Shows |
|---|---|---|
| `process_pids` | 2 handles, 2 pids that are recycled, 1 request, log fails, signals refused | groups are gone before a status is terminal or a stop joins; nothing with a pid of its own survives a `stop_all` that returns or is misreported; refinement of the life cycle |
| `process_liveness` | 1 handle, 2 requests, signals refused | stops end, exits are delivered |
| `scheduled_jobs` | 2 jobs, 4 instants, 2 run times, 2 policies, clock put back, store works | timers, collisions, completion, finality, progress |
| `scheduled_store` | 2 jobs, 2 instants, 1 policy, clock put forward, store fails | at most one launch, write-ahead, no stray task, refinement of the history |
| `scheduled_reloaded` | 1 job, store fails | violation, see below |
| `service_faults` | 1 service, 3 starts, 2 requests, breaker at 2, starts, stops and events may fail | one instance, breaker, stops respected, nothing starts in shutdown, failed services return |
| `service_breaker` | 1 service, 4 starts, 1 request | violation, see below |
| `periodic_faults` | 1 job, 2 runs, store and log fail, pids recycled, callbacks lost | no overlap, history true, its statuses final, slot freed |
| `periodic_overlap` | 1 job, 3 runs, starts work | violation, see below |
| `schedule_calendar` | 7 schedules, 3 zones, 3 starts, 3 delays, 2 runs, 1 reload | nothing skipped, nothing twice, intervals evenly spaced, sleeps of the right length, loops go on |
| `schema_launchers` | 3 launchers, a file of any version, 2 faults | complete versions, each migration once, no collision in an upgrade, everybody gets up unless a fault cut the file off |
| `log_retention` | 2 children, 1 label, 4 instants, pipe of 1, 2 lines, log fails | nothing recent deleted, output complete, pipes drained |

Type correctness is proved of every module with variables but the two abstract ones,
and not checked by TLC again.

Bounds. Two handles are enough for every interaction through the process table,
since an entry has one previous owner at a time; two requests race for one child.
Two jobs can collide, and two run times let a job be moved both ways around another.
In `scheduled_jobs` the local clock, though put back, shows the last run time by the
last instant, so every task that sleeps still wakes, some of them across the change;
in `scheduled_store` the clock jumps past a run time. One misfire policy is enough
for `scheduled_store`, which is about writes: the others write once more during a
start-up, where a write that raises ends the launcher; the proof of `HistorySpec`
covers all. Three starts of a service reach a breaker limit of two and are enough
for two requests to race a sleeping restart; services share nothing but the process
table, so one is enough. Two runs can overlap; the third run of `periodic_overlap`
starts after two. The seven schedules are one of each kind, a weekly one across the
end of the week, a cron expression with all three kinds of parts, one that becomes
unreadable and one that never was readable; the starts are hours before, an hour
before and just after a change of the clocks (or none), and the longest delay is
longer than a day, so several runs are overdue at once. Three launchers are enough
for two to fail while a third goes on, two faults for one to hit a recovery from
another. The four instants of `log_retention` are two days with a retention of one
instant, so that a day's file can be due while an event of that day is not; two
children of one label that start in one instant share a file. `MaxTime`,
`MaxStarts`, `MaxRuns`, `MaxReloads`, `MaxFaults`, `MaxLines` and `Handles` bound
the counters; nothing else is bounded. The proofs have no such bounds.

`CHECK_DEADLOCK FALSE` stands where the modelled system stops by design: after a
shutdown, at the bound of a clock or counter, when a loop is dead, or when nobody
starts the launcher again.

Disagreements the runs exhibit:

- `scheduled_reloaded`: `_update_job` changes memory before the write
  (`scheduled.py:163-165`). A cancel whose write raises is listed as cancelled and
  runs after the next restart; docs/prd.md:136 says cancelled jobs are not reloaded.
- `service_breaker`: `restart_service` does not cancel the sleeping restart task, so
  a breaker can open (`service_monitor.py:121`) with a restart still to come;
  docs/rfc.md:55 says it stays open until a caller resets it.
- `periodic_overlap`: `_active_runs` has one slot per label (`periodic.py:137`). Run 2 is
  started beside run 1 under `run_concurrently` and takes the slot; run 2 ends, which
  frees it; a reload declares the job `skip`, and the next wake-up starts run 3 while
  run 1 is active; docs/prd.md:175 says `skip` prevents that.

Other limits met while modelling. No run exhibits them, but the properties above
exclude them by name:

- a restart request during a restart delay, or two at once, can leave two instances
  of a service;
- a watcher that publishes up to five seconds late may write over the table entry of
  a new child with its pid (`process.py:263`), which then cannot be found by pid; with
  pids handed out twice neither `NothingSurvivesShutdown` nor
  `StoppedIsNeverReportedExited` holds of the children concerned;
- a stop whose signal is refused raises, which ends `stop_all` (`process.py:134`, `:150`).
  With two children, one of them an unreaped leader in an emptied group for which
  `killpg` answers EPERM, the other has got SIGTERM and is in its grace period when the
  loop is closed; if it does not end by itself nobody sends it SIGKILL, although
  docs/working.md:49-51 says that stops escalate and that this prevents orphans.
  `NothingSurvivesShutdown` is what holds of a `stop_all` that returns, and
  `OrphansNeedARefusal` is proved: `NoOrphans` holds where no signal is refused;
- a child that exits just before a stop is reported killed;
- a job is marked running before its child is started (`scheduled.py:190`), so after a
  crash a row may say running of a job that was never launched;
- the delay of a job is a difference of naive local times (`scheduled.py:62`), so a job
  that sleeps while the clock is put back starts early by that, and late if it is put
  forward; `Due` and `OnTime` allow for that and no more;
- an update whose write raises leaves the job without its timer (`TasksTracked` is what
  is left of `PendingHasTimer` then);
- a service whose stop is refused during a restart request, or whose watcher dies of an
  event it cannot write, is not started again;
- a start whose heartbeat event cannot be written leaves a child that nobody watches,
  and frees the slot of a `skip` job;
- the next run of an interval is computed from a second after the last scheduled time
  (`periodic.py:124`), so runs are `every_seconds` and one second apart, while
  docs/prd.md:172 says "run every `every_seconds`"; `EvenlySpaced` says that they are
  evenly spaced and leaves open how far;
- a reload accepts a time of day, a weekday or a zone that cannot be parsed, and the
  loop of that job ends without a word (`periodic.py:117`);
- a cron part that cannot be read and is reached only after some runs makes the loop
  raise and retry without any delay, though its message says "retrying at next
  scheduled time" (`periodic.py:130`);
- after clocks are put back a reload may run a time again, and a run whose sleep
  spans a change comes early or late by it;
- a crash or failure between the statements of migration 1 or 2 leaves a file on
  which every later start fails (`storage.py:42`); of two launchers that open a new
  file at the same time one fails and must be started again;
- a line that is not text in the expected encoding, or a full disk, ends the output
  thread, and the child waits for ever once its pipe is full (`process.py:237`);
- two starts with one label within a second share an output file (`log.py:89`), and a
  process that is quiet for longer than the retention loses its file while it runs.

## 4. Fairness

Weak fairness of watcher and output threads, because the system runs threads. Strong
fairness of queued callbacks and of the steps of a `stop_process` call: every wait
in a stop has a timeout, and the loop takes what is ready in turn, so a request that
comes, raises and comes again cannot keep it from the others for ever. In
`ServiceMonitor` a callback comes if its watcher does not die of an event first.
`ScheduledManager` adds that time passes and that a start-up goes on;
`ServiceMonitor` that a nap ends. `PeriodicManager` assumes that a loop comes due
again and again, and strong fairness of a reconciliation that can be written: a
store that is asked again and again answers at some time. Its exit callbacks get no
fairness, because `SlotFreed` is about their loss. `SchemaMigration` assumes that a
launcher that failed to start is started again and that it goes on while nobody else
holds the lock; a launcher that is up need not go down. Nothing else is assumed of
children, callers, shutdowns or restarts. `ExitIsDelivered` needs a heartbeat log
that works and is checked with one: an exit whose event cannot be written is not
delivered (`process.py:265-278`). `FailedServiceReturns` and `OutputDrains` name the
failures that refute them.

## 5. Proofs

TLAPS checks these theorems for every value of the constants, from the named
assumption of the module (`ConstantsAssumption`, `JobsAssumption`,
`ServiceAssumption`, `PeriodicAssumption`, `ScheduleAssumption`,
`SchemaAssumption`, `LogAssumption`), which says no more than what values the
constants may have.

- `ProcessManagerProofs`. `IInv` is `TypeOK` and four parts. `ProcInv` ties each
  handle's fields together: a watcher beyond its poll, `process_group_exited`, or a
  verdict mean that the group is gone. This alone is not inductive: whether
  `TreeExists` says anything about a handle depends on nobody else having its pid,
  hence `OneLivePerPid`; a stop's target and position must be consistent with the
  handle, which for one that is about to signal includes the mark (`CallInv`); and a
  sleeping timeout belongs to a started child (`TimersStarted`). From it:
  `TypeCorrect`, `TerminalTreesGone`, `StoppedTreesGone`. With pids that are not
  recycled, moreover, a table entry never changes hands, a child that lives is still
  published as running, and a gather in progress accounts for every child not yet
  stopped (`SInv`). From that: `ShutdownIsClean`, `StopsAreReported`, and, where no
  signal is refused and so no `stop_all` is aborted, `OrphansNeedARefusal`.
- `ProcessManagerRefinement`. `ImplementsLifecycle`: each action maps to one step of
  `ProcessLifecycle` or to none; `IInv` is what rules out that a SIGKILL ends two
  groups in one step or that a verdict changes. A mark on a published child is a step of
  the life cycle too, and changes no verdict. What holds of the abstract life cycle
  can then be read back into the process table (`LifeMoves`, `Promised`):
  `ReportsAreTrue`, `VerdictsAreFinal`, also with recycled pids.
- `ScheduledManagerProofs`. `SInv` says that a job that was launched is not pending
  in any of its three places and that a delayed run past its claim has a row that
  says running; the step that needs it is a crash followed by `Boot`, which turns
  such rows into failed ones. From it: `TypeCorrect`, `LaunchedAtMostOnce`, and the
  action property `LaunchesAreClaimed`, with a store that may fail. `RInv` adds
  `Done`, that no copy of a record claims a success that did not happen, and, for a
  store that works, `Kempt`: memory and rows agree, a job with a child to be told of
  is running, a pending job sleeps. `Moves` sums up what a step makes of a job. A
  delayed run is made on time (`WakeOnTime`) and stays so while time passes,
  whenever the clock is changed (`DueLater`, `NextTick`). From these:
  `CompletedJobsExitedZero` in general, and `PendingJobsHaveTimers`,
  `CollisionsAreConfirmed` and `TerminalJobsAreFinal` with a store that works
  (`scheduled_reloaded` shows why). `HistInv` is what a store that fails leaves of
  `Kempt`: the open transaction is one move of the history ahead of the row at most;
  a job pending in memory was never claimed in either, whatever was rolled back; a
  job with a task is pending in its row; one whose child is being started is running
  in both; and one whose child was not told of has not been completed. A write is a
  move of the history for its own job because of what `HistInv` says of the state it
  is made in, and for the others because it commits what they have in the open
  transaction (`WriteHist`, `HistKept`). From it `KeepsHistory`, that
  `ScheduledManager` implements `JobHistory`, and `TasksAreTracked`, that
  `TasksTracked` holds; and from `KeepsHistory` alone, by arguments about
  `JobHistory`, `LaunchedJobsStayClaimed` and `EndedRowsAreNotReloaded`, the part of
  the sentence in docs/prd.md that `scheduled_reloaded` refutes of the memory and
  that is true of the database.
- `ServiceMonitorProofs`. There is one right to start a service, and it is in one
  place: with the start-up, an instance whose exit is still to be handled, or a nap
  (`Token`). While the breaker is open, or after a stop, nobody has it (`Breaker`).
  A restart by hand makes a second one, hence "unless restarted" in each; a watcher
  that dies and a stop that raises only lose one. From it: `ServicesRunOnce`,
  `StoppedServicesStayDown`, `OpenBreakersHold`, `BreakersTripAtTheLimit`;
  `NothingStartsAfterShutdown` needs only that a request waiting in a stop keeps the
  server from shutting down (`Calls`). `MonitorUsesLifecycle`: every step is one of
  `ProcessLifecycle`, which takes that a restart request finds a started instance in
  the runtime it reads.
- `PeriodicManagerProofs`. `RunInv` ties row, open transaction and child of a run
  together; its part `Settled` says that a terminal status is what the callback would
  make of the child, which is why a reconciliation and a callback that comes later
  agree. `LoopInv` says what a loop inside `_start_run` holds, `SlotInv` that a child
  of a `skip` job the launcher still waits for holds the slot. From it:
  `CompletedRunsExitedZero`, `RunningRunsAreWatched`, `TerminalRowsAreFinal`,
  `SkippedJobsNeverOverlap`. `PeriodicUsesLifecycle`: every step is one of
  `ProcessLifecycle`.
- `PeriodicScheduleProofs`. First the functions, without the loop: a computed run is
  later than the time it is computed from (`NextIsLater`) and is the first time the
  schedule names (`NextIsNext`, with `NamedFits` for what "names" means); a cron
  schedule that matched once matches a week later, so a year is far enough to look
  (`CronGoesOn`), and every weekday comes within eight days (`WeeklyGoesOn`). Then
  `ScheduleInv`: what a sleeping loop waits for, that the last run is over by the
  wall clock unless clocks were put back, `OnTime` itself, and how far two runs of
  an interval are apart (`Paced`). From it: `LoopsSleepOnTime`,
  `IntervalsDoNotDrift`, `LoopsGoOn`, `NothingRunsTwice`, `NothingIsSkipped`.
- `SchemaMigrationProofs`. `MInv`: what each line of `migrate` has behind it (`Made`,
  `Passed`), what an open transaction holds at each line (`Drafted`) and that it
  belongs to the one launcher at such a line, and that two launchers are never both in
  the middle of migration 1 or 2 (`Alone`), because the second CREATE raises. From
  it: `RecordedVersionsAreMade`, `LaunchersUpAreReady`, `MigrationsRunOnce`,
  `UpgradesNeverCollide`.
- `LogFilesProofs`. An event is stamped before it is written, and its file is chosen by
  the stamp, so the file of a recent event was written no earlier than the event
  happened (`Filed`), and a cleanup spares files written recently (`Spares`); the same
  of the output file and the last line written to it (`Held`), whoever else writes to
  it. `Flow` accounts for the lines of a child: said, in the pipe, in the file. From
  `LInv`, which joins these: `LogTypes`, `EventsAreKept`, `OutputIsKept`,
  `OutputIsComplete`.

Only model-checked: all liveness properties (`StopTerminates`, `ExitIsDelivered`,
`PendingResolves`, `FailedServiceReturns`, `SlotFreed`, `GetsUp`, `OutputDrains`).
Every safety property of a passing run is a theorem. Only proved, not checked by TLC
again: type correctness, `UpIsReady`, `NoOrphans` and what is derived from the two
refinements. Liveness under fairness and ENABLED are outside what the
installed provers do; there is no recursion over data in these modules.

## 6. What is not modelled

Assumptions and omissions: a POSIX host (the branch of `process.py` without process
groups is left out); where the probe of a group answers EPERM the look through `ps` is a
delay, while EPERM for a real signal is modelled; read-only
endpoints, formatting, and the queries over logs, jobs and runs, which change
nothing; a start-up write of a manager that raises ends the start-up (`Crash`); the
server drains requests before its shutdown; a callback that comes after the store is
closed has no effect; a zone and
the local clock change at most once in the time looked at.

Not modelled at all: `cli.py`, and in `config.py` and `models.py` everything but the
statuses, the limits and what validation lets pass: they turn input into values once
and keep no state. `POST /shutdown` only signals its own process.

The start-up of all managers in one launcher is modelled in each of them and not as a
composition. They share the process table and the connection, and each module has
what the others do to these among its own steps (recycled pids and `Shadow`,
`OthersWrite`, `phase`). What a composition would add is a start-up that fails in the
middle (`server.py:301`): it happens outside the `try` of the application's life
span, so services already started are left running. No document says what should
become of them.

What could still be added: a variant of `ServiceMonitor` in which a restart by hand
cancels the sleeping one, to see whether `BreakerHoldsAlways` then holds.
