-------------------------- MODULE ScheduledManager --------------------------
(***************************************************************************)
(* Durable one-shot jobs: ScheduledManager (src/process_launcher/          *)
(* scheduled.py), the scheduled_jobs table of SQLiteStore (storage.py) and *)
(* the HTTP handlers that use them (server.py), across crashes, shutdowns  *)
(* and restarts of the launcher.                                           *)
(*                                                                         *)
(* A job lives in three places: in the memory of the running launcher, in  *)
(* the rows committed to SQLite, and in what the connection's open         *)
(* transaction would commit, which differs from the rows only after a      *)
(* write that raised.  Its delay is a sleeping task (_delayed_run); _tasks *)
(* names the task the manager believes in.                                 *)
(*                                                                         *)
(* Handlers, delayed runs and exit callbacks share the event loop and none *)
(* of them awaits anything between reading a job and writing it, so each   *)
(* is one step; a delayed run takes several, because a crash may fall      *)
(* between its commits and the start of the child.                         *)
(*                                                                         *)
(* There are two clocks.  Sleeps are measured in elapsed time, now; run_at *)
(* is compared with, and subtracted from, the naive local time of          *)
(* datetime.now(), Wall(now), which daylight saving or an administrator    *)
(* changes once while the model runs.                                      *)
(***************************************************************************)
EXTENDS Integers

CONSTANTS
  Jobs,           \* job ids
  MaxTime,        \* time stops here: a bound for model checking
  RunTimes,       \* the run_at callers ask for, as naive local times
  ChangeAt,       \* the instant at which the local clock is changed,
  Shift,          \* and by how much
  Policies,       \* misfire policies that callers ask for
  StoreMayFail    \* may a write to SQLite raise?

MisfirePolicy == {"run_immediately", "skip", "fail"}

ASSUME JobsAssumption ==
  /\ MaxTime \in Nat
  /\ RunTimes \subseteq Nat
  /\ ChangeAt \in Nat /\ Shift \in Int
  /\ Policies \subseteq MisfirePolicy
  /\ StoreMayFail \in BOOLEAN

VARIABLES
  now,          \* elapsed time
  phase,        \* "down", "recovering", "up", "stopping"
  mem,          \* [Jobs]: _jobs; while down, what the last launcher believed
  row,          \* [Jobs]: the committed rows
  open,         \* [Jobs]: the rows as the connection's transaction has them
  sleeping,     \* the delayed runs not yet awake, as <<job, wake-up time>>
  slot,         \* [Jobs]: _tasks, by their wake-up times
  stage,        \* [Jobs]: how far an awake delayed run is
  todo,         \* pending jobs recover_pending has still to look at
  child,        \* [Jobs]: the child launched last for the job
  told,         \* jobs whose exit callback has run for that child
  launches,     \* [Jobs]: history, how many children were started
  confirmed     \* [Jobs]: history, was run_at set with confirm_conflict?

store == <<row, open>>
tasks == <<sleeping, slot, stage>>
children == <<child, told, launches>>
vars == <<now, phase, mem, store, tasks, todo, children, confirmed>>

NoTask == -1

\* What datetime.now() reads at t.
Wall(t) == IF t >= ChangeAt THEN t + Shift ELSE t

Terminal == {"completed", "failed", "cancelled", "missed"}
Ends == {"exited0", "exited1", "killed0", "killed1"}   \* status and exit code

Job == [status : {"absent", "pending", "running"} \cup Terminal,
        runAt  : Nat,
        policy : MisfirePolicy]

PendingJob(t, m) == [status |-> "pending", runAt |-> t, policy |-> m]

NoJob == [status |-> "absent", runAt |-> 0, policy |-> "run_immediately"]

TypeOK ==
  /\ now \in 0..MaxTime
  /\ phase \in {"down", "recovering", "up", "stopping"}
  /\ mem \in [Jobs -> Job] /\ row \in [Jobs -> Job] /\ open \in [Jobs -> Job]
  /\ sleeping \subseteq Jobs \X Nat
  /\ slot \in [Jobs -> Nat \cup {NoTask}]
  /\ stage \in [Jobs -> {"none", "spawn", "record", "fail"}]
  /\ todo \subseteq Jobs
  /\ child \in [Jobs -> {"none", "live", "lost"} \cup Ends]
  /\ told \subseteq Jobs
  /\ launches \in [Jobs -> Nat]
  /\ confirmed \in [Jobs -> BOOLEAN]

Init ==
  /\ now = 0
  /\ phase = "down"
  /\ mem = [j \in Jobs |-> NoJob] /\ row = mem /\ open = mem
  /\ sleeping = {}
  /\ slot = [j \in Jobs |-> NoTask]
  /\ stage = [j \in Jobs |-> "none"]
  /\ todo = {}
  /\ child = [j \in Jobs |-> "none"]
  /\ told = {}
  /\ launches = [j \in Jobs |-> 0]
  /\ confirmed = [j \in Jobs |-> FALSE]

-----------------------------------------------------------------------------
(* Memory first, then the store.                                           *)

Status(j, s) == [mem[j] EXCEPT !.status = s]

\* _update_job: the commit takes what earlier failed commits left along.
Saved(j, r) ==
  /\ mem' = [mem EXCEPT ![j] = r]
  /\ open' = [open EXCEPT ![j] = r]
  /\ row' = open'

\* _update_job raises, with memory changed: the statement failed, the commit
\* failed and left it in the open transaction, or all of that was rolled back.
Unsaved(j, r) ==
  /\ StoreMayFail
  /\ mem' = [mem EXCEPT ![j] = r]
  /\ open' \in {open, [open EXCEPT ![j] = r], row}
  /\ UNCHANGED row

\* Coroutines and callbacks run, and no delayed run is in the middle of its step.
LoopTurns == phase \in {"up", "stopping"} /\ \A j \in Jobs : stage[j] = "none"

\* The server takes requests.
Serving == phase = "up" /\ LoopTurns

\* The delay is the difference of two naive local times, slept in elapsed time.
Wake(r) == IF r.runAt > Wall(now) THEN now + (r.runAt - Wall(now)) ELSE now

\* schedule: a new task next to those in s.
Schedule(j, r, s) ==
  /\ sleeping' = s \cup {<<j, Wake(r)>>}
  /\ slot' = [slot EXCEPT ![j] = Wake(r)]

\* Mutant: the task is forgotten, not cancelled.
Uncancelled_kept(j) == sleeping

\* The tasks left when the one _tasks has for j is cancelled.
Uncancelled(j) == sleeping \ {<<j, slot[j]>>}

-----------------------------------------------------------------------------
(* HTTP handlers.                                                          *)

Active == {"pending", "running"}

\* Mutant: looks only at pending jobs.
Conflicts_pendingOnly(t, j) ==
  {k \in Jobs \ {j} : mem[k].status = "pending" /\ mem[k].runAt = t}

\* find_conflicts
Conflicts(t, j) ==
  {k \in Jobs \ {j} : mem[k].status \in Active /\ mem[k].runAt = t}

\* POST /run with run_at or delay_seconds; the id is new.
Add(j, t, m, confirm) ==
  LET r == PendingJob(t, m) IN
  /\ Serving
  /\ \A k \in {mem[j], row[j], open[j]} : k.status = "absent"
  /\ confirm \/ Conflicts(t, j) = {}
  /\ \/ Saved(j, r) /\ Schedule(j, r, sleeping)
     \/ Unsaved(j, r) /\ UNCHANGED <<sleeping, slot>>
  /\ confirmed' = [confirmed EXCEPT ![j] = confirm]
  /\ UNCHANGED <<now, phase, stage, todo, children>>

\* PATCH /scheduled/{job_id}.  If the write raises, the old task is cancelled
\* and there is no new one.
Update(j, t, m, confirm) ==
  LET r == PendingJob(t, m) IN
  /\ Serving
  /\ mem[j].status = "pending"
  /\ t # mem[j].runAt => confirm \/ Conflicts(t, j) = {}
  /\ \/ Saved(j, r) /\ Schedule(j, r, Uncancelled(j))
     \/ Unsaved(j, r) /\ sleeping' = Uncancelled(j)
                      /\ slot' = [slot EXCEPT ![j] = NoTask]
  /\ confirmed' = [confirmed EXCEPT ![j] = IF t = mem[j].runAt THEN @ ELSE confirm]
  /\ UNCHANGED <<now, phase, stage, todo, children>>

\* Mutant: a running job can be cancelled too.
Cancellable_active == Active

\* The statuses cancel accepts.
Cancellable == {"pending"}

\* POST /scheduled/{job_id}/cancel
Cancel(j) ==
  /\ Serving
  /\ mem[j].status \in Cancellable
  /\ sleeping' = Uncancelled(j)
  /\ slot' = [slot EXCEPT ![j] = NoTask]
  /\ Saved(j, Status(j, "cancelled")) \/ Unsaved(j, Status(j, "cancelled"))
  /\ UNCHANGED <<now, phase, stage, todo, children, confirmed>>

-----------------------------------------------------------------------------
(* _delayed_run.                                                           *)

\* Mutant: the job is marked running only once its child has a pid.
Claim_unmarked(j, w) ==
  /\ LoopTurns
  /\ <<j, w>> \in sleeping /\ now >= w
  /\ sleeping' = sleeping \ {<<j, w>>}
  /\ stage' = [stage EXCEPT ![j] = "spawn"]
  /\ UNCHANGED <<now, phase, mem, store, slot, todo, children, confirmed>>

\* The sleep is over: mark_running(pid=0), whatever the job's status.  A write
\* that raises ends the task.
Claim(j, w) ==
  /\ LoopTurns
  /\ <<j, w>> \in sleeping /\ now >= w
  /\ sleeping' = sleeping \ {<<j, w>>}
  /\ \/ /\ Saved(j, Status(j, "running"))
        /\ stage' = [stage EXCEPT ![j] = "spawn"]
     \/ /\ Unsaved(j, Status(j, "running"))
        /\ UNCHANGED stage
  /\ UNCHANGED <<now, phase, slot, todo, children, confirmed>>

\* start_process returns.
Spawn(j) ==
  /\ stage[j] = "spawn"
  /\ stage' = [stage EXCEPT ![j] = "record"]
  /\ child' = [child EXCEPT ![j] = "live"]
  /\ told' = told \ {j}
  /\ launches' = [launches EXCEPT ![j] = @ + 1]
  /\ UNCHANGED <<now, phase, mem, store, sleeping, slot, todo, confirmed>>

\* start_process raises: no child, or one nobody watches.
SpawnFails(j) ==
  /\ stage[j] = "spawn"
  /\ stage' = [stage EXCEPT ![j] = "fail"]
  /\ \/ UNCHANGED children
     \/ /\ child' = [child EXCEPT ![j] = "lost"]
        /\ launches' = [launches EXCEPT ![j] = @ + 1]
        /\ UNCHANGED told
  /\ UNCHANGED <<now, phase, mem, store, sleeping, slot, todo, confirmed>>

\* mark_running with the pid; if that raises, the job is marked failed below
\* although its child lives.
Record(j) ==
  /\ stage[j] = "record"
  /\ \/ /\ Saved(j, Status(j, "running"))
        /\ stage' = [stage EXCEPT ![j] = "none"]
     \/ /\ Unsaved(j, Status(j, "running"))
        /\ stage' = [stage EXCEPT ![j] = "fail"]
  /\ UNCHANGED <<now, phase, sleeping, slot, todo, children, confirmed>>

\* mark_completed, mark_failed: the task is forgotten unless the write raised.
Settle(j, s) ==
  \/ Saved(j, Status(j, s)) /\ slot' = [slot EXCEPT ![j] = NoTask]
  \/ Unsaved(j, Status(j, s)) /\ UNCHANGED slot

MarkFailed(j) ==
  /\ stage[j] = "fail"
  /\ Settle(j, "failed")
  /\ stage' = [stage EXCEPT ![j] = "none"]
  /\ UNCHANGED <<now, phase, sleeping, todo, children, confirmed>>

-----------------------------------------------------------------------------
(* The end of a child.                                                     *)

\* By itself, or because a caller, its timeout or the shutdown stopped it.
ChildEnds(j, e) ==
  /\ child[j] = "live"
  /\ child' = [child EXCEPT ![j] = e]
  /\ UNCHANGED <<now, phase, mem, store, tasks, todo, told, launches, confirmed>>

\* Mutant: the exit code alone decides.
Outcome_codeOnly(e) == IF e \in {"exited0", "killed0"} THEN "completed" ELSE "failed"

\* _mark_scheduled_exit
Outcome(e) == IF e = "exited0" THEN "completed" ELSE "failed"

Deliver(j) ==
  /\ LoopTurns
  /\ child[j] \in Ends /\ j \notin told
  /\ told' = told \cup {j}
  /\ Settle(j, Outcome(child[j]))
  /\ UNCHANGED <<now, phase, sleeping, stage, todo, child, launches, confirmed>>

-----------------------------------------------------------------------------
(* The launcher goes down and comes back.                                  *)

\* Tasks, callbacks and the open transaction are gone; children may live on.
\* Also what becomes of a start-up during which a write raises.
Halt ==
  /\ phase' = "down"
  /\ open' = row
  /\ sleeping' = {}
  /\ slot' = [j \in Jobs |-> NoTask]
  /\ stage' = [j \in Jobs |-> "none"]
  /\ todo' = {}
  /\ child' = [j \in Jobs |->
       IF child[j] = "none" \/ j \in told THEN child[j] ELSE "lost"]
  /\ UNCHANGED <<now, mem, row, told, launches, confirmed>>

Crash == phase # "down" /\ Halt

\* shutdown cancels every task in _tasks; the server takes no more requests.
Shutdown ==
  /\ Serving
  /\ phase' = "stopping"
  /\ sleeping' = sleeping \ {<<j, slot[j]>> : j \in Jobs}
  /\ UNCHANGED <<now, mem, store, slot, stage, todo, children, confirmed>>

\* stop_all has returned and the store is closed.  An exit callback that comes
\* later cannot write.  A stop_all that raises is a Crash here.
Exit ==
  /\ phase = "stopping" /\ LoopTurns
  /\ \A j \in Jobs : child[j] # "live"
  /\ Halt

\* Mutant: jobs found running are scheduled again.
Stale_requeued(r) ==
  IF r.status = "running" THEN [r EXCEPT !.status = "pending"] ELSE r

\* mark_stale_running_jobs_failed, on one row
Stale(r) == IF r.status = "running" THEN [r EXCEPT !.status = "failed"] ELSE r

\* Mutant: only jobs still to come.
Pending_future(rows) ==
  {j \in Jobs : rows[j].status = "pending" /\ rows[j].runAt > Wall(now)}

\* list_pending_scheduled_jobs
Pending(rows) == {j \in Jobs : rows[j].status = "pending"}

\* recover_pending up to its loop
Boot ==
  /\ phase = "down"
  /\ phase' = "recovering"
  /\ row' = [j \in Jobs |-> Stale(row[j])]
  /\ open' = row' /\ mem' = row'
  /\ todo' = Pending(row')
  /\ UNCHANGED <<now, tasks, children, confirmed>>

\* Its loop, on one pending job.
Recover(j) ==
  /\ j \in todo
  /\ todo' = todo \ {j}
  /\ IF mem[j].runAt > Wall(now) \/ mem[j].policy = "run_immediately"
       THEN Schedule(j, mem[j], sleeping) /\ UNCHANGED <<mem, store>>
       ELSE /\ Saved(j, Status(j, IF mem[j].policy = "skip" THEN "missed" ELSE "failed"))
            /\ slot' = [slot EXCEPT ![j] = NoTask]
            /\ UNCHANGED sleeping
  /\ UNCHANGED <<now, phase, stage, children, confirmed>>

Serve ==
  /\ phase = "recovering" /\ todo = {}
  /\ phase' = "up"
  /\ UNCHANGED <<now, mem, store, tasks, todo, children, confirmed>>

\* The periodic manager writes over the same connection: its commit takes along
\* what a failed commit left, its failure may roll that back.
OthersWrite ==
  /\ LoopTurns /\ open # row
  /\ \/ row' = open /\ UNCHANGED open
     \/ open' = row /\ UNCHANGED row
  /\ UNCHANGED <<now, phase, mem, tasks, todo, children, confirmed>>

Tick ==
  /\ now < MaxTime
  /\ now' = now + 1
  /\ UNCHANGED <<phase, mem, store, tasks, todo, children, confirmed>>

-----------------------------------------------------------------------------

Request(j) ==
  \/ \E t \in RunTimes, m \in Policies, confirm \in BOOLEAN :
       Add(j, t, m, confirm) \/ Update(j, t, m, confirm)
  \/ Cancel(j)

DelayedRun(j) ==
  \/ \E w \in 0..now : Claim(j, w)
  \/ Spawn(j) \/ SpawnFails(j) \/ Record(j) \/ MarkFailed(j)

Restart == Boot \/ (\E j \in Jobs : Recover(j)) \/ Serve

Next ==
  \/ \E j \in Jobs : \/ Request(j) \/ DelayedRun(j)
                     \/ Deliver(j)
                     \/ \E e \in Ends : ChildEnds(j, e)
  \/ Crash \/ Shutdown \/ Exit
  \/ Restart
  \/ OthersWrite
  \/ Tick

Spec == Init /\ [][Next]_vars

\* Time passes, the loop runs what is due and a start-up goes on.  Nothing is
\* assumed of callers, of children, or of the launcher being started again.
Fairness ==
  /\ WF_vars(Tick)
  /\ \A j \in Jobs : WF_vars(DelayedRun(j)) /\ WF_vars(Recover(j))
  /\ WF_vars(Serve)

FairSpec == Spec /\ Fairness

-----------------------------------------------------------------------------
(* Properties.                                                             *)

\* However often the launcher crashes, is restarted, or fails to write, a
\* scheduled job starts at most one child.
AtMostOnce == \A j \in Jobs : launches[j] <= 1

\* run_at has come at t, or would have come by a clock nobody changed.
Due(r, t) == Wall(t) >= r.runAt \/ t >= r.runAt

\* Write-ahead: when a child is started its row already says "running", which a
\* restart turns into "failed" (docs/rfc.md words it the other way round, "marks a
\* job `running` after it starts the child").  And no task of an earlier run_at
\* fires: the one acknowledged last has come, but for a change of the clock.
LaunchIsClaimed ==
  [][\A j \in Jobs : launches'[j] # launches[j] =>
       row[j].status = "running" /\ Due(row[j], now)]_vars

History ==
  INSTANCE JobHistory WITH
    record <- [j \in Jobs |-> row[j].status],
    launched <- {j \in Jobs : launches[j] > 0}

\* The database keeps the history it promises, whatever fails: no commit takes a job
\* back, not even one that carries along what earlier ones left in the transaction,
\* and a child is started only between a claim and an end.
HistorySpec == History!Spec

\* A wake-up at w that is not early and not late, but for a change of the clock.
OnTime(r, w) ==
  /\ Due(r, w)
  /\ w <= now \/ r.runAt \in {w, Wall(w)}

\* A pending job of a serving launcher has one delayed run, the one _tasks
\* knows, which wakes on time; no other job has any.  Needs a store that does not
\* fail.
PendingHasTimer ==
  phase = "up" =>
    \A j \in Jobs :
      LET mine == {x \in sleeping : x[1] = j} IN
      IF mem[j].status = "pending"
        THEN mine = {<<j, slot[j]>>} /\ OnTime(mem[j], slot[j])
        ELSE mine = {}

\* What is left of that when writes raise: a delayed run never outlives the
\* manager's knowledge of it.  Whichever sleeps is the one _tasks has, so a
\* cancellation reaches it, and belongs to a job pending in memory and in the
\* database, whose latest run_at it keeps.
TasksTracked ==
  \A x \in sleeping :
    LET j == x[1] IN
    /\ slot[j] = x[2] /\ OnTime(mem[j], x[2])
    /\ mem[j].status = "pending" /\ row[j].status = "pending"

\* Two jobs that may both start at one time were allowed to by a caller, also
\* after updates, cancellations and restarts.
NoUnconfirmedCollision ==
  \A j, k \in Jobs :
    /\ j # k
    /\ mem[j].status \in Active /\ mem[k].status \in Active
    /\ mem[j].runAt = mem[k].runAt
    => confirmed[j] \/ confirmed[k]

\* A terminal status is never changed, in memory or by a restart: not by a late
\* exit callback, a delayed run or a cancellation.
TerminalIsFinal ==
  [][\A j \in Jobs :
       mem[j].status \in Terminal => mem'[j].status = mem[j].status]_vars

\* "A scheduled job is completed only after its child process exits with code
\* 0" (docs/prd.md); a child that was stopped does not count.
CompletedMeansExitedZero ==
  \A j \in Jobs :
    row[j].status = "completed" => child[j] = "exited0" /\ j \in told

\* While the launcher stays up, a pending job is started, failed or cancelled.
PendingResolves ==
  <>[](phase = "up") =>
    \A j \in Jobs : mem[j].status = "pending" ~> mem[j].status # "pending"

\* "completed, failed, cancelled, and missed jobs remain queryable but are not
\* reloaded" (docs/prd.md): a job listed with such a status is not pending later.
TerminalNotReloaded ==
  [][\A j \in Jobs :
       mem[j].status \in Terminal => mem'[j].status # "pending"]_vars

=============================================================================
