-------------------------- MODULE PeriodicManager --------------------------
(***************************************************************************)
(* Recurring jobs: PeriodicManager (src/process_launcher/periodic.py) and  *)
(* the periodic_runs table of SQLiteStore (storage.py), on top of what     *)
(* ProcessManager promises (ProcessLifecycle), across crashes and restarts *)
(* of the launcher.                                                        *)
(*                                                                         *)
(* A run is one row and at most one child.  When a loop wakes is left      *)
(* open: here a run is due at any time.  What it then does has no await    *)
(* that suspends, but commits to SQLite several times, so it is divided    *)
(* where a crash or the end of the child may fall between.                 *)
(*                                                                         *)
(* As in ScheduledManager, a row is held as committed and as the open      *)
(* transaction of the connection has it, and a write that raises may leave *)
(* either behind.  A read sees the open transaction.                       *)
(***************************************************************************)
EXTENDS Integers, FiniteSets

CONSTANTS
  Labels,         \* labels of periodic jobs
  MaxRuns,        \* bound on runs
  Declarations,   \* what YAML may say of a label, a subset of Declaration
  NoLabel,
  StoreMayFail,   \* may a write to SQLite raise?
  SpawnMayFail,   \* may Popen, or what goes before it, raise?
  LogMayFail,     \* may heartbeat_logger.write_event raise?
  PidsRecycled    \* may a pid be handed out again?

\* Not in the file, enabled: false, or enabled with an overlap policy.
Declaration == {"absent", "disabled", "skip", "run_concurrently"}

Runs == 1 .. MaxRuns
NoRun == 0

ASSUME PeriodicAssumption ==
  /\ MaxRuns \in Nat
  /\ NoLabel \notin Labels
  /\ Declarations \subseteq Declaration
  /\ StoreMayFail \in BOOLEAN
  /\ SpawnMayFail \in BOOLEAN
  /\ LogMayFail \in BOOLEAN
  /\ PidsRecycled \in BOOLEAN

VARIABLES
  child, stopping, known, told,    \* ProcessLifecycle
  zero,       \* runs whose leader ended with exit code 0
  shadowed,   \* runs whose entry in the process table another child took over
  mine,       \* runs this launcher has started a child for
  watched,    \* those of them that have a watcher thread
  label,      \* [Runs]: its job
  row,        \* [Runs]: the committed row's status
  open,       \* [Runs]: the same in the open transaction
  active,     \* [Labels]: _active_runs
  named,      \* runs whose entry in _active_runs has a pid and an output file
  declared,   \* [Labels]: jobs, and with them the loops
  phase,      \* "down", "up", "stopping"
  at,         \* the loop inside _start_run, if any, and how far it is
  unsaved,    \* history: runs a write of which raised
  overlapped  \* history: labels that have had a run not declared skip

life == <<child, stopping, known, told>>
process == <<zero, shadowed, mine, watched>>
jobs == <<label, overlapped>>
store == <<row, open, unsaved>>
slots == <<active, named>>
vars == <<life, process, jobs, store, slots, declared, phase, at>>

Life == INSTANCE ProcessLifecycle WITH Children <- Runs

Enabled == {"skip", "run_concurrently"}
Terminal == {"completed", "failed"}

Idle == [pc |-> "idle", label |-> NoLabel, run |-> NoRun]

TypeOK ==
  /\ Life!LifeTypeOK
  /\ zero \subseteq Runs /\ shadowed \subseteq mine
  /\ watched \subseteq mine /\ mine \subseteq Runs
  /\ label \in [Runs -> Labels \cup {NoLabel}]
  /\ row \in [Runs -> {"absent", "running"} \cup Terminal]
  /\ open \in [Runs -> {"absent", "running"} \cup Terminal]
  /\ active \in [Labels -> Runs \cup {NoRun}]
  /\ named \subseteq watched
  /\ declared \in [Labels -> Declaration]
  /\ phase \in {"down", "up", "stopping"}
  /\ at \in [pc    : {"idle", "check", "decide", "spawn", "record", "fail"},
             label : Labels \cup {NoLabel},
             run   : Runs \cup {NoRun}]
  /\ unsaved \subseteq Runs /\ overlapped \subseteq Labels

Init ==
  /\ Life!LifeInit
  /\ zero = {} /\ shadowed = {} /\ mine = {} /\ watched = {}
  /\ label = [r \in Runs |-> NoLabel]
  /\ row = [r \in Runs |-> "absent"] /\ open = row
  /\ active = [l \in Labels |-> NoRun]
  /\ named = {}
  /\ declared \in [Labels -> Declarations]
  /\ phase = "down"
  /\ at = Idle
  /\ unsaved = {} /\ overlapped = {}

-----------------------------------------------------------------------------
(* The store.                                                              *)

Saved(r, s) ==
  /\ open' = [open EXCEPT ![r] = s]
  /\ row' = open'
  /\ UNCHANGED unsaved

Unsaved(r, s) ==
  /\ StoreMayFail
  /\ open' \in {open, [open EXCEPT ![r] = s], row}
  /\ unsaved' = unsaved \cup {r}
  /\ UNCHANGED row

\* Any other write over the connection, here or in ScheduledManager.
CommitsOrRollsBack ==
  /\ \/ row' = open /\ UNCHANGED open
     \/ StoreMayFail /\ open' \in {open, row} /\ UNCHANGED row
  /\ UNCHANGED unsaved

LoopTurns == phase \in {"up", "stopping"} /\ at.pc = "idle"

Serving == phase = "up" /\ LoopTurns

\* Runs are numbered in the order in which they are inserted.
Fresh == {r \in Runs : label[r] = NoLabel}

-----------------------------------------------------------------------------
(* _run_loop and _start_run.                                               *)

\* The loop of label l wakes up.
Fire(l) ==
  /\ Serving
  /\ declared[l] \in Enabled
  /\ Fresh # {}
  /\ at' = [pc |-> "check", label |-> l, run |-> NoRun]
  /\ UNCHANGED <<life, process, jobs, store, slots, declared, phase>>

\* Mutant: the pid alone identifies the process.
Reconcilable_byPid(r) == r \in named /\ (r \in known \/ r \in shadowed)

\* The active run's process is found by its pid, is the one that was started,
\* and is published as ended.
Reconcilable(r) == r \in named /\ r \in known /\ r \notin shadowed

\* Mutant: the exit code alone decides.
Outcome_codeOnly(r) == IF r \in zero THEN "completed" ELSE "failed"

\* _mark_periodic_exit
Outcome(r) ==
  IF child[r] = "exited" /\ r \in zero THEN "completed" ELSE "failed"

\* The slot of r's label is freed if r holds it.
Freed(r) == [active EXCEPT ![label[r]] = IF @ = r THEN NoRun ELSE @]

\* mark_completed, mark_failed: if the write raises the slot stays taken.
Marked(r) == Saved(r, Outcome(r)) /\ active' = Freed(r)

NotMarked(r) == Unsaved(r, Outcome(r)) /\ UNCHANGED active

\* The active run is over but nobody marked it: its callback was lost, is late
\* or could not write.
Reconcile(l) ==
  /\ at.pc = "check" /\ at.label = l /\ active[l] # NoRun
  /\ Reconcilable(active[l])
  /\ Marked(active[l])
  /\ at' = [at EXCEPT !.pc = "decide"]
  /\ UNCHANGED <<life, process, jobs, named, declared, phase>>

\* The same when the write raises: this run is given up.
ReconcileFails(l) ==
  /\ at.pc = "check" /\ at.label = l /\ active[l] # NoRun
  /\ Reconcilable(active[l])
  /\ NotMarked(active[l])
  /\ at' = Idle
  /\ UNCHANGED <<life, process, jobs, named, declared, phase>>

NothingToReconcile(l) ==
  /\ at.pc = "check" /\ at.label = l
  /\ active[l] = NoRun \/ ~Reconcilable(active[l])
  /\ at' = [at EXCEPT !.pc = "decide"]
  /\ UNCHANGED <<life, process, jobs, store, slots, declared, phase>>

\* Mutant: the policy is ignored.
Blocked_never(l) == FALSE

Blocked(l) == active[l] # NoRun /\ declared[l] = "skip"

\* A skipped run is written once and never looked at again: of its row only what
\* the write does to other rows is kept.
Skip(l) ==
  /\ at.pc = "decide" /\ at.label = l
  /\ Blocked(l)
  /\ CommitsOrRollsBack
  /\ at' = Idle
  /\ UNCHANGED <<life, process, jobs, slots, declared, phase>>

\* The row is written, then the slot is taken.
Insert(l, r) ==
  /\ at.pc = "decide" /\ at.label = l
  /\ ~Blocked(l)
  /\ r \in Fresh /\ \A q \in Fresh : r <= q
  /\ label' = [label EXCEPT ![r] = l]
  /\ overlapped' = IF declared[l] = "skip" THEN overlapped ELSE overlapped \cup {l}
  /\ \/ /\ Saved(r, "running")
        /\ active' = [active EXCEPT ![l] = r]
        /\ at' = [pc |-> "spawn", label |-> l, run |-> r]
     \/ /\ Unsaved(r, "running")
        /\ UNCHANGED active
        /\ at' = Idle
  /\ UNCHANGED <<life, process, named, declared, phase>>

\* start_process returns.
Spawn(r) ==
  /\ at.pc = "spawn" /\ at.run = r
  /\ Life!Launch(r)
  /\ mine' = mine \cup {r} /\ watched' = watched \cup {r}
  /\ at' = [at EXCEPT !.pc = "record"]
  /\ UNCHANGED <<zero, shadowed, jobs, store, slots, declared, phase>>

\* start_process raises: there is no child, or nobody watches it.
SpawnFails(r) ==
  /\ at.pc = "spawn" /\ at.run = r
  /\ \/ SpawnMayFail /\ UNCHANGED <<life, mine>>
     \/ LogMayFail /\ Life!Launch(r) /\ mine' = mine \cup {r}
  /\ active' = Freed(r)
  /\ at' = [at EXCEPT !.pc = "fail"]
  /\ UNCHANGED <<zero, shadowed, watched, jobs, store, named, declared, phase>>

SpawnFailureNoted(r) ==
  /\ at.pc = "fail" /\ at.run = r
  /\ Saved(r, "failed") \/ Unsaved(r, "failed")
  /\ at' = Idle
  /\ UNCHANGED <<life, process, jobs, slots, declared, phase>>

\* Mutant: the pid is kept only if it could be written.
Record_storeFirst(r) ==
  /\ at.pc = "record" /\ at.run = r
  /\ \/ Saved(r, "running") /\ named' = named \cup {r}
     \/ Unsaved(r, "running") /\ UNCHANGED named
  /\ at' = Idle
  /\ UNCHANGED <<life, process, jobs, active, declared, phase>>

\* The pid and the output file go into the slot, which is still r's, and then
\* into the row.  _update_run finds the row running: nothing has run meanwhile.
Record(r) ==
  /\ at.pc = "record" /\ at.run = r
  /\ named' = named \cup {r}
  /\ Saved(r, "running") \/ Unsaved(r, "running")
  /\ at' = Idle
  /\ UNCHANGED <<life, process, jobs, active, declared, phase>>

-----------------------------------------------------------------------------
(* Processes.                                                              *)

\* POST /processes/{pid}/stop, or the run's timeout.  To mark a child that is
\* published between the look at its status and the mark changes nothing here.
StopProcess(r) ==
  /\ Serving /\ r \in mine \ (stopping \cup shadowed \cup known)
  /\ Life!RequestStop(r)
  /\ UNCHANGED <<process, jobs, store, slots, declared, phase, at>>

\* The group of r is gone, with or without exit code 0 of its leader.
Ends(r) ==
  /\ r \in mine
  /\ Life!Die(r)
  /\ zero' \in {zero, zero \cup {r}}
  /\ UNCHANGED <<shadowed, mine, watched, jobs, store, slots, declared, phase, at>>

\* The watcher thread, which the loop does not hold up.
Judge(r) ==
  /\ r \in watched
  /\ Life!Judge(r)
  /\ UNCHANGED <<process, jobs, store, slots, declared, phase, at>>

\* Publishing also puts r back into the process table.
Publish(r) ==
  /\ r \in watched \ known
  /\ Life!Publish(r)
  /\ shadowed' = shadowed \ {r}
  /\ UNCHANGED <<zero, mine, watched, jobs, store, slots, declared, phase, at>>

\* A later child got r's pid, or an earlier one with r's pid is published late.
Shadow(r) ==
  /\ PidsRecycled /\ LoopTurns
  /\ r \in mine \ shadowed
  /\ shadowed' = shadowed \cup {r}
  /\ UNCHANGED <<life, zero, mine, watched, jobs, store, slots, declared, phase, at>>

\* The exit callback.  Of the row, only its status is modelled: one that comes
\* after a reconciliation writes completed_at and last_error again.
Deliver(r) ==
  /\ LoopTurns /\ r \in watched
  /\ Life!Tell(r)
  /\ Marked(r) \/ NotMarked(r)
  /\ UNCHANGED <<process, jobs, named, declared, phase, at>>

-----------------------------------------------------------------------------
(* The launcher.                                                           *)

\* POST /periodic/reload: the loops are cancelled and started anew; runs and
\* their slots stay.
Reload ==
  /\ Serving
  /\ declared' \in [Labels -> Declarations]
  /\ UNCHANGED <<life, process, jobs, store, slots, phase, at>>

\* Mutant: rows are not looked at.
Stale_kept(s) == s

\* Mutant: every row.
Stale_all(s) == IF s = "absent" THEN s ELSE "failed"

\* mark_stale_periodic_runs_failed, on one row.
Stale(s) == IF s = "running" THEN "failed" ELSE s

Boot ==
  /\ phase = "down"
  /\ phase' = "up"
  /\ row' = [r \in Runs |-> Stale(row[r])]
  /\ open' = row'
  /\ declared' \in [Labels -> Declarations]
  /\ UNCHANGED <<life, process, jobs, unsaved, slots, at>>

\* Memory, the loops and the open transaction are gone; children may live on,
\* but no later launcher knows them.
Halt ==
  /\ phase' = "down"
  /\ open' = row
  /\ active' = [l \in Labels |-> NoRun]
  /\ mine' = {} /\ watched' = {} /\ shadowed' = {} /\ named' = {}
  /\ at' = Idle
  /\ UNCHANGED <<life, zero, jobs, row, unsaved, declared>>

Crash == phase # "down" /\ Halt

\* shutdown cancels the loops.
Shutdown ==
  /\ Serving
  /\ phase' = "stopping"
  /\ UNCHANGED <<life, process, jobs, store, slots, declared, at>>

\* stop_all, on one child the process table has.
StopAll(r) ==
  /\ phase = "stopping" /\ r \in mine \ (stopping \cup shadowed \cup known)
  /\ Life!RequestStop(r)
  /\ UNCHANGED <<process, jobs, store, slots, declared, phase, at>>

\* A callback that comes after the store is closed cannot write.  A stop_all that
\* raises is a Crash here.
Exit ==
  /\ phase = "stopping" /\ LoopTurns
  /\ \A r \in mine \ shadowed : child[r] # "live"
  /\ Halt

\* Another writer on the same connection.
OthersWrite ==
  /\ LoopTurns /\ open # row
  /\ CommitsOrRollsBack
  /\ UNCHANGED <<life, process, jobs, slots, declared, phase, at>>

-----------------------------------------------------------------------------

StartRun(l) ==
  \/ Reconcile(l) \/ ReconcileFails(l) \/ NothingToReconcile(l)
  \/ Skip(l)
  \/ \E r \in Runs : Insert(l, r)

Launching(r) == Spawn(r) \/ SpawnFails(r) \/ SpawnFailureNoted(r) \/ Record(r)

Process(r) ==
  \/ StopProcess(r) \/ StopAll(r)
  \/ Ends(r) \/ Judge(r) \/ Publish(r) \/ Shadow(r) \/ Deliver(r)

Next ==
  \/ \E l \in Labels : Fire(l) \/ StartRun(l)
  \/ \E r \in Runs : Launching(r) \/ Process(r)
  \/ Reload \/ Boot \/ Crash \/ Shutdown \/ Exit \/ OthersWrite

Spec == Init /\ [][Next]_vars

\* Loops come due again and again and finish what they begin, threads notice the
\* end of a child, and a store that is asked again and again answers sometimes.
\* Callbacks may be lost, and nothing is assumed of children, of callers or of
\* the launcher.
Fairness ==
  /\ \A l \in Labels :
       WF_vars(Fire(l)) /\ WF_vars(StartRun(l)) /\ SF_vars(Reconcile(l))
  /\ \A r \in Runs : WF_vars(Launching(r)) /\ WF_vars(Judge(r) \/ Publish(r))

FairSpec == Spec /\ Fairness

-----------------------------------------------------------------------------
(* Properties.                                                             *)

\* Children of the label this launcher knows of and watches.
LiveOf(l) == {r \in watched : label[r] = l /\ child[r] = "live"}

Overlaps(r) ==
  /\ child[r] = "absent" /\ child'[r] = "live"
  /\ declared[label[r]] = "skip" /\ LiveOf(label[r]) # {}

\* "overlap_policy: skip prevents a new run from starting while the prior run is
\* active" (docs/prd.md): whatever writes raise, callbacks are lost, pids are
\* reused or declarations reloaded, a child of a job declared skip is started
\* only if no child of the job this launcher watches lives.  Holds for jobs all
\* runs of which were started under that policy.
SkipNeverOverlaps ==
  [][\A r \in Runs : Overlaps(r) => label[r] \in overlapped]_vars

\* The same for every job.  Does not hold.
SkipNeverOverlapsAlways == [][\A r \in Runs : ~Overlaps(r)]_vars

\* The status a run ended with does not change: not by a late callback after a reconciliation,
\* not by a restart, not by a commit of what a failed write left.
TerminalRowFinal ==
  [][\A r \in Runs : row[r] \in Terminal => row'[r] = row[r]]_vars

\* A run is listed as completed only after its child ended by itself with exit
\* code 0; a child that was stopped does not count.
CompletedMeansExitedZero ==
  \A r \in Runs : row[r] = "completed" => child[r] = "exited" /\ r \in known \cap zero

\* A run a serving launcher lists as running is one whose end it has still to be
\* told of, unless a write of that run raised.
HistoryIsCurrent ==
  \A r \in Runs \ unsaved :
    phase = "up" /\ row[r] = "running" /\ at.pc = "idle" =>
      r \in watched \ told

\* A job is not blocked for ever by a run that has ended: even if the exit
\* callback is lost or cannot write, a later run frees the slot, unless the
\* process table has another child under the pid by then.
SlotFreed ==
  \A l \in Labels, r \in Runs :
    active[l] = r /\ r \in known ~>
      \/ active[l] # r \/ r \in shadowed
      \/ declared[l] \notin Enabled \/ phase # "up" \/ Fresh = {}

=============================================================================
