--------------------------- MODULE ProcessManager ---------------------------
(***************************************************************************)
(* ProcessManager of src/process_launcher/process.py on a POSIX host.      *)
(*                                                                         *)
(* Four kinds of actor share the state:                                    *)
(*   - the operating system: the children, their process groups and pids;  *)
(*   - one watcher thread per child (_wait_for_exit);                      *)
(*   - coroutines on the event loop: HTTP handlers inside stop_process,    *)
(*     the timeout task of a child (_enforce_timeout), the entries of      *)
(*     stop_all's gather, each named here by what starts it;               *)
(*   - the loop's callback queue (_deliver_exit).                          *)
(*                                                                         *)
(* A handle is one TrackedProcess, one call of start_process.  The process *)
(* table is keyed by pid, and the system may hand a pid out again once the *)
(* whole group that used it is gone.                                       *)
(***************************************************************************)

CONSTANTS
  Handles,        \* TrackedProcess objects
  Pids,           \* process ids the system hands out
  Requests,       \* concurrent HTTP stop requests
  NoHandle, NoPid,
  PidsRecycled,   \* may a pid be handed out again?
  LogMayFail,     \* may heartbeat_logger.write_event raise?
  Refusals        \* groups for which killpg may raise PermissionError

\* A stop_process call belongs to an HTTP request, to the timeout task of a
\* handle, or to stop_all's gather, which makes one call per pid.
Callers == Requests \cup Handles \cup Pids

ASSUME ConstantsAssumption ==
  /\ NoHandle \notin Handles
  /\ NoPid \notin Pids
  /\ Handles \cap Pids = {}
  /\ Requests \cap (Handles \cup Pids) = {}
  /\ PidsRecycled \in BOOLEAN
  /\ LogMayFail \in BOOLEAN
  /\ Refusals \subseteq {"emptied", "foreign"}

VARIABLES
  proc,     \* [Handles]: the child and its TrackedProcess
  table,    \* [Pids]: self.processes
  call,     \* [Callers]: where a stop_process call is and the handle it is for
  phase,    \* "up", "stopping", "stopped" or "aborted" by stop_all, "closed"
  todo      \* pids of stop_all's gather not yet called

vars == <<proc, table, call, phase, todo>>

Proc ==
  [leader        : {"none", "alive", "zombie", "reaped"},  \* what Popen started
   members       : BOOLEAN,           \* are others of its process group alive?
   pid           : Pids \cup {NoPid}, \* also the process group id
   status        : {"none", "running", "exited", "killed"},    \* info.status
   verdict       : {"none", "exited", "killed"},  \* local of _wait_for_exit
   stopRequested : BOOLEAN,
   groupExited   : BOOLEAN,
   watcher       : {"off", "wait", "poll", "join", "publish", "log", "done", "dead"},
   callback      : {"none", "queued", "delivered"},            \* _deliver_exit
   signalled     : BOOLEAN]    \* history: was its live group sent a signal?

\* "sleep": a timeout task that has not fired yet.
Call ==
  [pc     : {"idle", "sleep", "mark", "signal", "grace", "force", "reap", "join"},
   target : Handles \cup {NoHandle}]

TypeOK ==
  /\ proc \in [Handles -> Proc]
  /\ table \in [Pids -> Handles \cup {NoHandle}]
  /\ call \in [Callers -> Call]
  /\ phase \in {"up", "stopping", "stopped", "aborted", "closed"}
  /\ todo \subseteq Pids

\* A handle no thread and no signal has touched yet.
Untouched(l, p, s, w) ==
  [leader |-> l, members |-> FALSE, pid |-> p, status |-> s, verdict |-> "none",
   stopRequested |-> FALSE, groupExited |-> FALSE,
   watcher |-> w, callback |-> "none", signalled |-> FALSE]

NotStarted == Untouched("none", NoPid, "none", "off")

NoCall == [pc |-> "idle", target |-> NoHandle]

Init ==
  /\ proc = [h \in Handles |-> NotStarted]
  /\ table = [p \in Pids |-> NoHandle]
  /\ call = [c \in Callers |-> NoCall]
  /\ phase = "up"
  /\ todo = {}

-----------------------------------------------------------------------------
(* The operating system.                                                   *)

Started(h) == proc[h].leader # "none"

\* Nothing is left of the group: not even an unreaped leader.
GroupGone(h) == proc[h].leader = "reaped" /\ ~proc[h].members

\* The handles a signal to h's group id reaches: h itself, or, once h's group
\* is gone, whoever was given its pid.
GroupOf(h) ==
  {g \in Handles : Started(g) /\ proc[g].pid = proc[h].pid /\ ~GroupGone(g)}

\* Mutant: poll the leader instead of the group.
TreeExists_leaderOnly(h) == \E g \in GroupOf(h) : proc[g].leader = "alive"

\* _process_tree_exists: does killpg(pgid, 0) find anyone?
TreeExists(h) == GroupOf(h) # {}

\* The system hands out a pid that names no process and no group.
PidFree(p) ==
  \A h \in Handles : proc[h].pid = p => PidsRecycled /\ GroupGone(h)

\* The event loop is not inside the synchronous part of a stop_process call.
LoopFree == \A c \in Callers : call[c].pc \notin {"mark", "signal"}

LeaderExits(h) ==
  /\ proc[h].leader = "alive"
  /\ proc' = [proc EXCEPT ![h].leader = "zombie"]
  /\ UNCHANGED <<table, call, phase, todo>>

MembersAppear(h) ==
  /\ proc[h].leader = "alive"
  /\ proc' = [proc EXCEPT ![h].members = TRUE]
  /\ UNCHANGED <<table, call, phase, todo>>

MembersExit(h) ==
  /\ proc[h].members
  /\ proc' = [proc EXCEPT ![h].members = FALSE]
  /\ UNCHANGED <<table, call, phase, todo>>

-----------------------------------------------------------------------------
(* start_process.  It never suspends, so it is one step of the loop.       *)

Spawn(h, p, w) ==
  /\ phase = "up" /\ LoopFree
  /\ ~Started(h)
  /\ PidFree(p)
  /\ proc' = [proc EXCEPT ![h] = Untouched("alive", p, "running", w)]
  /\ table' = [table EXCEPT ![p] = h]
  /\ UNCHANGED <<phase, todo>>

\* With request.timeout the timeout task falls asleep.
Start(h, p) ==
  /\ Spawn(h, p, "wait")
  /\ call' \in {call, [call EXCEPT ![h].pc = "sleep"]}

\* write_event raises after the child exists: no thread and no timeout task is
\* created, and the caller is told that the start failed.
StartLogFails(h, p) ==
  /\ LogMayFail
  /\ Spawn(h, p, "off")
  /\ UNCHANGED call

-----------------------------------------------------------------------------
(* The watcher thread: _wait_for_exit.                                     *)

\* popen.wait() returns.
WatcherReaps(h) ==
  /\ proc[h].watcher = "wait"
  /\ proc[h].leader \in {"zombie", "reaped"}
  /\ proc' = [proc EXCEPT ![h].leader = "reaped", ![h].watcher = "poll"]
  /\ UNCHANGED <<table, call, phase, todo>>

WatcherSeesGone(h) ==
  /\ proc[h].watcher = "poll"
  /\ ~TreeExists(h)
  /\ proc' = [proc EXCEPT ![h].groupExited = TRUE, ![h].watcher = "join"]
  /\ UNCHANGED <<table, call, phase, todo>>

FinalStatus(h) == IF proc[h].stopRequested THEN "killed" ELSE "exited"

\* The output thread ended or five seconds passed; stop_requested is read.
Judge(h) ==
  /\ proc[h].watcher = "join"
  /\ proc' = [proc EXCEPT ![h].verdict = FinalStatus(h), ![h].watcher = "publish"]
  /\ UNCHANGED <<table, call, phase, todo>>

\* handle.info is replaced and the table entry of its pid written again.
Publish(h) ==
  /\ proc[h].watcher = "publish"
  /\ proc' = [proc EXCEPT ![h].status = proc[h].verdict, ![h].watcher = "log"]
  /\ table' = [table EXCEPT ![proc[h].pid] = h]
  /\ UNCHANGED <<call, phase, todo>>

\* Mutant: the callback is dropped as soon as a shutdown has begun.
CallbackAfterLog_onlyUp == IF phase = "up" THEN "queued" ELSE "none"

\* call_soon_threadsafe, unless the loop is already closed.
CallbackAfterLog == IF phase # "closed" THEN "queued" ELSE "none"

\* Mutant: the thread queues the callback and tries to write the event again.
LogExit_again(h) ==
  /\ proc[h].watcher = "log"
  /\ proc' = [proc EXCEPT ![h].callback = CallbackAfterLog]
  /\ UNCHANGED <<table, call, phase, todo>>

\* The PROCESS_EXITED event is written, then the callback is queued.
LogExit(h) ==
  /\ proc[h].watcher = "log"
  /\ proc' = [proc EXCEPT ![h].watcher = "done",
                          ![h].callback = CallbackAfterLog]
  /\ UNCHANGED <<table, call, phase, todo>>

\* write_event raises: the thread dies and nobody learns of the exit.
LogExitFails(h) ==
  /\ LogMayFail
  /\ proc[h].watcher = "log"
  /\ proc' = [proc EXCEPT ![h].watcher = "dead"]
  /\ UNCHANGED <<table, call, phase, todo>>

\* _deliver_exit: cancel the timeout task, wherever it is, and call on_exit.
Deliver(h) ==
  /\ proc[h].callback = "queued"
  /\ phase # "closed" /\ LoopFree
  /\ proc' = [proc EXCEPT ![h].callback = "delivered"]
  /\ call' = [call EXCEPT ![h] = NoCall]
  /\ UNCHANGED <<table, phase, todo>>

-----------------------------------------------------------------------------
(* stop_process, on behalf of caller c.                                    *)

IsRunning(p) == table[p] # NoHandle /\ proc[table[p]].status = "running"

\* The child is published as running.  From here to the killpg the loop does
\* nothing else, but watchers may: they take no lock for what they publish.
BeginStop(c, p) ==
  /\ call' = [call EXCEPT ![c] = [pc |-> "mark", target |-> table[p]]]
  /\ UNCHANGED <<proc, table, phase>>

\* Where a call goes once its child is marked.
AfterMark(h) == IF proc[h].groupExited THEN "reap" ELSE "signal"

\* Mutant: stop_requested is not set.
Mark_never(c) ==
  /\ call[c].pc = "mark"
  /\ call' = [call EXCEPT ![c].pc = AfterMark(call[c].target)]
  /\ UNCHANGED <<proc, table, phase, todo>>

\* stop_requested is set, perhaps on a child that has been published meanwhile.
Mark(c) ==
  /\ call[c].pc = "mark"
  /\ proc' = [proc EXCEPT ![call[c].target].stopRequested = TRUE]
  /\ call' = [call EXCEPT ![c].pc = AfterMark(call[c].target)]
  /\ UNCHANGED <<table, phase, todo>>

\* POST /processes/{pid}/stop.
RequestStop(c, p) ==
  /\ phase = "up" /\ LoopFree
  /\ call[c].pc = "idle"
  /\ IsRunning(p)
  /\ BeginStop(c, p)
  /\ UNCHANGED todo

\* _enforce_timeout wakes up and looks its pid up in the table.
TimerFires(h) ==
  /\ call[h].pc = "sleep" /\ LoopFree
  /\ IF IsRunning(proc[h].pid)
       THEN BeginStop(h, proc[h].pid)
       ELSE call' = [call EXCEPT ![h] = NoCall] /\ UNCHANGED <<proc, table, phase>>
  /\ UNCHANGED todo

\* _signal_process_tree reaches nobody once the group is known to be gone.
Hit(c) == IF proc[call[c].target].groupExited THEN {} ELSE GroupOf(call[c].target)

\* Does anything of h run?
Alive(h) == proc[h].leader = "alive" \/ proc[h].members

\* killpg may answer EPERM: Darwin does for a group of which nothing runs any
\* more, every system for the processes of another user.  A group belongs to one
\* user.
Refused(h) ==
  /\ ~proc[h].groupExited
  /\ \/ "emptied" \in Refusals /\ \A g \in GroupOf(h) : ~Alive(g)
     \/ "foreign" \in Refusals /\ GroupOf(h) # {}

\* SIGTERM: what a child does about it is up to the child.
StopSignals(c) ==
  /\ call[c].pc = "signal"
  /\ proc' = [g \in Handles |->
       IF g \in Hit(c) THEN [proc[g] EXCEPT !.signalled = TRUE] ELSE proc[g]]
  /\ call' = [call EXCEPT ![c].pc = "grace"]
  /\ UNCHANGED <<table, phase, todo>>

\* _wait_for_process_tree returns True.
StopSeesGone(c) ==
  /\ call[c].pc \in {"grace", "force"} /\ LoopFree
  /\ ~TreeExists(call[c].target)
  /\ proc' = [proc EXCEPT ![call[c].target].groupExited = TRUE]
  /\ call' = [call EXCEPT ![c].pc = "reap"]
  /\ UNCHANGED <<table, phase, todo>>

\* Mutant: popen.kill() instead of killpg.
Killed_leaderOnly(g) ==
  [proc[g] EXCEPT !.leader = IF @ = "alive" THEN "zombie" ELSE @,
                  !.signalled = TRUE]

\* A handle whose group got SIGKILL.
Killed(g) ==
  [proc[g] EXCEPT !.leader = IF @ = "alive" THEN "zombie" ELSE @,
                  !.members = FALSE,
                  !.signalled = TRUE]

\* The grace period ends with the group still there: SIGKILL to all of it.
GraceExpires(c) ==
  /\ call[c].pc = "grace" /\ LoopFree
  /\ proc' = [g \in Handles |-> IF g \in Hit(c) THEN Killed(g) ELSE proc[g]]
  /\ call' = [call EXCEPT ![c].pc = "force"]
  /\ UNCHANGED <<table, phase, todo>>

\* The second wait ends after five seconds whatever it saw.
ForceExpires(c) ==
  /\ call[c].pc = "force" /\ LoopFree
  /\ call' = [call EXCEPT ![c].pc = "reap"]
  /\ UNCHANGED <<proc, table, phase, todo>>

\* SIGTERM or SIGKILL is refused: stop_process catches no PermissionError, and
\* neither do its callers.  gather hands the first one on, so that stop_all is
\* over, while the other calls go on until the loop is closed.
StopRaises(c) ==
  /\ call[c].pc = "signal" \/ (call[c].pc = "grace" /\ LoopFree)
  /\ Refused(call[c].target)
  /\ call' = [call EXCEPT ![c] = NoCall]
  /\ phase' = IF c \in Pids /\ phase = "stopping" THEN "aborted" ELSE phase
  /\ UNCHANGED <<proc, table, todo>>

\* Mutant: waits for a leader the watcher may have reaped already.
Reapable_zombieOnly == {"zombie"}

\* popen.wait() returns also if another thread has reaped the leader.
Reapable == {"zombie", "reaped"}

\* popen.wait() in a worker thread returns.
StopReaps(c) ==
  /\ call[c].pc = "reap"
  /\ proc[call[c].target].leader \in Reapable
  /\ proc' = [proc EXCEPT ![call[c].target].leader = "reaped"]
  /\ call' = [call EXCEPT ![c].pc = "join"]
  /\ UNCHANGED <<table, phase, todo>>

\* Both joins returned, by the threads ending or by their timeouts.
StopReturns(c) ==
  /\ call[c].pc = "join" /\ LoopFree
  /\ call' = [call EXCEPT ![c] = NoCall]
  /\ UNCHANGED <<proc, table, phase, todo>>

-----------------------------------------------------------------------------
(* stop_all, called by the shutdown of the application after the server    *)
(* has finished every request.                                             *)

\* Mutant: skips children whose leader has exited already.
RunningPids_leaderOnly ==
  {p \in Pids : IsRunning(p) /\ proc[table[p]].leader = "alive"}

RunningPids == {p \in Pids : IsRunning(p)}

StopAllBegins ==
  /\ phase = "up" /\ LoopFree
  /\ \A c \in Requests : call[c].pc = "idle"
  /\ phase' = "stopping"
  /\ todo' = RunningPids
  /\ UNCHANGED <<proc, table, call>>

StopAllCalls(p) ==
  /\ p \in todo /\ LoopFree
  /\ todo' = todo \ {p}
  /\ IF IsRunning(p) THEN BeginStop(p, p)
                     ELSE UNCHANGED <<proc, table, call, phase>>

\* Every call of the gather has returned, and so have the joins after it, each
\* of which waits at most five seconds.
StopAllReturns ==
  /\ phase = "stopping" /\ LoopFree
  /\ todo = {}
  /\ \A p \in Pids : call[p].pc = "idle"
  /\ phase' = "stopped"
  /\ UNCHANGED <<proc, table, call, todo>>

\* The server leaves the event loop, which cancels the tasks still on it.  Each task
\* of the gather has run up to its first await by then: they were all ready before
\* the gather learnt of the first failure.
LoopCloses ==
  /\ phase \in {"stopped", "aborted"} /\ LoopFree
  /\ todo = {}
  /\ phase' = "closed"
  /\ call' = [c \in Callers |-> NoCall]
  /\ UNCHANGED <<proc, table, todo>>

-----------------------------------------------------------------------------

Environment(h) == LeaderExits(h) \/ MembersAppear(h) \/ MembersExit(h)

Watcher(h) ==
  \/ WatcherReaps(h) \/ WatcherSeesGone(h)
  \/ Judge(h) \/ Publish(h)
  \/ LogExit(h) \/ LogExitFails(h)

StopCall(c) ==
  \/ Mark(c)
  \/ StopSignals(c) \/ StopSeesGone(c)
  \/ GraceExpires(c) \/ ForceExpires(c) \/ StopRaises(c)
  \/ StopReaps(c) \/ StopReturns(c)

Next ==
  \/ \E h \in Handles, p \in Pids : Start(h, p) \/ StartLogFails(h, p)
  \/ \E h \in Handles : Environment(h) \/ Watcher(h) \/ Deliver(h) \/ TimerFires(h)
  \/ \E c \in Callers : StopCall(c)
  \/ \E c \in Requests, p \in Pids : RequestStop(c, p)
  \/ StopAllBegins \/ StopAllReturns \/ LoopCloses
  \/ \E p \in Pids : StopAllCalls(p)

Spec == Init /\ [][Next]_vars

\* Threads and the event loop keep running, and sleeping coroutines wake up.  The
\* loop takes what is ready in turn: requests that come, raise and come again do not
\* keep it from a callback or from another call for ever, hence strong fairness of
\* these.  Nothing is assumed of the children, of new requests or of a shutdown.
Fairness ==
  /\ \A h \in Handles : WF_vars(Watcher(h)) /\ SF_vars(Deliver(h))
  /\ \A c \in Callers : SF_vars(StopCall(c))

FairSpec == Spec /\ Fairness

-----------------------------------------------------------------------------
(* Properties.                                                             *)

\* "A process remains tracked until its complete group exits" (docs/working.md):
\* no handle is published as exited or killed while anything of its process
\* group is left, whichever of the two waiters reaped the leader.
TerminalMeansGroupGone ==
  \A h \in Handles : proc[h].status \in {"exited", "killed"} => GroupGone(h)

\* When stop_process reaches its final joins nothing of the target's group is
\* left, even if both waits timed out and whatever the pid means by then.
StoppedTreeIsGone ==
  \A c \in Callers : call[c].pc = "join" => GroupGone(call[c].target)

OwnPid(h) == \A g \in Handles \ {h} : proc[g].pid # proc[h].pid

\* A stop_all that returns leaves nothing running behind: not a child whose start
\* failed half-way, not one whose group outlived its leader, not one an earlier stop
\* was not allowed to signal.  Only a child whose pid was handed out twice may be
\* missed.  Nothing is said of a stop_all that raises.
NothingSurvivesShutdown ==
  phase = "stopped" =>
    \A h \in Handles : Started(h) /\ OwnPid(h) => GroupGone(h)

\* "Stop and restart operations signal the entire group, allow 20 seconds for graceful
\* cleanup, and only then escalate to SIGKILL", which "prevents shell wrappers or
\* supervisors from exiting while their ffmpeg or worker descendants continue as
\* orphans" (docs/working.md).  True of the launcher's own end only where no signal is
\* refused: one refused signal ends the shutdown of all.
NoOrphans == phase = "closed" => \A h \in Handles : ~Alive(h)

\* A group that was alive when a stop signalled it is never reported to have
\* exited by itself, though the watcher decides without waiting for the stop:
\* ServiceMonitor would restart a service it was asked to stop.
StoppedIsNeverReportedExited ==
  \A h \in Handles : proc[h].signalled /\ OwnPid(h) => proc[h].status # "exited"

\* The life of a child as the callers of start_process see it.
LifeOf(h) ==
  CASE ~Started(h) -> "absent"
    [] Started(h) /\ ~GroupGone(h) -> "live"
    [] GroupGone(h) /\ proc[h].verdict = "none" -> "gone"
    [] OTHER -> proc[h].verdict

Lifecycle ==
  INSTANCE ProcessLifecycle WITH
    Children <- Handles,
    child <- [h \in Handles |-> LifeOf(h)],
    stopping <- {h \in Handles : proc[h].stopRequested},
    known <- {h \in Handles : proc[h].status \in {"exited", "killed"}},
    told <- {h \in Handles : proc[h].callback = "delivered"}

\* The process manager implements the life cycle its callers rely on: one
\* verdict per child, reached after its group is gone, "killed" exactly if a
\* stop was requested in time, and at most one callback, after publication.
LifecycleSpec == Lifecycle!Spec

\* Every stop_process call ends, however the child treats SIGTERM.
StopTerminates ==
  \A c \in Callers : call[c].pc \notin {"idle", "sleep"} ~> call[c].pc = "idle"

\* A child whose group is gone is published and its callback runs, unless the
\* loop is closed first.
ExitIsDelivered ==
  \A h \in Handles :
    GroupGone(h) ~> proc[h].callback = "delivered" \/ phase = "closed"

=============================================================================
