--------------------------- MODULE ServiceMonitor ---------------------------
(***************************************************************************)
(* Always-on services: ServiceMonitor (src/process_launcher/               *)
(* service_monitor.py) on top of what ProcessManager promises              *)
(* (ProcessLifecycle, which ProcessManager implements), from the start of  *)
(* the application to the end of its shutdown (server.py).                 *)
(*                                                                         *)
(* An instance is one start_process call for a service.  What happens when *)
(* is decided by the children, by callers that stop a process, restart a   *)
(* service or reset a breaker, and by sleeping restart tasks ("naps").     *)
(* Every coroutine runs without suspension except in its awaits: a restart *)
(* waiting for stop_process, a nap, and _handle_exit, which is a task of   *)
(* its own that starts after the exit callback has returned.               *)
(*                                                                         *)
(* Instances are told apart even if the system reuses a pid; what a reused *)
(* pid does is the subject of ProcessManager.                              *)
(***************************************************************************)
EXTENDS Integers, FiniteSets

CONSTANTS
  Services,       \* labels declared in YAML
  MaxStarts,      \* bound on start_process calls
  Requests,       \* concurrent POST /declared-services/{label}/restart
  NoService,
  MaxRestarts,    \* max_restarts of every service
  SpawnMayFail,   \* may Popen raise?
  StopMayRaise,   \* may killpg refuse, and stop_process or stop_all raise?
  LogMayFail      \* may heartbeat_logger.write_event raise?

Instances == 1 .. MaxStarts
NoInstance == 0

ASSUME ServiceAssumption ==
  /\ NoService \notin Services
  /\ MaxStarts \in Nat
  /\ MaxRestarts \in Nat
  /\ SpawnMayFail \in BOOLEAN
  /\ StopMayRaise \in BOOLEAN
  /\ LogMayFail \in BOOLEAN

VARIABLES
  child, stopping, known, told,    \* ProcessLifecycle
  owner,      \* [Instances]: the service
  watched,    \* instances whose start_process returned and whose watcher goes on
  handled,    \* instances whose _handle_exit has run
  current,    \* [Services]: runtime.pid
  status,     \* [Services]: runtime.status
  count,      \* [Services]: runtime.restart_count
  chain,      \* [Services]: is runtime.failure_chain_start set?
  naps,       \* [Services]: sleeping _restart_after_delay tasks
  call,       \* [Requests]: the restart waiting in stop_process
  phase,      \* "booting", "up", "stopping", "down"; "failed" to start
  todo,       \* services start_registered_services has still to start
  restarted,  \* history: services a caller restarted
  raised      \* history: services of which a start, a stop or an event raised

life == <<child, stopping, known, told>>
inst == <<owner, watched, handled>>
failures == <<count, chain>>
history == <<restarted, raised>>
vars == <<life, inst, current, status, failures, naps, call, phase, todo, history>>

Life == INSTANCE ProcessLifecycle WITH Children <- Instances

NoCall == [service |-> NoService, target |-> NoInstance]

TypeOK ==
  /\ Life!LifeTypeOK
  /\ owner \in [Instances -> Services \cup {NoService}]
  /\ watched \subseteq Instances
  /\ handled \subseteq told /\ told \subseteq watched
  /\ current \in [Services -> Instances \cup {NoInstance}]
  /\ status \in [Services -> {"exited", "running", "killed", "circuit_breaker"}]
  /\ count \in [Services -> Nat]
  /\ chain \in [Services -> BOOLEAN]
  /\ naps \in [Services -> Nat]
  /\ call \in [Requests -> [service : Services \cup {NoService},
                            target  : Instances \cup {NoInstance}]]
  /\ phase \in {"booting", "up", "stopping", "down", "failed"}
  /\ todo \subseteq Services
  /\ restarted \subseteq Services /\ raised \subseteq Services

\* register_services
Init ==
  /\ Life!LifeInit
  /\ owner = [i \in Instances |-> NoService]
  /\ watched = {} /\ handled = {}
  /\ current = [s \in Services |-> NoInstance]
  /\ status = [s \in Services |-> "exited"]
  /\ count = [s \in Services |-> 0]
  /\ chain = [s \in Services |-> FALSE]
  /\ naps = [s \in Services |-> 0]
  /\ call = [r \in Requests |-> NoCall]
  /\ phase = "booting"
  /\ todo = Services
  /\ restarted = {} /\ raised = {}

LoopTurns == phase \in {"up", "stopping"}

-----------------------------------------------------------------------------
(* _start_service.  The service's status so far is st.                     *)

\* The next instance is one of s.
LaunchFor(i, s) ==
  /\ \A j \in 1 .. i - 1 : child[j] # "absent"
  /\ Life!Launch(i)
  /\ owner' = [owner EXCEPT ![i] = s]

Started(s, st) ==
  \E i \in Instances :
    /\ LaunchFor(i, s)
    /\ watched' = watched \cup {i}
    /\ current' = [current EXCEPT ![s] = i]
    /\ status' = [st EXCEPT ![s] = "running"]
    /\ UNCHANGED <<handled, raised>>

\* start_process raises: there is no child, or nobody watches it.
StartRaises(s, st) ==
  /\ \/ SpawnMayFail /\ UNCHANGED <<life, owner>>
     \/ LogMayFail /\ \E i \in Instances : LaunchFor(i, s)
  /\ status' = st
  /\ raised' = raised \cup {s}
  /\ UNCHANGED <<watched, handled, current>>

StartService(s, st) == Started(s, st) \/ StartRaises(s, st)

\* start_registered_services, one service; if it raises the application does
\* not come up and its shutdown is not run.
BootStart(s) ==
  /\ phase = "booting" /\ s \in todo
  /\ todo' = todo \ {s}
  /\ \/ Started(s, status) /\ UNCHANGED phase
     \/ StartRaises(s, status) /\ phase' = "failed"
  /\ UNCHANGED <<failures, naps, call, restarted>>

Serve ==
  /\ phase = "booting" /\ todo = {}
  /\ phase' = "up"
  /\ UNCHANGED <<life, inst, current, status, failures, naps, call, todo, history>>

-----------------------------------------------------------------------------
(* Callers.                                                                *)

\* POST /processes/{pid}/stop.  It looks at the status and sets its mark in one step:
\* a mark that comes after the publication is worth what one just before it is.
StopProcess(i) ==
  /\ phase = "up" /\ i \notin stopping \cup known
  /\ Life!RequestStop(i)
  /\ UNCHANGED <<inst, current, status, failures, naps, call, phase, todo, history>>

Forgive(s) ==
  /\ count' = [count EXCEPT ![s] = 0]
  /\ chain' = [chain EXCEPT ![s] = FALSE]

\* POST /declared-services/{label}/restart up to its first suspension, if any:
\* stop_process returns at once for a process published as ended.
RestartCall(r, s) ==
  LET i  == current[s]
      st == [status EXCEPT ![s] = "exited"] IN
  /\ phase = "up" /\ call[r] = NoCall
  /\ Forgive(s)
  /\ IF i # NoInstance /\ i \notin known
       THEN /\ Life!RequestStop(i)
            /\ call' = [call EXCEPT ![r] = [service |-> s, target |-> i]]
            /\ status' = st
            /\ UNCHANGED <<inst, current, raised>>
       ELSE StartService(s, st) /\ UNCHANGED call
  /\ restarted' = restarted \cup {s}
  /\ UNCHANGED <<naps, phase, todo>>

\* stop_process has returned: the process group is gone, its exit not
\* necessarily published.
RestartResume(r) ==
  /\ call[r] # NoCall /\ LoopTurns
  /\ child[call[r].target] # "live"
  /\ call' = [call EXCEPT ![r] = NoCall]
  /\ StartService(call[r].service, status)
  /\ UNCHANGED <<failures, naps, phase, todo, restarted>>

\* stop_process raises, before or after its child has ended.
RestartRaises(r) ==
  /\ StopMayRaise
  /\ call[r] # NoCall /\ LoopTurns
  /\ call' = [call EXCEPT ![r] = NoCall]
  /\ raised' = raised \cup {call[r].service}
  /\ UNCHANGED <<life, inst, current, status, failures, naps, phase, todo, restarted>>

\* reset_circuit_breaker, which has no endpoint and no caller but the tests:
\* called on a service whose breaker is open.  Its event may fail to be written.
ResetBreaker(s) ==
  LET st == [status EXCEPT ![s] = "exited"] IN
  /\ phase = "up" /\ status[s] = "circuit_breaker"
  /\ Forgive(s)
  /\ \/ StartService(s, st)
     \/ LogMayFail /\ status' = st /\ raised' = raised \cup {s} /\ UNCHANGED <<life, inst, current>>
  /\ UNCHANGED <<naps, call, phase, todo, restarted>>

-----------------------------------------------------------------------------
(* Exits and restarts.                                                     *)

\* The exit callback only creates the task for HandleExit.
Tell(i) ==
  /\ LoopTurns /\ i \in watched
  /\ Life!Tell(i)
  /\ UNCHANGED <<inst, current, status, failures, naps, call, phase, todo, history>>

\* The watcher thread cannot write the event of an exit and dies before it has queued
\* the callback: nobody will handle this exit.
WatcherDies(i) ==
  /\ LogMayFail
  /\ i \in (watched \cap known) \ told
  /\ watched' = watched \ {i}
  /\ raised' = raised \cup {owner[i]}
  /\ UNCHANGED <<life, owner, handled, current, status, failures, naps, call, phase, todo,
                 restarted>>

\* Mutant: one failure too many.
TooMany_offByOne(n) == n > MaxRestarts

TooMany(n) == n >= MaxRestarts

\* Mutant: a stopped service is treated like a crashed one.
Failed_anyExit(i) == child[i] \in {"exited", "killed"}

\* info.status is not KILLED.
Failed(i) == child[i] = "exited"

\* The failures in the service's chain with this one; window is whether
\* restart_window has passed since the first of them.
Failures(s, window) == IF ~chain[s] \/ window THEN 1 ELSE count[s] + 1

\* Mutant: no return after the breaker's event.
Renap_tripped(s, n) == naps' = [naps EXCEPT ![s] = @ + 1] /\ UNCHANGED raised

\* Mutant: the task is never created.
Renap_never(s, n) == UNCHANGED <<naps, raised>>

\* The restart task, unless the breaker opens or the event cannot be written.
Renap(s, n) ==
  \/ ~TooMany(n) /\ naps' = [naps EXCEPT ![s] = @ + 1] /\ UNCHANGED raised
  \/ TooMany(n) /\ UNCHANGED <<naps, raised>>
  \/ LogMayFail /\ UNCHANGED naps /\ raised' = raised \cup {s}

\* _handle_exit of the n-th failure.
Fail(s, n) ==
  /\ chain' = [chain EXCEPT ![s] = TRUE]
  /\ count' = [count EXCEPT ![s] = n]
  /\ status' = [status EXCEPT ![s] = IF TooMany(n) THEN "circuit_breaker" ELSE "exited"]
  /\ Renap(s, n)

\* _handle_exit does not ask whether the instance is still the current one.
HandleExit(i) ==
  LET s == owner[i] IN
  /\ LoopTurns /\ i \in told \ handled
  /\ handled' = handled \cup {i}
  /\ IF phase = "stopping"
       THEN UNCHANGED <<status, failures, naps, raised>>
       ELSE IF Failed(i)
       THEN \E window \in BOOLEAN : Fail(s, Failures(s, window))
       ELSE status' = [status EXCEPT ![s] = "killed"] /\ UNCHANGED <<failures, naps, raised>>
  /\ UNCHANGED <<life, owner, watched, current, call, phase, todo, restarted>>

\* Mutant: the flag is not looked at.
Wakes_regardless == TRUE

\* What _restart_after_delay checks when its sleep is over.
Wakes == phase # "stopping"

\* Mutant: a start that raises is tried again.
NapEnds_retrying(s) ==
  /\ LoopTurns /\ naps[s] > 0
  /\ IF Wakes
       THEN \/ Started(s, status) /\ naps' = [naps EXCEPT ![s] = @ - 1]
            \/ StartRaises(s, status) /\ UNCHANGED naps
       ELSE naps' = [naps EXCEPT ![s] = @ - 1] /\ UNCHANGED <<life, inst, current, status, raised>>
  /\ UNCHANGED <<failures, call, phase, todo, restarted>>

\* If _start_service raises, nobody tries again.
NapEnds(s) ==
  /\ LoopTurns /\ naps[s] > 0
  /\ naps' = [naps EXCEPT ![s] = @ - 1]
  /\ IF Wakes THEN StartService(s, status)
              ELSE UNCHANGED <<life, inst, current, status, raised>>
  /\ UNCHANGED <<failures, call, phase, todo, restarted>>

-----------------------------------------------------------------------------
(* Shutdown and the rest of the world.                                     *)

\* n naps, less the one restarting_task refers to, which would wake last.
Cancelled(n) == IF n > 0 THEN n - 1 ELSE 0

\* shutdown, when no request is left.
Shutdown ==
  /\ phase = "up" /\ \A r \in Requests : call[r] = NoCall
  /\ phase' = "stopping"
  /\ naps' = [s \in Services |-> Cancelled(naps[s])]
  /\ UNCHANGED <<life, inst, current, status, failures, call, todo, history>>

StopAll(i) ==
  /\ phase = "stopping" /\ i \notin stopping \cup known
  /\ Life!RequestStop(i)
  /\ UNCHANGED <<inst, current, status, failures, naps, call, phase, todo, history>>

\* stop_all has returned or raised; the launcher goes away.
Exit ==
  /\ phase = "stopping"
  /\ StopMayRaise \/ \A i \in Instances : child[i] # "live"
  /\ phase' = "down"
  /\ UNCHANGED <<life, inst, current, status, failures, naps, call, todo, history>>

\* The instance ends, and its watcher thread, if it has one, finds out.
Environment(i) ==
  /\ phase \notin {"down", "failed"}
  /\ \/ Life!Die(i)
     \/ i \in watched /\ Life!Judge(i)
     \/ i \in watched \ known /\ Life!Publish(i)
  /\ UNCHANGED <<inst, current, status, failures, naps, call, phase, todo, history>>

-----------------------------------------------------------------------------

Resume(s) == BootStart(s) \/ NapEnds(s)

Instance(i) == Environment(i) \/ Tell(i) \/ WatcherDies(i) \/ HandleExit(i)

Next ==
  \/ \E s \in Services : Resume(s) \/ ResetBreaker(s)
  \/ \E i \in Instances : Instance(i) \/ StopProcess(i) \/ StopAll(i)
  \/ \E r \in Requests :
       RestartResume(r) \/ RestartRaises(r) \/ \E s \in Services : RestartCall(r, s)
  \/ Serve \/ Shutdown \/ Exit

Spec == Init /\ [][Next]_vars

\* The loop runs, naps end, and threads notice ends, if they do not die of an event
\* first; nothing is assumed of how long an instance lives, of callers or of a shutdown.
Fairness ==
  /\ \A s \in Services : WF_vars(Resume(s))
  /\ \A i \in Instances :
       /\ WF_vars(Environment(i) /\ child[i] # "live")
       /\ WF_vars(Tell(i)) /\ WF_vars(HandleExit(i))
  /\ WF_vars(Serve)

FairSpec == Spec /\ Fairness

-----------------------------------------------------------------------------
(* Properties.                                                             *)

LiveOf(s) == {i \in Instances : owner[i] = s /\ child[i] = "live"}

\* A service runs at most once: the restart endpoint "restarts one
\* YAML-declared always-on service" (docs/prd.md).  Holds if nobody uses it.
AtMostOneInstance == \A s \in Services \ restarted : Cardinality(LiveOf(s)) <= 1

\* A service whose process was stopped by a caller is not restarted behind the
\* caller's back, whichever exits and naps were under way.
StoppedStaysDown ==
  \A i \in Instances :
    i \in handled /\ child[i] = "killed" /\ owner[i] \notin restarted =>
      LiveOf(owner[i]) = {} /\ naps[owner[i]] = 0

Broken(s) == status[s] = "circuit_breaker"

AtRest(s) == LiveOf(s) = {} /\ naps[s] = 0

\* "After repeated failures, the service enters circuit_breaker until a caller
\* resets it" (docs/rfc.md): nothing runs and nothing is about to be started.
BreakerHolds == \A s \in Services \ restarted : Broken(s) => AtRest(s)

\* The same for every service.  Does not hold: a restart by hand leaves an
\* automatic restart pending.
BreakerHoldsAlways == \A s \in Services : Broken(s) => AtRest(s)

\* The breaker is open exactly when max_restarts failures have been counted
\* without a reset: the limit can be neither missed nor passed.  A limit of 0
\* works like 1.
BreakerTrips ==
  \A s \in Services \ restarted :
    Broken(s) <=> count[s] = IF MaxRestarts = 0 THEN 1 ELSE MaxRestarts

\* No service is started once the shutdown has begun, though naps that nobody
\* cancelled still end: stop_all has made its list of what to stop by then.
NoStartAfterShutdown ==
  [][phase \notin {"booting", "up"} =>
       \A i \in Instances : child[i] = "absent" => child'[i] = "absent"]_vars

\* A service whose current instance has failed is started again, unless its
\* failures have reached the limit, a start, a stop or an event of it raised, the
\* launcher is going down or the bound is reached.
FailedServiceReturns ==
  \A s \in Services :
    phase = "up" /\ current[s] # NoInstance /\ child[current[s]] = "exited" ~>
      \/ LiveOf(s) # {} \/ TooMany(count[s]) \/ s \in raised
      \/ phase # "up" \/ \A i \in Instances : child[i] # "absent"

=============================================================================
