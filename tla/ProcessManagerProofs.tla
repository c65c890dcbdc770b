----------------------- MODULE ProcessManagerProofs ------------------------
(***************************************************************************)
(* What holds of ProcessManager for any number of children, pids and       *)
(* concurrent stop calls.                                                  *)
(***************************************************************************)
EXTENDS ProcessManager, TLAPS

-----------------------------------------------------------------------------
(* Type correctness.                                                       *)

\* Setting a flag of a TrackedProcess gives a TrackedProcess.
LEMMA SetFlag ==
  ASSUME NEW r \in Proc, NEW b \in BOOLEAN
  PROVE  /\ [r EXCEPT !.members = b] \in Proc
         /\ [r EXCEPT !.stopRequested = b] \in Proc
         /\ [r EXCEPT !.groupExited = b] \in Proc
         /\ [r EXCEPT !.signalled = b] \in Proc
BY DEF Proc

\* So does reaping the leader, and what the watcher does last.
LEMMA SetLeader ==
  ASSUME NEW r \in Proc
  PROVE  [r EXCEPT !.leader = "reaped"] \in Proc
BY DEF Proc

LEMMA SetCallback ==
  ASSUME NEW r \in Proc, NEW v \in {"none", "queued", "delivered"}
  PROVE  [r EXCEPT !.watcher = "done", !.callback = v] \in Proc
BY DEF Proc

LEMMA SetKilled ==
  ASSUME NEW r \in Proc, NEW l \in {"none", "alive", "zombie", "reaped"},
         NEW m \in BOOLEAN, NEW b \in BOOLEAN
  PROVE  [r EXCEPT !.leader = l, !.members = m, !.signalled = b] \in Proc
BY DEF Proc

LEMMA ProcUpdate ==
  ASSUME proc \in [Handles -> Proc], NEW h \in Handles, NEW r \in Proc
  PROVE  [proc EXCEPT ![h] = r] \in [Handles -> Proc]
OBVIOUS

\* Begin a stop call or let one move on, and the calls stay well typed.
LEMMA CallUpdate ==
  ASSUME call \in [Callers -> Call], NEW c \in Callers, NEW k \in Call
  PROVE  [call EXCEPT ![c] = k] \in [Callers -> Call]
OBVIOUS

LEMMA SetPc ==
  ASSUME NEW k \in Call,
         NEW s \in {"idle", "sleep", "mark", "signal", "grace", "force", "reap", "join"}
  PROVE  [k EXCEPT !.pc = s] \in Call
BY DEF Call

LEMMA NoCallType == NoCall \in Call
BY DEF NoCall, Call

LEMMA InitTypeOK == Init => TypeOK
BY ConstantsAssumption, NoCallType DEF Init, TypeOK, NotStarted, Untouched, Proc

LEMMA SpawnTypeOK ==
  ASSUME TypeOK, NEW h \in Handles, NEW p \in Pids, NEW w \in {"off", "wait"},
         Spawn(h, p, w), call' \in [Callers -> Call]
  PROVE  TypeOK'
<1>1. Untouched("alive", p, "running", w) \in Proc
  BY DEF Untouched, Proc
<1>2. proc' \in [Handles -> Proc]
  BY <1>1, ProcUpdate DEF TypeOK, Spawn
<1> QED
  BY <1>2 DEF TypeOK, Spawn

LEMMA BeginStopTypeOK ==
  ASSUME TypeOK, NEW c \in Callers, NEW p \in Pids, IsRunning(p),
         BeginStop(c, p), todo' \subseteq Pids
  PROVE  TypeOK'
<1>1. [pc |-> "mark", target |-> table[p]] \in Call
  BY DEF TypeOK, IsRunning, Call
<1>2. call' \in [Callers -> Call]
  BY <1>1, CallUpdate DEF TypeOK, BeginStop
<1> QED
  BY <1>2 DEF TypeOK, BeginStop

\* A sleeping timeout task belongs to a child that has a pid.
TimersStarted ==
  \A h \in Handles : call[h].pc = "sleep" => proc[h].pid \in Pids

LEMMA HandleTypeOK ==
  ASSUME TypeOK, TimersStarted, NEW h \in Handles,
         Environment(h) \/ Watcher(h) \/ Deliver(h) \/ TimerFires(h)
  PROVE  TypeOK'
<1> USE DEF TypeOK
<1>1. CASE LeaderExits(h)
  BY <1>1 DEF LeaderExits, Proc
<1>2. CASE MembersAppear(h)
  BY <1>2, SetFlag, ProcUpdate, Zenon DEF MembersAppear
<1>3. CASE MembersExit(h)
  BY <1>3, SetFlag, ProcUpdate, Zenon DEF MembersExit
<1>4. CASE WatcherReaps(h)
  BY <1>4 DEF WatcherReaps, Proc
<1>5. CASE WatcherSeesGone(h)
  BY <1>5 DEF WatcherSeesGone, Proc
<1>6. CASE Judge(h)
  BY <1>6 DEF Judge, FinalStatus, Proc
<1>7. CASE Publish(h)
  BY <1>7 DEF Publish, Proc
<1>8. CASE LogExit(h)
  <2>1. CallbackAfterLog \in {"none", "queued"}
    BY DEF CallbackAfterLog
  <2> DEFINE r == [proc[h] EXCEPT !.watcher = "done", !.callback = CallbackAfterLog]
  <2>2. r \in Proc
    BY <2>1, SetCallback
  <2>3. proc' = [proc EXCEPT ![h] = r]
    BY <1>8, Zenon DEF LogExit
  <2> QED
    BY <1>8, <2>2, <2>3, ProcUpdate DEF LogExit
<1>9. CASE LogExitFails(h)
  BY <1>9 DEF LogExitFails, Proc
<1>10. CASE Deliver(h)
  <2>1. proc' \in [Handles -> Proc]
    BY <1>10 DEF Deliver, Proc
  <2>2. call' \in [Callers -> Call]
    BY <1>10, NoCallType, CallUpdate DEF Deliver, Callers
  <2> QED
    BY <1>10, <2>1, <2>2 DEF Deliver
<1>11. CASE TimerFires(h)
  <2>1. h \in Callers
    BY DEF Callers
  <2>2. CASE IsRunning(proc[h].pid)
    <3>1. proc[h].pid \in Pids
      BY <1>11 DEF TimersStarted, TimerFires
    <3> QED
      BY <1>11, <2>1, <2>2, <3>1, BeginStopTypeOK DEF TimerFires
  <2>3. CASE ~IsRunning(proc[h].pid)
    BY <1>11, <2>1, <2>3, NoCallType, CallUpdate DEF TimerFires
  <2> QED
    BY <2>2, <2>3
<1> QED
  BY <1>1, <1>2, <1>3, <1>4, <1>5, <1>6, <1>7, <1>8, <1>9, <1>10, <1>11
     DEF Environment, Watcher

LEMMA StopCallTypeOK ==
  ASSUME TypeOK, NEW c \in Callers, StopCall(c),
         call[c].pc \notin {"idle", "sleep"} => call[c].target \in Handles
  PROVE  TypeOK'
<1> USE DEF TypeOK
<1>1. CASE StopSignals(c)
  <2>1. \A g \in Handles : [proc[g] EXCEPT !.signalled = TRUE] \in Proc
    BY SetFlag
  <2>2. proc' \in [Handles -> Proc]
    BY <1>1, <2>1, Zenon DEF StopSignals
  <2> QED
    BY <1>1, <2>2, SetPc, CallUpdate DEF StopSignals
<1>2. CASE StopSeesGone(c)
  BY <1>2, SetFlag, ProcUpdate, SetPc, CallUpdate DEF StopSeesGone
<1>3. CASE GraceExpires(c)
  <2>1. ASSUME NEW g \in Handles PROVE Killed(g) \in Proc
    <3>1. (IF proc[g].leader = "alive" THEN "zombie" ELSE proc[g].leader)
            \in {"none", "alive", "zombie", "reaped"}
      BY DEF Proc
    <3> QED
      BY <3>1, SetKilled DEF Killed
  <2>2. proc' \in [Handles -> Proc]
    BY <1>3, <2>1, Zenon DEF GraceExpires
  <2> QED
    BY <1>3, <2>2, SetPc, CallUpdate DEF GraceExpires
<1>4. CASE ForceExpires(c)
  BY <1>4, SetPc, CallUpdate DEF ForceExpires
<1>5. CASE StopReaps(c)
  <2>1. call[c].target \in Handles
    BY <1>5 DEF StopReaps
  <2>2. [proc[call[c].target] EXCEPT !.leader = "reaped"] \in Proc
    BY <2>1, SetLeader
  <2>3. proc' \in [Handles -> Proc]
    BY <1>5, <2>1, <2>2, ProcUpdate, Zenon DEF StopReaps
  <2> QED
    BY <1>5, <2>3, SetPc, CallUpdate DEF StopReaps
<1>6. CASE StopReturns(c)
  BY <1>6, NoCallType, CallUpdate DEF StopReturns
<1>7. CASE Mark(c)
  <2>1. call[c].target \in Handles
    BY <1>7 DEF Mark
  <2>2. [proc[call[c].target] EXCEPT !.stopRequested = TRUE] \in Proc
    BY <2>1, SetFlag
  <2>3. proc' \in [Handles -> Proc]
    BY <1>7, <2>1, <2>2, ProcUpdate, Zenon DEF Mark
  <2>4. AfterMark(call[c].target) \in {"reap", "signal"}
    BY DEF AfterMark
  <2>5. [call[c] EXCEPT !.pc = AfterMark(call[c].target)] \in Call
    BY <2>4, SetPc
  <2> QED
    BY <1>7, <2>3, <2>5, CallUpdate DEF Mark
<1>8. CASE StopRaises(c)
  BY <1>8, NoCallType, CallUpdate DEF StopRaises
<1> QED
  BY <1>1, <1>2, <1>3, <1>4, <1>5, <1>6, <1>7, <1>8 DEF StopCall

-----------------------------------------------------------------------------
(* The inductive invariant.                                                *)

\* No one the group's signals could still reach is left to end.
Settled(h) == proc[h].leader \in {"zombie", "reaped"} /\ ~proc[h].members

\* The watcher of a handle, what it has published and what it has seen.
ProcInv(h) ==
  /\ ~Started(h) => proc[h] = NotStarted
  /\ Started(h) => proc[h].pid \in Pids /\ proc[h].status # "none"
  /\ proc[h].watcher = "poll" => proc[h].leader = "reaped"
  /\ proc[h].watcher \in {"join", "publish", "log", "done", "dead"} => GroupGone(h)
  /\ proc[h].groupExited => GroupGone(h)
  /\ proc[h].verdict # "none" <=>
       proc[h].watcher \in {"publish", "log", "done", "dead"}
  /\ proc[h].status \in {"exited", "killed"} <=>
       proc[h].watcher \in {"log", "done", "dead"}
  /\ proc[h].status \in {"exited", "killed"} => proc[h].status = proc[h].verdict
  /\ proc[h].callback # "none" => proc[h].watcher = "done"

\* A stop call works on a started child; after the forced kill the child can
\* only be reaped, and it has been when the call joins the threads.
CallInv(c) ==
  /\ call[c].pc \notin {"idle", "sleep"} =>
       call[c].target \in Handles /\ Started(call[c].target)
  /\ call[c].pc \in {"force", "reap", "join"} => Settled(call[c].target)
  /\ call[c].pc = "join" => proc[call[c].target].leader = "reaped"

\* The system never hands out the pid of a group that still exists.
OneLivePerPid ==
  \A g, h \in Handles :
    /\ Started(g) /\ ~GroupGone(g)
    /\ Started(h) /\ ~GroupGone(h)
    /\ proc[g].pid = proc[h].pid
    => g = h

IInv ==
  /\ TypeOK
  /\ TimersStarted
  /\ \A h \in Handles : ProcInv(h)
  /\ \A c \in Callers : CallInv(c)
  /\ OneLivePerPid

LEMMA InitIInv == Init => IInv
<1> SUFFICES ASSUME Init PROVE IInv
  OBVIOUS
<1>1. \A h \in Handles : proc[h] = NotStarted
  BY DEF Init
<1>2. ASSUME NEW h \in Handles PROVE ~Started(h) /\ ProcInv(h)
  <2>1. /\ proc[h].leader = "none" /\ proc[h].status = "none"
        /\ proc[h].watcher = "off" /\ proc[h].verdict = "none"
        /\ proc[h].callback = "none" /\ ~proc[h].groupExited
    BY <1>1 DEF NotStarted, Untouched
  <2> QED
    BY <1>1, <2>1 DEF Started, ProcInv
<1>3. \A c \in Callers : call[c].pc = "idle"
  BY DEF Init, NoCall
<1>4. \A c \in Callers : CallInv(c)
  BY <1>3 DEF CallInv
<1>5. TimersStarted
  BY <1>3 DEF TimersStarted, Callers
<1> QED
  BY <1>2, <1>4, <1>5, InitTypeOK DEF IInv, OneLivePerPid

LEMMA NextTypeOK == IInv /\ [Next]_vars => TypeOK'
<1> SUFFICES ASSUME IInv, [Next]_vars PROVE TypeOK'
  OBVIOUS
<1>1. TypeOK /\ TimersStarted
  BY DEF IInv
<1>2. CASE UNCHANGED vars
  BY <1>1, <1>2 DEF TypeOK, vars
<1>3. ASSUME NEW h \in Handles, NEW p \in Pids,
             Start(h, p) \/ StartLogFails(h, p)
      PROVE  TypeOK'
  <2>1. CASE Start(h, p)
    <3>1. h \in Callers
      BY DEF Callers
    <3>2. [call[h] EXCEPT !.pc = "sleep"] \in Call
      BY <1>1, <3>1, SetPc DEF TypeOK
    <3>3. [call EXCEPT ![h].pc = "sleep"] \in [Callers -> Call]
      BY <1>1, <3>1, <3>2, CallUpdate, Zenon DEF TypeOK
    <3>4. call' \in [Callers -> Call]
      BY <1>1, <2>1, <3>3, Zenon DEF Start, TypeOK
    <3> QED
      BY <1>1, <2>1, <3>4, SpawnTypeOK DEF Start
  <2>2. CASE StartLogFails(h, p)
    BY <1>1, <2>2, SpawnTypeOK DEF StartLogFails, TypeOK
  <2> QED
    BY <1>3, <2>1, <2>2
<1>4. ASSUME NEW h \in Handles,
             Environment(h) \/ Watcher(h) \/ Deliver(h) \/ TimerFires(h)
      PROVE  TypeOK'
  BY <1>1, <1>4, HandleTypeOK
<1>5. ASSUME NEW c \in Callers, StopCall(c) PROVE TypeOK'
  BY <1>1, <1>5, StopCallTypeOK DEF IInv, CallInv
<1>6. ASSUME NEW c \in Requests, NEW p \in Pids, RequestStop(c, p) PROVE TypeOK'
  BY <1>1, <1>6, BeginStopTypeOK DEF RequestStop, Callers, TypeOK
<1>7. CASE StopAllBegins \/ StopAllReturns \/ LoopCloses
  BY <1>1, <1>7, NoCallType
     DEF StopAllBegins, StopAllReturns, LoopCloses, RunningPids, TypeOK
<1>8. ASSUME NEW p \in Pids, StopAllCalls(p) PROVE TypeOK'
  BY <1>1, <1>8, BeginStopTypeOK DEF StopAllCalls, Callers, TypeOK
<1> QED
  BY <1>2, <1>3, <1>4, <1>5, <1>6, <1>7, <1>8 DEF Next

\* A wait that finds nobody in the group of a started child has seen its end.
LEMMA NobodyLeft ==
  ASSUME NEW h \in Handles, Started(h), ~TreeExists(h)
  PROVE  GroupGone(h)
BY DEF TreeExists, GroupOf

LEMMA BeginStopTarget ==
  ASSUME IInv, NEW p \in Pids, IsRunning(p)
  PROVE  table[p] \in Handles /\ Started(table[p])
BY DEF IInv, TypeOK, IsRunning, ProcInv, NotStarted, Untouched

LEMMA NextProcInv == IInv /\ [Next]_vars => \A g \in Handles : ProcInv(g)'
<1> SUFFICES ASSUME IInv, [Next]_vars, NEW g \in Handles PROVE ProcInv(g)'
  OBVIOUS
<1>0. proc \in [Handles -> Proc] /\ ProcInv(g)
  BY DEF IInv, TypeOK
<1> USE DEF ProcInv, Started, GroupGone, Proc
<1>1. ASSUME UNCHANGED proc PROVE ProcInv(g)'
  BY <1>0, <1>1
<1>2. ASSUME NEW h \in Handles, NEW p \in Pids, NEW w \in {"off", "wait"},
             Spawn(h, p, w)
      PROVE  ProcInv(g)'
  BY <1>0, <1>2 DEF Spawn, Untouched
<1>3. ASSUME NEW h \in Handles, Environment(h) PROVE ProcInv(g)'
  <2>1. CASE LeaderExits(h)
    BY <1>0, <2>1 DEF LeaderExits
  <2>2. CASE MembersAppear(h)
    BY <1>0, <2>2 DEF MembersAppear
  <2>3. CASE MembersExit(h)
    <3>1. Started(h)
      BY <2>3 DEF IInv, MembersExit, NotStarted, Untouched
    <3> QED
      BY <1>0, <2>3, <3>1 DEF MembersExit
  <2> QED
    BY <1>3, <2>1, <2>2, <2>3 DEF Environment
<1>4. ASSUME NEW h \in Handles, Watcher(h) PROVE ProcInv(g)'
  <2>1. CASE WatcherReaps(h)
    BY <1>0, <2>1 DEF WatcherReaps
  <2>2. CASE WatcherSeesGone(h)
    <3>1. Started(h)
      BY <2>2 DEF IInv, WatcherSeesGone, NotStarted, Untouched
    <3>2. GroupGone(h)
      BY <2>2, <3>1, NobodyLeft DEF WatcherSeesGone
    <3> QED
      BY <1>0, <2>2, <3>2 DEF WatcherSeesGone
  <2>3. CASE Judge(h)
    BY <1>0, <2>3 DEF Judge, FinalStatus
  <2>4. CASE Publish(h)
    BY <1>0, <2>4 DEF Publish
  <2>5. CASE LogExit(h)
    BY <1>0, <2>5 DEF LogExit, CallbackAfterLog
  <2>6. CASE LogExitFails(h)
    BY <1>0, <2>6 DEF LogExitFails
  <2> QED
    BY <1>4, <2>1, <2>2, <2>3, <2>4, <2>5, <2>6 DEF Watcher
<1>5. ASSUME NEW h \in Handles, Deliver(h) PROVE ProcInv(g)'
  BY <1>0, <1>5 DEF Deliver
<1>6. ASSUME NEW h \in Handles, TimerFires(h) PROVE ProcInv(g)'
  <2>1. h \in Callers /\ proc[h].pid \in Pids
    BY <1>6 DEF Callers, IInv, TimersStarted, TimerFires
  <2> QED
    BY <1>1, <1>6, <2>1 DEF TimerFires, BeginStop
<1>7. ASSUME NEW c \in Callers, StopCall(c) PROVE ProcInv(g)'
  <2>1. call[c].pc \notin {"idle", "sleep"} =>
          call[c].target \in Handles /\ Started(call[c].target)
    BY DEF IInv, CallInv
  <2>2. CASE StopSignals(c)
    <3>1. CASE g \in Hit(c)
      <4>1. proc'[g] = [proc[g] EXCEPT !.signalled = TRUE]
        BY <2>2, <3>1 DEF StopSignals
      <4>2. Started(g)
        BY <3>1 DEF Hit, GroupOf
      <4> QED
        BY <1>0, <4>1, <4>2
    <3>2. CASE g \notin Hit(c)
      BY <1>0, <2>2, <3>2 DEF StopSignals
    <3> QED
      BY <3>1, <3>2
  <2>3. CASE StopSeesGone(c)
    <3>1. GroupGone(call[c].target)
      BY <2>1, <2>3, NobodyLeft DEF StopSeesGone
    <3> QED
      BY <1>0, <2>1, <2>3, <3>1 DEF StopSeesGone
  <2>4. CASE GraceExpires(c)
    <3>1. CASE g \in Hit(c)
      <4>1. proc'[g] = Killed(g)
        BY <2>4, <3>1 DEF GraceExpires
      <4>2. Started(g) /\ ~GroupGone(g)
        BY <3>1 DEF Hit, GroupOf
      <4> QED
        BY <1>0, <4>1, <4>2 DEF Killed
    <3>2. CASE g \notin Hit(c)
      BY <1>0, <2>4, <3>2 DEF GraceExpires
    <3> QED
      BY <3>1, <3>2
  <2>5. CASE ForceExpires(c)
    BY <1>1, <2>5 DEF ForceExpires
  <2>6. CASE StopReaps(c)
    BY <1>0, <2>1, <2>6 DEF StopReaps, Reapable
  <2>7. CASE StopReturns(c) \/ StopRaises(c)
    BY <1>1, <2>7 DEF StopReturns, StopRaises
  <2>8. CASE Mark(c)
    BY <1>0, <2>1, <2>8 DEF Mark
  <2> QED
    BY <1>7, <2>2, <2>3, <2>4, <2>5, <2>6, <2>7, <2>8 DEF StopCall
<1>8. ASSUME NEW c \in Requests, NEW p \in Pids, RequestStop(c, p) PROVE ProcInv(g)'
  BY <1>1, <1>8 DEF RequestStop, BeginStop
<1>9. CASE StopAllBegins \/ StopAllReturns \/ LoopCloses
  BY <1>1, <1>9 DEF StopAllBegins, StopAllReturns, LoopCloses
<1>10. ASSUME NEW p \in Pids, StopAllCalls(p) PROVE ProcInv(g)'
  BY <1>1, <1>10 DEF StopAllCalls, BeginStop
<1> QED
  BY <1>1, <1>2, <1>3, <1>4, <1>5, <1>6, <1>7, <1>8, <1>9, <1>10
     DEF Next, vars, Start, StartLogFails

NewlySpawned(g) == \E p \in Pids, w \in {"off", "wait"} : Spawn(g, p, w)

\* A step never revives a handle, nor renames it; only a spawn starts one.
Ages(g) ==
  /\ Started(g)' => Started(g) \/ NewlySpawned(g)
  /\ Started(g) => Started(g)' /\ proc'[g].pid = proc[g].pid
  /\ Settled(g) => Settled(g)'
  /\ proc[g].leader = "reaped" => proc'[g].leader = "reaped"

LEMMA NextAges == IInv /\ [Next]_vars => \A g \in Handles : Ages(g)
<1> SUFFICES ASSUME IInv, [Next]_vars, NEW g \in Handles PROVE Ages(g)
  OBVIOUS
<1>0. proc \in [Handles -> Proc]
  BY DEF IInv, TypeOK
<1> USE DEF Ages, Started, Settled, Proc
<1>1. ASSUME UNCHANGED proc PROVE Ages(g)
  BY <1>0, <1>1
<1>2. ASSUME NEW h \in Handles, NEW p \in Pids, NEW w \in {"off", "wait"},
             Spawn(h, p, w)
      PROVE  Ages(g)
  <2>1. CASE g = h
    <3>1. ~Started(g) /\ NewlySpawned(g)
      BY <1>2, <2>1 DEF Spawn, NewlySpawned
    <3> QED
      BY <3>1
  <2>2. CASE g # h
    BY <1>0, <1>2, <2>2 DEF Spawn
  <2> QED
    BY <2>1, <2>2
<1>3. ASSUME NEW h \in Handles, Environment(h) PROVE Ages(g)
  <2>1. CASE LeaderExits(h)
    BY <1>0, <2>1 DEF LeaderExits
  <2>2. CASE MembersAppear(h)
    BY <1>0, <2>2 DEF MembersAppear
  <2>3. CASE MembersExit(h)
    BY <1>0, <2>3 DEF MembersExit
  <2> QED
    BY <1>3, <2>1, <2>2, <2>3 DEF Environment
<1>4. ASSUME NEW h \in Handles, Watcher(h) PROVE Ages(g)
  <2>1. CASE WatcherReaps(h)
    BY <1>0, <2>1 DEF WatcherReaps
  <2>2. CASE WatcherSeesGone(h)
    BY <1>0, <2>2 DEF WatcherSeesGone
  <2>3. CASE Judge(h)
    BY <1>0, <2>3 DEF Judge
  <2>4. CASE Publish(h)
    BY <1>0, <2>4 DEF Publish
  <2>5. CASE LogExit(h)
    BY <1>0, <2>5 DEF LogExit
  <2>6. CASE LogExitFails(h)
    BY <1>0, <2>6 DEF LogExitFails
  <2> QED
    BY <1>4, <2>1, <2>2, <2>3, <2>4, <2>5, <2>6 DEF Watcher
<1>5. ASSUME NEW h \in Handles, Deliver(h) PROVE Ages(g)
  BY <1>0, <1>5 DEF Deliver
<1>7. ASSUME NEW h \in Handles, TimerFires(h) PROVE Ages(g)
  BY <1>1, <1>7 DEF TimerFires, BeginStop
<1>8. ASSUME NEW c \in Callers, StopCall(c) PROVE Ages(g)
  <2>1. call[c].pc \notin {"idle", "sleep"} => call[c].target \in Handles
    BY DEF IInv, CallInv
  <2>2. CASE StopSignals(c)
    BY <1>0, <2>2 DEF StopSignals
  <2>3. CASE StopSeesGone(c)
    BY <1>0, <2>1, <2>3 DEF StopSeesGone
  <2>4. CASE GraceExpires(c)
    <3>1. proc'[g] = IF g \in Hit(c) THEN Killed(g) ELSE proc[g]
      BY <2>4 DEF GraceExpires
    <3> QED
      BY <1>0, <3>1 DEF Killed
  <2>5. CASE StopReaps(c)
    BY <1>0, <2>1, <2>5 DEF StopReaps, Reapable
  <2>6. CASE ForceExpires(c) \/ StopReturns(c) \/ StopRaises(c)
    BY <1>1, <2>6 DEF ForceExpires, StopReturns, StopRaises
  <2>7. CASE Mark(c)
    BY <1>0, <2>1, <2>7 DEF Mark
  <2> QED
    BY <1>8, <2>2, <2>3, <2>4, <2>5, <2>6, <2>7 DEF StopCall
<1>9. ASSUME NEW c \in Requests, NEW p \in Pids, RequestStop(c, p) PROVE Ages(g)
  BY <1>1, <1>9 DEF RequestStop, BeginStop
<1>10. CASE StopAllBegins \/ StopAllReturns \/ LoopCloses
  BY <1>1, <1>10 DEF StopAllBegins, StopAllReturns, LoopCloses
<1>11. ASSUME NEW p \in Pids, StopAllCalls(p) PROVE Ages(g)
  BY <1>1, <1>11 DEF StopAllCalls, BeginStop
<1> QED
  BY <1>1, <1>2, <1>3, <1>4, <1>5, <1>7, <1>8, <1>9, <1>10, <1>11
     DEF Next, vars, Start, StartLogFails

\* What a call has established about its target stays true while it waits.
LEMMA CallInvKept ==
  ASSUME IInv, [Next]_vars, NEW c \in Callers, call'[c] = call[c]
  PROVE  CallInv(c)'
<1>1. CallInv(c)
  BY DEF IInv
<1>2. \A g \in Handles : Ages(g)
  BY NextAges
<1> QED
  BY <1>1, <1>2 DEF CallInv, Ages

LEMMA BeginStopCallInv ==
  ASSUME IInv, [Next]_vars, NEW c \in Callers, NEW p \in Pids, IsRunning(p),
         BeginStop(c, p)
  PROVE  CallInv(c)'
<1>1. PICK h \in Handles : h = table[p] /\ Started(h)
  BY BeginStopTarget
<1>2. call'[c].pc = "mark" /\ call'[c].target = h
  BY <1>1 DEF BeginStop, IInv, TypeOK
<1> QED
  BY <1>1, <1>2 DEF CallInv, Started, BeginStop

LEMMA NextCallInv == IInv /\ [Next]_vars => \A c \in Callers : CallInv(c)'
<1> SUFFICES ASSUME IInv, [Next]_vars, NEW c \in Callers PROVE CallInv(c)'
  OBVIOUS
<1>0. /\ call \in [Callers -> Call]
      /\ CallInv(c)
      /\ call[c].pc \notin {"idle", "sleep"} => Ages(call[c].target)
  BY NextAges DEF IInv, TypeOK, CallInv
<1>1. CASE call'[c] = call[c]
  BY <1>1, CallInvKept
<1>2. CASE call'[c].pc \in {"idle", "sleep"}
  BY <1>2 DEF CallInv
<1>3. ASSUME NEW d \in Callers, NEW p \in Pids, IsRunning(p), BeginStop(d, p)
      PROVE  CallInv(c)'
  <2>1. CASE d = c
    BY <1>3, <2>1, BeginStopCallInv
  <2>2. CASE d # c
    BY <1>0, <1>1, <1>3, <2>2 DEF BeginStop
  <2> QED
    BY <2>1, <2>2
<1>4. ASSUME NEW h \in Handles, NEW p \in Pids,
             Start(h, p) \/ StartLogFails(h, p)
      PROVE  CallInv(c)'
  <2>1. CASE call' = call
    BY <1>1, <2>1
  <2>2. CASE call' = [call EXCEPT ![h].pc = "sleep"]
    <3>1. call'[c].pc = "sleep" \/ call'[c] = call[c]
      BY <1>0, <2>2 DEF Call
    <3> QED
      BY <1>1, <1>2, <3>1
  <2> QED
    BY <1>4, <2>1, <2>2 DEF Start, StartLogFails
<1>5. ASSUME NEW h \in Handles, Environment(h) \/ Watcher(h) PROVE CallInv(c)'
  <2>1. call' = call
    BY <1>5 DEF Environment, LeaderExits, MembersAppear, MembersExit,
                Watcher, WatcherReaps, WatcherSeesGone, Judge, Publish,
                LogExit, LogExitFails
  <2> QED
    BY <1>1, <2>1
<1>6. ASSUME NEW h \in Handles, Deliver(h) PROVE CallInv(c)'
  BY <1>0, <1>1, <1>2, <1>6 DEF Deliver, NoCall
<1>7. ASSUME NEW h \in Handles, TimerFires(h) PROVE CallInv(c)'
  <2>1. h \in Callers /\ proc[h].pid \in Pids
    BY <1>7 DEF Callers, IInv, TimersStarted, TimerFires
  <2>2. CASE IsRunning(proc[h].pid)
    BY <1>3, <1>7, <2>1, <2>2 DEF TimerFires
  <2>3. CASE ~IsRunning(proc[h].pid)
    BY <1>0, <1>1, <1>2, <1>7, <2>3 DEF TimerFires, NoCall
  <2> QED
    BY <2>2, <2>3
<1>8. ASSUME NEW d \in Callers, StopCall(d) PROVE CallInv(c)'
  <2>1. CASE d # c
    <3>1. call'[c] = call[c]
      BY <1>0, <1>8, <2>1 DEF StopCall, Mark, StopSignals, StopSeesGone,
           GraceExpires, ForceExpires, StopRaises, StopReaps, StopReturns
    <3> QED
      BY <1>1, <3>1
  <2>2. CASE d = c
    <3> DEFINE t == call[c].target
    <3>1. CASE StopReturns(c) \/ StopRaises(c)
      BY <1>0, <1>2, <3>1 DEF StopReturns, StopRaises, NoCall
    <3>2. ASSUME call'[c].pc # "idle"
          PROVE  /\ t \in Handles /\ Started(t) /\ Ages(t)
                 /\ call'[c].target = t
      BY <1>0, <1>8, <2>2, <3>2 DEF CallInv, Call, StopCall, Mark, StopSignals,
           StopSeesGone, GraceExpires, ForceExpires, StopReaps, StopReturns,
           StopRaises, NoCall
    <3>3. ASSUME call'[c].pc # "idle" PROVE Started(call[c].target)'
      BY <3>2, <3>3 DEF Ages, Started
    <3>4. CASE StopSignals(c)
      BY <1>0, <3>2, <3>3, <3>4 DEF StopSignals, CallInv, Call
    <3>5. CASE StopSeesGone(c)
      <4>1. GroupGone(t)
        BY <1>0, <3>5, NobodyLeft DEF StopSeesGone, CallInv
      <4>2. Settled(t)'
        BY <1>0, <3>5, <4>1 DEF GroupGone, Settled, Ages, StopSeesGone
      <4> QED
        BY <1>0, <3>2, <3>3, <3>5, <4>2
           DEF StopSeesGone, CallInv, Call, Settled
    <3>6. CASE GraceExpires(c)
      <4>1. Settled(t)'
        <5>1. CASE t \in Hit(c)
          <6>1. proc'[t] = Killed(t)
            BY <1>0, <3>6, <5>1 DEF GraceExpires, CallInv
          <6>2. /\ proc[t] \in Proc
                /\ proc[t].leader # "none"
            BY <1>0, <3>6 DEF GraceExpires, CallInv, Started, IInv, TypeOK
          <6>3. t' = t
            BY <1>0, <3>6 DEF GraceExpires, Call
          <6>4. proc'[t].leader \in {"zombie", "reaped"} /\ ~proc'[t].members
            BY <6>1, <6>2 DEF Killed, Proc
          <6> QED
            BY <6>3, <6>4 DEF Settled
        <5>2. CASE t \notin Hit(c)
          <6>1. GroupGone(t)
            BY <1>0, <3>6, <5>2 DEF Hit, GroupOf, GraceExpires, CallInv, IInv, ProcInv
          <6> QED
            BY <1>0, <3>6, <6>1 DEF GroupGone, Settled, Ages, GraceExpires
        <5> QED
          BY <5>1, <5>2
      <4> QED
        BY <1>0, <3>2, <3>3, <3>6, <4>1
           DEF GraceExpires, CallInv, Call, Settled
    <3>7. CASE ForceExpires(c)
      BY <1>0, <3>2, <3>3, <3>7
         DEF ForceExpires, CallInv, Call, Settled, Ages
    <3>8. CASE StopReaps(c)
      <4>1. proc'[t].leader = "reaped"
        BY <1>0, <3>8 DEF StopReaps, CallInv, IInv, TypeOK, Proc
      <4>2. Settled(t)'
        BY <1>0, <3>8 DEF StopReaps, CallInv, Ages
      <4> QED
        BY <1>0, <3>2, <3>3, <3>8, <4>1, <4>2
           DEF StopReaps, CallInv, Call, Settled
    <3>9. CASE Mark(c)
      <4>1. call'[c].pc = AfterMark(t)
        BY <1>0, <3>9 DEF Mark, Call
      <4>2. proc[t].groupExited => Settled(t)
        BY <1>0, <3>9 DEF Mark, CallInv, IInv, ProcInv, GroupGone, Settled
      <4>3. call'[c].pc \in {"reap", "signal"} /\ (call'[c].pc = "reap" => Settled(t)')
        BY <1>0, <3>9, <4>1, <4>2 DEF Mark, CallInv, AfterMark, Ages, Settled
      <4> QED
        BY <3>2, <3>3, <4>3 DEF CallInv, Settled
    <3> QED
      BY <1>8, <2>2, <3>1, <3>4, <3>5, <3>6, <3>7, <3>8, <3>9 DEF StopCall
  <2> QED
    BY <2>1, <2>2
<1>9. ASSUME NEW d \in Requests, NEW p \in Pids, RequestStop(d, p)
      PROVE  CallInv(c)'
  BY <1>3, <1>9 DEF RequestStop, Callers
<1>10. CASE StopAllBegins \/ StopAllReturns \/ LoopCloses
  BY <1>1, <1>2, <1>10 DEF StopAllBegins, StopAllReturns, LoopCloses, NoCall
<1>11. ASSUME NEW p \in Pids, StopAllCalls(p) PROVE CallInv(c)'
  BY <1>1, <1>3, <1>11 DEF StopAllCalls, Callers
<1>12. CASE UNCHANGED vars
  BY <1>1, <1>12 DEF vars
<1> QED
  BY <1>4, <1>5, <1>6, <1>7, <1>8, <1>9, <1>10, <1>11, <1>12 DEF Next

\* Two groups that exist after a step existed before it, or one of them has
\* just been given a free pid.
LEMMA NextOneLivePerPid == IInv /\ [Next]_vars => OneLivePerPid'
<1> SUFFICES ASSUME IInv, [Next]_vars, NEW g \in Handles, NEW h \in Handles,
                    Started(g)', ~GroupGone(g)', Started(h)', ~GroupGone(h)',
                    proc'[g].pid = proc'[h].pid
             PROVE  g = h
  BY DEF OneLivePerPid
<1>1. /\ \A k \in Handles : Ages(k) /\ ProcInv(k)
      /\ proc \in [Handles -> Proc] /\ proc' \in [Handles -> Proc]
  BY NextAges, NextTypeOK DEF IInv, TypeOK
<1>2. \A k \in Handles : ~GroupGone(k)' => ~GroupGone(k)
  <2> SUFFICES ASSUME NEW k \in Handles, GroupGone(k) PROVE GroupGone(k)'
    OBVIOUS
  <2> QED
    BY <1>1 DEF Ages, GroupGone, Settled
<1>3. CASE Started(g) /\ Started(h)
  BY <1>1, <1>2, <1>3 DEF IInv, OneLivePerPid, Ages
<1>4. ASSUME NEW k \in Handles, NEW l \in Handles, NewlySpawned(k),
             proc'[l].pid = proc'[k].pid, Started(l)', ~GroupGone(l)'
      PROVE  l = k
  <2>1. PICK p \in Pids, w \in {"off", "wait"} : Spawn(k, p, w)
    BY <1>4 DEF NewlySpawned
  <2>2. /\ proc'[k].pid = p
        /\ l # k => proc'[l] = proc[l]
        /\ PidFree(p)
    BY <1>1, <2>1 DEF Spawn, Untouched
  <2>3. l # k => GroupGone(l)
    BY <1>4, <2>2 DEF PidFree
  <2> QED
    BY <1>2, <1>4, <2>3
<1> QED
  BY <1>1, <1>3, <1>4 DEF Ages

LEMMA NextTimersStarted == IInv /\ [Next]_vars => TimersStarted'
<1> SUFFICES ASSUME IInv, [Next]_vars, NEW h \in Handles,
                    call'[h].pc = "sleep"
             PROVE  proc'[h].pid \in Pids
  BY DEF TimersStarted
<1>1. /\ Ages(h) /\ ProcInv(h)
      /\ h \in Callers /\ call \in [Callers -> Call]
      /\ call[h].pc = "sleep" => proc[h].pid \in Pids
  BY NextAges DEF IInv, TypeOK, TimersStarted, Callers
<1>2. CASE call[h].pc = "sleep"
  <2>1. Started(h)
    BY <1>1, <1>2, ConstantsAssumption DEF ProcInv, NotStarted, Untouched
  <2> QED
    BY <1>1, <1>2, <2>1 DEF Ages
<1>3. CASE call[h].pc # "sleep"
  <2>1. call'[h] # call[h]
    BY <1>3
  <2>2. ASSUME NEW k \in Handles, NEW p \in Pids,
               Start(k, p) \/ StartLogFails(k, p)
        PROVE  proc'[h].pid \in Pids
    <3>1. call' = [call EXCEPT ![k].pc = "sleep"] /\ Start(k, p)
      BY <2>1, <2>2 DEF Start, StartLogFails
    <3>2. k = h
      BY <1>1, <2>1, <3>1
    <3> QED
      BY <3>1, <3>2 DEF Start, Spawn, Untouched, IInv, TypeOK
  <2>3. ASSUME NEW c \in Callers, NEW p \in Pids, BeginStop(c, p) PROVE FALSE
    BY <1>1, <2>1, <2>3 DEF BeginStop
  <2>4. ASSUME NEW k \in Handles, Environment(k) \/ Watcher(k) PROVE FALSE
    BY <2>1, <2>4
       DEF Environment, LeaderExits, MembersAppear, MembersExit, Watcher,
           WatcherReaps, WatcherSeesGone, Judge, Publish, LogExit, LogExitFails
  <2>5. ASSUME NEW k \in Handles, Deliver(k) PROVE FALSE
    BY <1>1, <2>1, <2>5 DEF Deliver, NoCall
  <2>6. ASSUME NEW k \in Handles, TimerFires(k) PROVE FALSE
    <3>1. k \in Callers /\ proc[k].pid \in Pids
      BY <2>6 DEF Callers, IInv, TimersStarted, TimerFires
    <3> QED
      BY <1>1, <2>1, <2>3, <2>6, <3>1 DEF TimerFires, NoCall
  <2>7. ASSUME NEW c \in Callers, StopCall(c) PROVE FALSE
    BY <1>1, <2>1, <2>7
       DEF StopCall, Mark, AfterMark, StopSignals, StopSeesGone, GraceExpires,
           ForceExpires, StopRaises, StopReaps, StopReturns, NoCall, Call
  <2>8. ASSUME NEW c \in Requests, NEW p \in Pids, RequestStop(c, p) PROVE FALSE
    BY <2>3, <2>8 DEF RequestStop, Callers
  <2>9. CASE StopAllBegins \/ StopAllReturns \/ LoopCloses
    BY <1>1, <2>1, <2>9 DEF StopAllBegins, StopAllReturns, LoopCloses, NoCall
  <2>10. ASSUME NEW p \in Pids, StopAllCalls(p) PROVE FALSE
    BY <2>1, <2>3, <2>10 DEF StopAllCalls, Callers
  <2> QED
    BY <2>1, <2>2, <2>4, <2>5, <2>6, <2>7, <2>8, <2>9, <2>10 DEF Next, vars
<1> QED
  BY <1>2, <1>3

LEMMA NextIInv == IInv /\ [Next]_vars => IInv'
BY NextTypeOK, NextTimersStarted, NextProcInv, NextCallInv, NextOneLivePerPid
   DEF IInv

THEOREM Invariance == Spec => []IInv
BY InitIInv, NextIInv, PTL DEF Spec

-----------------------------------------------------------------------------
(* The theorems about every number of children, pids and callers.          *)

\* Every variable of the process manager keeps its type.
THEOREM TypeCorrect == Spec => []TypeOK
<1>1. IInv => TypeOK
  BY DEF IInv
<1> QED
  BY Invariance, <1>1, PTL

\* No child is published as ended while a member of its group is left, even
\* with pids handed out again and event writes that fail.
THEOREM TerminalTreesGone == Spec => []TerminalMeansGroupGone
<1>1. IInv => TerminalMeansGroupGone
  BY DEF IInv, ProcInv, TerminalMeansGroupGone
<1> QED
  BY Invariance, <1>1, PTL

\* A stop call that joins the threads has left nothing of its target's group.
THEOREM StoppedTreesGone == Spec => []StoppedTreeIsGone
<1>1. IInv => StoppedTreeIsGone
  BY DEF IInv, CallInv, StoppedTreeIsGone, Settled, GroupGone
<1> QED
  BY Invariance, <1>1, PTL

-----------------------------------------------------------------------------
(* What holds as long as the system hands out no pid twice, so that the    *)
(* table never loses a child.                                              *)

\* A stop_process call that has begun, and one that has marked its child.
Waiting(c) == call[c].pc \notin {"idle", "sleep"}
Marked(c)  == call[c].pc \notin {"idle", "sleep", "mark"}

OnePerPid ==
  \A g, h \in Handles :
    Started(g) /\ Started(h) /\ proc[g].pid = proc[h].pid => g = h

Tracked == \A h \in Handles : Started(h) => table[proc[h].pid] = h

\* A signal reaches only a group somebody asked to stop, before its verdict.
StopInv ==
  /\ \A h \in Handles :
       proc[h].signalled =>
         /\ proc[h].stopRequested
         /\ proc[h].verdict \in {"none", "killed"}
  /\ \A c \in Callers : Marked(c) => proc[call[c].target].stopRequested

\* Once a shutdown has begun, what is alive is about to be stopped or is being
\* stopped by the gather's call for its pid, unless one of these calls has raised.
DrainInv ==
  /\ \A p \in Pids : call[p].pc # "sleep"
  /\ \A h \in Handles : Started(h) /\ ~GroupGone(h) =>
       /\ phase # "stopped"
       /\ phase = "stopping" =>
            \/ proc[h].pid \in todo
            \/ Waiting(proc[h].pid) /\ call[proc[h].pid].target = h

SInv == IInv /\ OnePerPid /\ Tracked /\ StopInv /\ DrainInv

-----------------------------------------------------------------------------

LEMMA InitSInv == Init => SInv
<1> SUFFICES ASSUME Init PROVE SInv
  OBVIOUS
<1>1. ASSUME NEW h \in Handles PROVE ~Started(h) /\ proc[h].signalled = FALSE
  <2>1. proc[h] = NotStarted
    BY DEF Init
  <2> QED
    BY <2>1 DEF NotStarted, Untouched, Started
<1>2. \A c \in Callers : call[c].pc = "idle"
  BY DEF Init, NoCall
<1>3. StopInv
  BY <1>1, <1>2 DEF StopInv, Marked
<1>4. DrainInv
  BY <1>2 DEF Init, DrainInv, Callers
<1> QED
  BY <1>1, <1>3, <1>4, InitIInv DEF SInv, OnePerPid, Tracked

LEMMA NextOnePerPid ==
  ASSUME ~PidsRecycled, SInv, [Next]_vars PROVE OnePerPid'
<1> SUFFICES ASSUME NEW g \in Handles, NEW h \in Handles,
                    Started(g)', Started(h)', proc'[g].pid = proc'[h].pid
             PROVE  g = h
  BY DEF OnePerPid
<1>1. \A k \in Handles : Ages(k)
  BY NextAges DEF SInv
<1>2. CASE Started(g) /\ Started(h)
  BY <1>1, <1>2 DEF SInv, OnePerPid, Ages
<1>3. ASSUME NEW k \in Handles, NEW l \in Handles, NewlySpawned(k),
             proc'[l].pid = proc'[k].pid
      PROVE  l = k
  <2>1. PICK p \in Pids, w \in {"off", "wait"} : Spawn(k, p, w)
    BY <1>3 DEF NewlySpawned
  <2>2. /\ proc'[k].pid = p
        /\ l # k => proc'[l] = proc[l]
        /\ PidFree(p)
    BY <2>1 DEF Spawn, Untouched, SInv, IInv, TypeOK
  <2> QED
    BY <1>3, <2>2 DEF PidFree
<1> QED
  BY <1>1, <1>2, <1>3 DEF Ages

LEMMA NextTracked ==
  ASSUME ~PidsRecycled, SInv, [Next]_vars PROVE Tracked'
<1> SUFFICES ASSUME NEW h \in Handles, Started(h)' PROVE table'[proc'[h].pid] = h
  BY DEF Tracked
<1>1. /\ Ages(h) /\ ProcInv(h) /\ table \in [Pids -> Handles \cup {NoHandle}]
      /\ proc \in [Handles -> Proc]
  BY NextAges DEF SInv, IInv, TypeOK
<1>2. CASE NewlySpawned(h)
  BY <1>1, <1>2 DEF NewlySpawned, Spawn, Untouched
<1>3. CASE Started(h)
  <2>1. /\ proc'[h].pid = proc[h].pid /\ table[proc[h].pid] = h
        /\ proc[h].pid \in Pids
    BY <1>1, <1>3 DEF Ages, SInv, Tracked, ProcInv
  <2>2. CASE UNCHANGED table
    BY <2>1, <2>2
  <2>3. ASSUME NEW k \in Handles, NEW p \in Pids, NEW w \in {"off", "wait"},
               Spawn(k, p, w)
        PROVE  table'[proc[h].pid] = h
    BY <2>1, <2>3 DEF Spawn, PidFree
  <2>4. ASSUME NEW k \in Handles, Publish(k) PROVE table'[proc[h].pid] = h
    <3>1. Started(k)
      BY <2>4 DEF Publish, SInv, IInv, ProcInv, NotStarted, Untouched
    <3>2. proc[k].pid = proc[h].pid => k = h
      BY <1>3, <3>1 DEF SInv, OnePerPid
    <3> QED
      BY <1>1, <2>1, <2>4, <3>2 DEF Publish
  <2> QED
    BY <2>1, <2>2, <2>3, <2>4
       DEF Next, vars, Start, StartLogFails, Environment, LeaderExits,
           MembersAppear, MembersExit, Watcher, WatcherReaps, WatcherSeesGone,
           Judge, LogExit, LogExitFails, Deliver, TimerFires, StopCall, Mark,
           StopSignals, StopSeesGone, GraceExpires, ForceExpires, StopRaises,
           StopReaps, StopReturns, RequestStop, BeginStop, StopAllBegins, StopAllReturns,
           LoopCloses, StopAllCalls
<1> QED
  BY <1>1, <1>2, <1>3 DEF Ages

\* Who changes what StopInv reads: a spawn resets it, a judgement and the
\* signals of a stop call touch it as StopInv allows, nobody takes a claim back.
Claims(g) ==
  \/ NewlySpawned(g)
  \/ /\ proc[g].stopRequested => proc'[g].stopRequested
     /\ proc[g].signalled => proc'[g].signalled
     /\ \/ proc'[g].verdict = proc[g].verdict
        \/ Judge(g) /\ proc'[g].verdict = FinalStatus(g)
     /\ \/ proc'[g].signalled = proc[g].signalled
        \/ \E c \in Callers : Marked(c) /\ g \in Hit(c) /\ proc'[g].verdict = proc[g].verdict

LEMMA NextClaims ==
  ASSUME IInv, [Next]_vars, NEW g \in Handles
  PROVE  Claims(g)
<1>0. proc \in [Handles -> Proc]
  BY DEF IInv, TypeOK
<1> USE DEF Claims, Proc
<1>1. ASSUME proc'[g] = proc[g] PROVE Claims(g)
  BY <1>1
<1>2. ASSUME NEW h \in Handles, NEW p \in Pids, NEW w \in {"off", "wait"},
             Spawn(h, p, w)
      PROVE  Claims(g)
  BY <1>0, <1>1, <1>2 DEF Spawn, NewlySpawned
<1>3. ASSUME NEW h \in Handles, Environment(h) PROVE Claims(g)
  <2>1. CASE LeaderExits(h)
    BY <1>0, <2>1 DEF LeaderExits
  <2>2. CASE MembersAppear(h)
    BY <1>0, <2>2 DEF MembersAppear
  <2>3. CASE MembersExit(h)
    BY <1>0, <2>3 DEF MembersExit
  <2> QED
    BY <1>3, <2>1, <2>2, <2>3 DEF Environment
<1>4. ASSUME NEW h \in Handles, Watcher(h) PROVE Claims(g)
  <2>1. CASE WatcherReaps(h)
    BY <1>0, <2>1 DEF WatcherReaps
  <2>2. CASE WatcherSeesGone(h)
    BY <1>0, <2>2 DEF WatcherSeesGone
  <2>3. CASE Judge(h)
    <3>1. CASE g = h
      <4>1. /\ proc'[g].verdict = FinalStatus(g)
            /\ proc'[g].stopRequested = proc[g].stopRequested
            /\ proc'[g].signalled = proc[g].signalled
        BY <1>0, <2>3, <3>1 DEF Judge
      <4> QED
        BY <2>3, <3>1, <4>1
    <3>2. CASE g # h
      BY <1>0, <1>1, <2>3, <3>2 DEF Judge
    <3> QED
      BY <3>1, <3>2
  <2>4. CASE Publish(h)
    BY <1>0, <2>4 DEF Publish
  <2>5. CASE LogExit(h)
    BY <1>0, <2>5 DEF LogExit
  <2>6. CASE LogExitFails(h)
    BY <1>0, <2>6 DEF LogExitFails
  <2> QED
    BY <1>4, <2>1, <2>2, <2>3, <2>4, <2>5, <2>6 DEF Watcher
<1>5. ASSUME NEW h \in Handles, Deliver(h) PROVE Claims(g)
  BY <1>0, <1>5 DEF Deliver
<1>7. ASSUME NEW h \in Handles, TimerFires(h) PROVE Claims(g)
  BY <1>1, <1>7 DEF TimerFires, BeginStop
<1>8. ASSUME NEW c \in Callers, StopCall(c) PROVE Claims(g)
  <2>1. Waiting(c) => call[c].target \in Handles
    BY DEF IInv, CallInv, Waiting
  <2>2. CASE StopSignals(c)
    <3>1. Marked(c)
      BY <2>2 DEF StopSignals, Marked
    <3>2. proc'[g] = IF g \in Hit(c) THEN [proc[g] EXCEPT !.signalled = TRUE]
                     ELSE proc[g]
      BY <2>2 DEF StopSignals
    <3> QED
      BY <1>0, <3>1, <3>2
  <2>3. CASE StopSeesGone(c)
    BY <1>0, <2>1, <2>3 DEF StopSeesGone, Waiting
  <2>4. CASE GraceExpires(c)
    <3>1. Marked(c)
      BY <2>4 DEF GraceExpires, Marked
    <3>2. proc'[g] = IF g \in Hit(c) THEN Killed(g) ELSE proc[g]
      BY <2>4 DEF GraceExpires
    <3> QED
      BY <1>0, <3>1, <3>2 DEF Killed
  <2>5. CASE StopReaps(c)
    BY <1>0, <2>1, <2>5 DEF StopReaps, Waiting
  <2>6. CASE ForceExpires(c) \/ StopReturns(c) \/ StopRaises(c)
    BY <1>1, <2>6 DEF ForceExpires, StopReturns, StopRaises
  <2>7. CASE Mark(c)
    BY <1>0, <2>1, <2>7 DEF Mark, Waiting
  <2> QED
    BY <1>8, <2>2, <2>3, <2>4, <2>5, <2>6, <2>7 DEF StopCall
<1>9. ASSUME NEW c \in Requests, NEW p \in Pids, RequestStop(c, p) PROVE Claims(g)
  BY <1>1, <1>9 DEF RequestStop, BeginStop
<1>10. CASE StopAllBegins \/ StopAllReturns \/ LoopCloses
  BY <1>1, <1>10 DEF StopAllBegins, StopAllReturns, LoopCloses
<1>11. ASSUME NEW p \in Pids, StopAllCalls(p) PROVE Claims(g)
  BY <1>1, <1>11 DEF StopAllCalls, BeginStop
<1> QED
  BY <1>1, <1>2, <1>3, <1>4, <1>5, <1>7, <1>8, <1>9, <1>10, <1>11
     DEF Next, vars, Start, StartLogFails

\* A call past its mark after a step was past it before, for the same handle, or
\* has just set it.
LEMMA NextMarked ==
  ASSUME IInv, [Next]_vars, NEW c \in Callers, Marked(c)'
  PROVE  call'[c].target = call[c].target /\ (Marked(c) \/ Mark(c))
<1> DEFINE Goal == call'[c].target = call[c].target /\ (Marked(c) \/ Mark(c))
<1>0. call \in [Callers -> Call] /\ call'[c].pc \notin {"idle", "sleep", "mark"}
  BY DEF IInv, TypeOK, Marked
<1> USE DEF Marked, Call, NoCall
<1>1. ASSUME call'[c] = call[c] PROVE Goal
  BY <1>0, <1>1
<1>2. ASSUME NEW h \in Handles, NEW p \in Pids, Start(h, p) \/ StartLogFails(h, p)
      PROVE  Goal
  BY <1>0, <1>2 DEF Start, StartLogFails, Callers
<1>3. ASSUME NEW h \in Handles, Environment(h) \/ Watcher(h) PROVE Goal
  BY <1>1, <1>3
     DEF Environment, LeaderExits, MembersAppear, MembersExit, Watcher,
         WatcherReaps, WatcherSeesGone, Judge, Publish, LogExit, LogExitFails
<1>4. ASSUME NEW h \in Handles, Deliver(h) PROVE Goal
  BY <1>0, <1>4 DEF Deliver
<1>5. ASSUME NEW d \in Callers, NEW p \in Pids, BeginStop(d, p) PROVE Goal
  BY <1>0, <1>5 DEF BeginStop
<1>6. ASSUME NEW h \in Handles, TimerFires(h) PROVE Goal
  BY <1>0, <1>6 DEF TimerFires, BeginStop
<1>7. ASSUME NEW d \in Callers, StopCall(d) PROVE Goal
  <2>1. CASE d = c
    BY <1>0, <1>7, <2>1
       DEF StopCall, StopSignals, StopSeesGone, GraceExpires, ForceExpires,
           StopRaises, StopReaps, StopReturns, Mark
  <2>2. CASE d # c
    BY <1>0, <1>1, <1>7, <2>2
       DEF StopCall, StopSignals, StopSeesGone, GraceExpires, ForceExpires,
           StopRaises, StopReaps, StopReturns, Mark
  <2> QED
    BY <2>1, <2>2
<1>8. ASSUME NEW d \in Requests, NEW p \in Pids, RequestStop(d, p) PROVE Goal
  BY <1>5, <1>8 DEF RequestStop, Callers
<1>9. CASE StopAllBegins \/ StopAllReturns \/ LoopCloses
  BY <1>0, <1>1, <1>9 DEF StopAllBegins, StopAllReturns, LoopCloses
<1>10. ASSUME NEW p \in Pids, StopAllCalls(p) PROVE Goal
  BY <1>1, <1>5, <1>10 DEF StopAllCalls, Callers
<1> QED
  BY <1>1, <1>2, <1>3, <1>4, <1>6, <1>7, <1>8, <1>9, <1>10 DEF Next, vars

\* A group that still exists has no verdict and is published as running.
LEMMA LiveIsRunning ==
  ASSUME IInv, NEW g \in Handles, Started(g), ~GroupGone(g)
  PROVE  proc[g].verdict = "none" /\ proc[g].status = "running"
BY DEF IInv, TypeOK, Proc, ProcInv

LEMMA NextStopInv ==
  ASSUME ~PidsRecycled, SInv, [Next]_vars PROVE StopInv'
<1>1. IInv /\ OnePerPid /\ StopInv /\ \A h \in Handles : Claims(h) /\ Ages(h)
  BY NextClaims, NextAges DEF SInv
<1>2. ASSUME NEW g \in Handles, proc'[g].signalled
      PROVE  proc'[g].stopRequested /\ proc'[g].verdict \in {"none", "killed"}
  <2>1. CASE NewlySpawned(g)
    <3>1. PICK p \in Pids, w \in {"off", "wait"} : Spawn(g, p, w)
      BY <2>1 DEF NewlySpawned
    <3>2. proc'[g] = Untouched("alive", p, "running", w)
      BY <1>1, <3>1 DEF Spawn, IInv, TypeOK
    <3> QED
      BY <1>2, <3>2 DEF Untouched
  <2>2. CASE proc'[g].signalled = proc[g].signalled /\ ~NewlySpawned(g)
    <3>1. /\ proc[g].stopRequested /\ proc'[g].stopRequested
          /\ proc[g].verdict \in {"none", "killed"}
      BY <1>1, <1>2, <2>2 DEF StopInv, Claims
    <3> QED
      BY <1>1, <2>2, <3>1 DEF Claims, FinalStatus
  <2>3. ASSUME NEW c \in Callers, Marked(c), g \in Hit(c),
               proc'[g].verdict = proc[g].verdict, ~NewlySpawned(g)
        PROVE  proc'[g].stopRequested /\ proc'[g].verdict \in {"none", "killed"}
    <3>1. call[c].target \in Handles /\ Started(call[c].target)
      BY <1>1, <2>3 DEF IInv, CallInv, Marked
    <3>2. /\ Started(g) /\ ~GroupGone(g)
          /\ proc[g].pid = proc[call[c].target].pid
      BY <2>3 DEF Hit, GroupOf
    <3>3. g = call[c].target
      BY <1>1, <3>1, <3>2 DEF OnePerPid
    <3>4. proc[g].stopRequested
      BY <1>1, <2>3, <3>3 DEF StopInv
    <3> QED
      BY <1>1, <2>3, <3>2, <3>4, LiveIsRunning DEF Claims
  <2> QED
    BY <1>1, <2>1, <2>2, <2>3 DEF Claims
<1>3. ASSUME NEW c \in Callers, Marked(c)'
      PROVE  proc'[call'[c].target].stopRequested
  <2> DEFINE t == call[c].target
  <2>1. call'[c].target = t /\ (Marked(c) \/ Mark(c))
    BY <1>1, <1>3, NextMarked
  <2>2. t \in Handles /\ Started(t)
    BY <1>1, <2>1 DEF IInv, CallInv, Marked, Mark
  <2>3. CASE Marked(c)
    <3>1. proc[t].stopRequested
      BY <1>1, <2>3 DEF StopInv
    <3>2. ~NewlySpawned(t)
      BY <2>2 DEF NewlySpawned, Spawn
    <3> QED
      BY <1>1, <2>1, <2>2, <3>1, <3>2 DEF Claims
  <2>4. CASE Mark(c)
    BY <1>1, <2>1, <2>2, <2>4 DEF Mark, IInv, TypeOK, Proc
  <2> QED
    BY <2>1, <2>3, <2>4
<1> QED
  BY <1>2, <1>3 DEF StopInv

\* Only handles have timeout tasks.
LEMMA NextNoSleep ==
  ASSUME IInv, [Next]_vars, NEW p \in Pids, call[p].pc # "sleep"
  PROVE  call'[p].pc # "sleep"
<1>0. /\ call \in [Callers -> Call] /\ p \in Callers /\ p \notin Handles
      /\ call[p].pc # "sleep"
  BY ConstantsAssumption DEF IInv, TypeOK, Callers
<1> USE DEF NoCall, Call
<1>1. ASSUME NEW h \in Handles, NEW q \in Pids, Start(h, q) \/ StartLogFails(h, q)
      PROVE  call'[p].pc # "sleep"
  BY <1>0, <1>1 DEF Start, StartLogFails
<1>2. ASSUME NEW h \in Handles, Environment(h) \/ Watcher(h) \/ Deliver(h)
      PROVE  call'[p].pc # "sleep"
  BY <1>0, <1>2
     DEF Environment, LeaderExits, MembersAppear, MembersExit, Watcher,
         WatcherReaps, WatcherSeesGone, Judge, Publish, LogExit, LogExitFails, Deliver
<1>3. ASSUME NEW d \in Callers, NEW q \in Pids, BeginStop(d, q)
      PROVE  call'[p].pc # "sleep"
  BY <1>0, <1>3 DEF BeginStop
<1>4. ASSUME NEW h \in Handles, TimerFires(h) PROVE call'[p].pc # "sleep"
  <2>1. h \in Callers /\ proc[h].pid \in Pids
    BY <1>4 DEF Callers, IInv, TimersStarted, TimerFires
  <2> QED
    BY <1>0, <1>3, <1>4, <2>1 DEF TimerFires
<1>5. ASSUME NEW d \in Callers, StopCall(d) PROVE call'[p].pc # "sleep"
  BY <1>0, <1>5
     DEF StopCall, Mark, AfterMark, StopSignals, StopSeesGone, GraceExpires,
         ForceExpires, StopRaises, StopReaps, StopReturns
<1>6. ASSUME NEW d \in Requests, NEW q \in Pids, RequestStop(d, q)
      PROVE  call'[p].pc # "sleep"
  BY <1>3, <1>6 DEF RequestStop, Callers
<1>7. CASE StopAllBegins \/ StopAllReturns \/ LoopCloses
  BY <1>0, <1>7 DEF StopAllBegins, StopAllReturns, LoopCloses
<1>8. ASSUME NEW q \in Pids, StopAllCalls(q) PROVE call'[p].pc # "sleep"
  BY <1>0, <1>3, <1>8 DEF StopAllCalls, Callers
<1> QED
  BY <1>0, <1>1, <1>2, <1>4, <1>5, <1>6, <1>7, <1>8 DEF Next, vars

\* The gather's call for the pid of a live child goes on until it is gone, or ends
\* the shutdown.
LEMMA GatherCallStays ==
  ASSUME SInv, [Next]_vars, phase = "stopping",
         NEW g \in Handles, NEW p \in Pids, ~GroupGone(g),
         Waiting(p), call[p].target = g
  PROVE  \/ Waiting(p)' /\ call'[p].target = g
         \/ StopAllCalls(p) /\ IsRunning(p)
         \/ phase' = "aborted"
<1>0. /\ call \in [Callers -> Call] /\ p \in Callers
      /\ p \notin Handles /\ p \notin Requests
      /\ call[p].pc \notin {"idle", "sleep"} /\ call[p].target = g
  BY ConstantsAssumption DEF SInv, IInv, TypeOK, Callers, Waiting
<1> USE DEF Waiting, NoCall, Call
<1> DEFINE Stays == Waiting(p)' /\ call'[p].target = g
<1>1. ASSUME NEW h \in Handles, Environment(h) \/ Watcher(h) \/ Deliver(h) PROVE Stays
  BY <1>0, <1>1
     DEF Environment, LeaderExits, MembersAppear, MembersExit, Watcher,
         WatcherReaps, WatcherSeesGone, Judge, Publish, LogExit, LogExitFails, Deliver
<1>2. ASSUME NEW h \in Handles, TimerFires(h) PROVE Stays
  BY <1>0, <1>2 DEF TimerFires, BeginStop
<1>3. ASSUME NEW d \in Callers, StopCall(d) PROVE Stays \/ phase' = "aborted"
  <2>1. ~StopReturns(p)
    BY <1>0 DEF SInv, IInv, CallInv, Settled, GroupGone, StopReturns
  <2>2. CASE StopRaises(d)
    BY <1>0, <2>2 DEF StopRaises
  <2>3. CASE ~StopRaises(d)
    BY <1>0, <1>3, <2>1, <2>3
       DEF StopCall, Mark, AfterMark, StopSignals, StopSeesGone, GraceExpires,
           ForceExpires, StopReaps, StopReturns
  <2> QED
    BY <2>2, <2>3
<1>4. ASSUME NEW q \in Pids, StopAllCalls(q), q # p PROVE Stays
  BY <1>0, <1>4 DEF StopAllCalls, BeginStop
<1>5. CASE StopAllCalls(p) /\ ~IsRunning(p)
  BY <1>0, <1>5 DEF StopAllCalls
<1>6. CASE StopAllReturns
  BY <1>0, <1>6 DEF StopAllReturns
<1>7. CASE UNCHANGED vars
  BY <1>0, <1>7 DEF vars
<1> QED
  BY <1>1, <1>2, <1>3, <1>4, <1>5, <1>6, <1>7
     DEF Next, Start, StartLogFails, Spawn, RequestStop, StopAllBegins, LoopCloses

\* Only a shutdown moves the phase.
LEMMA NextPhase ==
  ASSUME [Next]_vars
  PROVE  \/ phase' = phase
         \/ phase' = "aborted" /\ Refusals # {}
         \/ StopAllBegins \/ StopAllReturns \/ LoopCloses
<1>1. ASSUME NEW c \in Callers, StopCall(c)
      PROVE  phase' = phase \/ (phase' = "aborted" /\ Refusals # {})
  BY <1>1 DEF StopCall, Refused, Mark, StopSignals, StopSeesGone, GraceExpires, ForceExpires,
              StopRaises, StopReaps, StopReturns
<1>2. ASSUME NEW h \in Handles, Environment(h) \/ Watcher(h) \/ Deliver(h) \/ TimerFires(h)
      PROVE  phase' = phase
  BY <1>2 DEF Environment, LeaderExits, MembersAppear, MembersExit, Watcher,
              WatcherReaps, WatcherSeesGone, Judge, Publish, LogExit, LogExitFails,
              Deliver, TimerFires, BeginStop
<1>3. ASSUME NEW h \in Handles, NEW p \in Pids, Start(h, p) \/ StartLogFails(h, p)
      PROVE  phase' = phase
  BY <1>3 DEF Start, StartLogFails, Spawn
<1>4. ASSUME NEW c \in Callers, NEW p \in Pids, RequestStop(c, p) \/ StopAllCalls(p)
      PROVE  phase' = phase
  BY <1>4 DEF RequestStop, StopAllCalls, BeginStop
<1> QED
  BY <1>1, <1>2, <1>3, <1>4 DEF Next, vars, Callers

LEMMA NextDrainInv ==
  ASSUME ~PidsRecycled, SInv, [Next]_vars PROVE DrainInv'
<1>1. \A p \in Pids : call'[p].pc # "sleep"
  BY NextNoSleep DEF SInv, DrainInv
<1> SUFFICES ASSUME NEW g \in Handles, Started(g)', ~GroupGone(g)',
                    phase' \in {"stopping", "stopped"}
             PROVE  /\ phase' = "stopping"
                    /\ \/ proc'[g].pid \in todo'
                       \/ Waiting(proc[g].pid)' /\ call'[proc'[g].pid].target = g
  BY <1>1 DEF DrainInv
<1>2. IInv /\ Tracked /\ DrainInv /\ Ages(g) /\ ProcInv(g)
  BY NextAges DEF SInv, IInv
<1>3. ~NewlySpawned(g)
  BY DEF NewlySpawned, Spawn
<1>4. Started(g) /\ proc'[g].pid = proc[g].pid /\ proc[g].pid \in Pids
  BY <1>2, <1>3 DEF Ages, ProcInv
<1>5. ~GroupGone(g)
  BY <1>2, <1>3 DEF Ages, GroupGone, Settled
<1> DEFINE p == proc[g].pid
<1>6. table[p] = g /\ IsRunning(p)
  BY <1>2, <1>4, <1>5, LiveIsRunning, ConstantsAssumption DEF Tracked, IsRunning
<1>7. CASE StopAllBegins
  BY <1>4, <1>6, <1>7 DEF StopAllBegins, RunningPids
<1>8. CASE ~StopAllBegins
  <2>0. phase = "stopping" /\ (phase' = "stopping" \/ StopAllReturns)
    <3>1. phase \in {"stopping", "stopped"} /\ (phase' = phase \/ StopAllReturns)
      BY <1>8, NextPhase DEF StopAllReturns, LoopCloses
    <3> QED
      BY <1>2, <1>4, <1>5, <3>1 DEF DrainInv
  <2>1. p \in todo \/ (Waiting(p) /\ call[p].target = g)
    BY <1>2, <1>4, <1>5, <2>0 DEF DrainInv
  <2>2. CASE StopAllReturns
    BY <1>4, <2>1, <2>2 DEF StopAllReturns, Waiting
  <2>3. CASE StopAllCalls(p)
    <3>1. BeginStop(p, p) /\ p \in Callers /\ call \in [Callers -> Call]
      BY <1>2, <1>4, <1>6, <2>3 DEF StopAllCalls, Callers, IInv, TypeOK
    <3>2. call'[p].pc = "mark" /\ call'[p].target = g /\ phase' = "stopping"
      BY <1>6, <2>0, <3>1 DEF BeginStop
    <3> QED
      BY <1>4, <3>2 DEF Waiting
  <2>4. CASE ~StopAllReturns /\ ~StopAllCalls(p)
    <3>1. phase' = "stopping" /\ (p \in todo => p \in todo')
      BY <1>4, <2>0, <2>4
         DEF Next, vars, Start, StartLogFails, Spawn, Environment, LeaderExits,
           MembersAppear, MembersExit, Watcher, WatcherReaps, WatcherSeesGone,
           Judge, Publish, LogExit, LogExitFails, Deliver, TimerFires, StopCall,
           Mark, StopSignals, StopSeesGone, GraceExpires, ForceExpires, StopRaises,
           StopReaps, StopReturns, RequestStop, BeginStop, StopAllBegins, LoopCloses,
           StopAllCalls
    <3>2. Waiting(p) /\ call[p].target = g => Waiting(p)' /\ call'[p].target = g
      BY <1>4, <1>5, <2>0, <2>4, <3>1, GatherCallStays
    <3> QED
      BY <1>4, <2>1, <3>1, <3>2
  <2> QED
    BY <2>0, <2>2, <2>3, <2>4
<1> QED
  BY <1>7, <1>8

LEMMA NextSInv == ASSUME ~PidsRecycled PROVE SInv /\ [Next]_vars => SInv'
BY NextIInv, NextOnePerPid, NextTracked, NextStopInv, NextDrainInv DEF SInv

\* The shutdown of the launcher leaves no process behind, however many children
\* it started and whether or not their starts were reported as failed.
THEOREM ShutdownIsClean ==
  ASSUME ~PidsRecycled PROVE Spec => []NothingSurvivesShutdown
<1>1. SInv => NothingSurvivesShutdown
  BY DEF SInv, DrainInv, NothingSurvivesShutdown
<1>2. SInv /\ [Next]_vars => SInv'
  BY NextSInv
<1> QED
  BY InitSInv, <1>1, <1>2, PTL DEF Spec

\* What is left of NoOrphans: where killpg is never refused no shutdown is cut short,
\* and the launcher closes its loop with nothing of its children alive.
THEOREM OrphansNeedARefusal ==
  ASSUME ~PidsRecycled, Refusals = {} PROVE Spec => []NoOrphans
<1> DEFINE Clean == /\ phase # "aborted"
                    /\ phase = "closed" => \A h \in Handles : Started(h) => GroupGone(h)
<1>1. Init => SInv /\ Clean
  BY InitSInv DEF Init
<1>2. SInv /\ Clean /\ [Next]_vars => Clean'
  <2> SUFFICES ASSUME SInv, Clean, [Next]_vars PROVE Clean'
    OBVIOUS
  <2>1. phase' # "aborted"
    BY NextPhase DEF Refused, StopAllBegins, StopAllReturns, LoopCloses
  <2>2. ASSUME phase' = "closed", NEW h \in Handles, Started(h)' PROVE GroupGone(h)'
    <3>1. Ages(h) /\ ~NewlySpawned(h)
      BY <2>2, NextAges DEF SInv, NewlySpawned, Spawn
    <3>2. phase \in {"stopped", "closed"}
      BY <2>1, <2>2, NextPhase DEF StopAllBegins, StopAllReturns, LoopCloses
    <3>3. Started(h)
      BY <2>2, <3>1 DEF Ages
    <3>4. GroupGone(h)
      BY <3>2, <3>3 DEF SInv, DrainInv
    <3> QED
      BY <3>1, <3>4 DEF Ages, GroupGone, Settled
  <2> QED
    BY <2>1, <2>2
<1>3. SInv /\ Clean => NoOrphans
  <2> SUFFICES ASSUME SInv, Clean, phase = "closed", NEW h \in Handles PROVE ~Alive(h)
    BY DEF NoOrphans
  <2>1. CASE Started(h)
    BY <2>1 DEF Alive, GroupGone
  <2>2. CASE ~Started(h)
    <3>1. proc[h] = NotStarted
      BY <2>2 DEF SInv, IInv, ProcInv
    <3> QED
      BY <3>1 DEF Alive, NotStarted, Untouched
  <2> QED
    BY <2>1, <2>2
<1>4. SInv /\ [Next]_vars => SInv'
  BY NextSInv
<1> QED
  BY <1>1, <1>2, <1>3, <1>4, PTL DEF Spec

\* A child that a stop call, a timeout or the shutdown signalled while it lived
\* is published as killed, though the watcher decides without waiting for them.
THEOREM StopsAreReported ==
  ASSUME ~PidsRecycled PROVE Spec => []StoppedIsNeverReportedExited
<1>1. SInv => StoppedIsNeverReportedExited
  BY DEF SInv, StopInv, StoppedIsNeverReportedExited, IInv, ProcInv
<1>2. SInv /\ [Next]_vars => SInv'
  BY NextSInv
<1> QED
  BY InitSInv, <1>1, <1>2, PTL DEF Spec

=============================================================================
