---------------------- MODULE ProcessManagerRefinement ----------------------
(***************************************************************************)
(* ProcessManager implements ProcessLifecycle: each of its steps is, for   *)
(* the callers of start_process, one step in the life of one child or      *)
(* nothing they can see.                                                   *)
(***************************************************************************)
EXTENDS ProcessManagerProofs

\* A step a caller of start_process cannot see on handle g.
Unseen(g) ==
  /\ LifeOf(g)' = LifeOf(g)
  /\ proc'[g].stopRequested <=> proc[g].stopRequested
  /\ proc'[g].status \in {"exited", "killed"} <=>
       proc[g].status \in {"exited", "killed"}
  /\ proc'[g].callback = "delivered" <=> proc[g].callback = "delivered"

\* A step that at most ends h.
MayEnd(h) ==
  /\ LifeOf(h)' = LifeOf(h) \/ (LifeOf(h) = "live" /\ LifeOf(h)' = "gone")
  /\ proc'[h].stopRequested = proc[h].stopRequested
  /\ proc'[h].status = proc[h].status
  /\ proc'[h].callback = proc[h].callback

LEMMA UnseenStutters ==
  ASSUME \A g \in Handles : Unseen(g)
  PROVE  UNCHANGED Lifecycle!lifeVars
BY DEF Unseen, Lifecycle!lifeVars

\* Only h ends, if anything does.
LEMMA OneEnds ==
  ASSUME NEW h \in Handles,
         \A g \in Handles : g # h => Unseen(g),
         MayEnd(h)
  PROVE  [Lifecycle!LifeNext]_(Lifecycle!lifeVars)
<1>1. CASE Unseen(h)
  BY <1>1, UnseenStutters
<1>2. CASE ~Unseen(h)
  <2> DEFINE life == [g \in Handles |-> LifeOf(g)]
  <2>1. life[h] = "live"
    BY <1>2 DEF Unseen, MayEnd
  <2>2. life' = [life EXCEPT ![h] = "gone"]
    BY <1>2 DEF Unseen, MayEnd
  <2>3. /\ {g \in Handles : proc[g].stopRequested}' = {g \in Handles : proc[g].stopRequested}
        /\ {g \in Handles : proc[g].status \in {"exited", "killed"}}' =
             {g \in Handles : proc[g].status \in {"exited", "killed"}}
        /\ {g \in Handles : proc[g].callback = "delivered"}' =
             {g \in Handles : proc[g].callback = "delivered"}
    BY <1>2 DEF Unseen, MayEnd
  <2>4. Lifecycle!Die(h)
    BY <2>1, <2>2, <2>3, Zenon DEF Lifecycle!Die
  <2> QED
    BY <2>4 DEF Lifecycle!LifeNext
<1> QED
  BY <1>1, <1>2

LEMMA UntouchedUnseen ==
  ASSUME NEW g \in Handles, proc'[g] = proc[g]
  PROVE  Unseen(g)
BY DEF Unseen, LifeOf, Started, GroupGone

LEMMA ProcUnchanged ==
  ASSUME UNCHANGED proc
  PROVE  UNCHANGED Lifecycle!lifeVars
BY UntouchedUnseen, UnseenStutters

LEMMA SpawnLaunches ==
  ASSUME IInv, NEW h \in Handles, NEW p \in Pids, NEW w \in {"off", "wait"},
         Spawn(h, p, w)
  PROVE  Lifecycle!LifeNext
<1> DEFINE life == [g \in Handles |-> LifeOf(g)]
<1>1. /\ proc[h] = NotStarted
      /\ proc'[h] = Untouched("alive", p, "running", w)
      /\ \A g \in Handles : g # h => Unseen(g)
  BY UntouchedUnseen DEF Spawn, IInv, TypeOK, ProcInv
<1>2. life[h] = "absent" /\ LifeOf(h)' = "live"
  BY <1>1 DEF NotStarted, Untouched, LifeOf, Started, GroupGone
<1>3. life' = [life EXCEPT ![h] = "live"]
  BY <1>1, <1>2 DEF Unseen
<1>4. /\ {g \in Handles : proc[g].stopRequested}' = {g \in Handles : proc[g].stopRequested}
      /\ {g \in Handles : proc[g].status \in {"exited", "killed"}}' =
           {g \in Handles : proc[g].status \in {"exited", "killed"}}
      /\ {g \in Handles : proc[g].callback = "delivered"}' =
           {g \in Handles : proc[g].callback = "delivered"}
  <2>1. /\ ~proc[h].stopRequested /\ ~proc'[h].stopRequested
        /\ proc[h].status = "none" /\ proc'[h].status = "running"
        /\ proc[h].callback = "none" /\ proc'[h].callback = "none"
    BY <1>1 DEF NotStarted, Untouched
  <2> QED
    BY <1>1, <2>1 DEF Unseen
<1>5. Lifecycle!Launch(h)
  BY <1>2, <1>3, <1>4, Zenon DEF Lifecycle!Launch
<1> QED
  BY <1>5 DEF Lifecycle!LifeNext

\* Marking a child is the request, even if it comes after the publication.
LEMMA MarkRequests ==
  ASSUME IInv, NEW c \in Callers, Mark(c)
  PROVE  Lifecycle!LifeNext
<1>1. PICK h \in Handles : h = call[c].target /\ Started(h)
  BY DEF Mark, IInv, CallInv
<1>2. /\ proc'[h] = [proc[h] EXCEPT !.stopRequested = TRUE]
      /\ \A g \in Handles : g # h => proc'[g] = proc[g]
      /\ proc[h] \in Proc
  BY <1>1 DEF Mark, IInv, TypeOK
<1>3. /\ LifeOf(h)' = LifeOf(h) /\ proc'[h].stopRequested
      /\ proc'[h].status = proc[h].status /\ proc'[h].callback = proc[h].callback
  BY <1>2 DEF LifeOf, Started, GroupGone, Proc
<1>4. \A g \in Handles : g # h => Unseen(g)
  BY <1>2, UntouchedUnseen
<1>5. /\ [g \in Handles |-> LifeOf(g)]' = [g \in Handles |-> LifeOf(g)]
      /\ {g \in Handles : proc[g].stopRequested}' =
           {g \in Handles : proc[g].stopRequested} \cup {h}
      /\ {g \in Handles : proc[g].status \in {"exited", "killed"}}' =
           {g \in Handles : proc[g].status \in {"exited", "killed"}}
      /\ {g \in Handles : proc[g].callback = "delivered"}' =
           {g \in Handles : proc[g].callback = "delivered"}
  BY <1>3, <1>4 DEF Unseen
<1>6. [g \in Handles |-> LifeOf(g)][h] # "absent"
  BY <1>1, <1>2 DEF LifeOf, Proc
<1>7. Lifecycle!RequestStop(h)
  BY <1>5, <1>6, Zenon DEF Lifecycle!RequestStop
<1> QED
  BY <1>7 DEF Lifecycle!LifeNext

\* A verdict is reached only after the group is gone.
LEMMA LiveHasNoVerdict ==
  ASSUME IInv, NEW h \in Handles, ~GroupGone(h)
  PROVE  proc[h].verdict = "none"
BY DEF IInv, TypeOK, ProcInv, Proc

LEMMA EnvironmentEnds ==
  ASSUME IInv, NEW h \in Handles, Environment(h)
  PROVE  [Lifecycle!LifeNext]_(Lifecycle!lifeVars)
<1>1. proc \in [Handles -> Proc]
  BY DEF IInv, TypeOK
<1>2. \A g \in Handles : g # h => Unseen(g)
  BY <1>1, UntouchedUnseen
     DEF Environment, LeaderExits, MembersAppear, MembersExit
<1>3. CASE LeaderExits(h)
  <2>1. MayEnd(h)
    BY <1>1, <1>3 DEF LeaderExits, MayEnd, LifeOf, Started, GroupGone, Proc
  <2> QED
    BY <1>2, <2>1, OneEnds
<1>4. CASE MembersAppear(h)
  <2>1. MayEnd(h)
    BY <1>1, <1>4 DEF MembersAppear, MayEnd, LifeOf, Started, GroupGone, Proc
  <2> QED
    BY <1>2, <2>1, OneEnds
<1>5. CASE MembersExit(h)
  <2>1. Started(h) /\ ~GroupGone(h)
    BY <1>5 DEF IInv, ProcInv, MembersExit, NotStarted, Untouched, GroupGone
  <2>2. proc[h].verdict = "none"
    BY <2>1, LiveHasNoVerdict
  <2>3. MayEnd(h)
    BY <1>1, <1>5, <2>1, <2>2 DEF MembersExit, MayEnd, LifeOf, Started, GroupGone, Proc
  <2> QED
    BY <1>2, <2>3, OneEnds
<1> QED
  BY <1>3, <1>4, <1>5 DEF Environment

LEMMA JudgeJudges ==
  ASSUME IInv, NEW h \in Handles, Judge(h)
  PROVE  Lifecycle!LifeNext
<1> DEFINE life == [g \in Handles |-> LifeOf(g)]
           stops == {g \in Handles : proc[g].stopRequested}
<1>1. /\ proc[h] \in Proc
      /\ proc'[h] = [proc[h] EXCEPT !.verdict = FinalStatus(h), !.watcher = "publish"]
      /\ \A g \in Handles : g # h => proc'[g] = proc[g]
  BY DEF Judge, IInv, TypeOK
<1>2. GroupGone(h) /\ proc[h].verdict = "none"
  BY DEF Judge, IInv, TypeOK, ProcInv
<1>3. /\ proc'[h].verdict = FinalStatus(h)
      /\ proc'[h].leader = proc[h].leader /\ proc'[h].members = proc[h].members
      /\ FinalStatus(h) = IF h \in stops THEN "killed" ELSE "exited"
      /\ FinalStatus(h) # "none"
  BY <1>1 DEF FinalStatus, Proc
<1>4. /\ life[h] = "gone"
      /\ LifeOf(h)' = IF h \in stops THEN "killed" ELSE "exited"
      /\ proc'[h].stopRequested = proc[h].stopRequested
      /\ proc'[h].status = proc[h].status /\ proc'[h].callback = proc[h].callback
  BY <1>1, <1>2, <1>3 DEF LifeOf, Started, GroupGone, Proc
<1>5. \A g \in Handles : g # h => Unseen(g)
  BY <1>1, UntouchedUnseen
<1>6. life' = [life EXCEPT ![h] = FinalStatus(h)]
  BY <1>4, <1>5, <1>3 DEF Unseen
<1>7. /\ life' = [life EXCEPT ![h] = IF h \in stops THEN "killed" ELSE "exited"]
      /\ stops' = stops
      /\ {g \in Handles : proc[g].status \in {"exited", "killed"}}' =
           {g \in Handles : proc[g].status \in {"exited", "killed"}}
      /\ {g \in Handles : proc[g].callback = "delivered"}' =
           {g \in Handles : proc[g].callback = "delivered"}
  BY <1>4, <1>5, <1>3, <1>6 DEF Unseen
<1>8. Lifecycle!Judge(h)
  BY <1>4, <1>7, Zenon DEF Lifecycle!Judge
<1> QED
  BY <1>8 DEF Lifecycle!LifeNext

LEMMA PublishPublishes ==
  ASSUME IInv, NEW h \in Handles, Publish(h)
  PROVE  Lifecycle!LifeNext
<1> DEFINE life == [g \in Handles |-> LifeOf(g)]
           ended == {g \in Handles : proc[g].status \in {"exited", "killed"}}
<1>1. /\ proc[h] \in Proc
      /\ proc'[h] = [proc[h] EXCEPT !.status = proc[h].verdict, !.watcher = "log"]
      /\ \A g \in Handles : g # h => proc'[g] = proc[g]
  BY DEF Publish, IInv, TypeOK
<1>2. GroupGone(h) /\ proc[h].verdict \in {"exited", "killed"}
  BY <1>1 DEF Publish, IInv, ProcInv, Proc
<1>3. /\ life[h] \in {"exited", "killed"}
      /\ LifeOf(h)' = LifeOf(h)
      /\ proc'[h].stopRequested = proc[h].stopRequested
      /\ proc'[h].status \in {"exited", "killed"}
      /\ proc'[h].callback = proc[h].callback
  BY <1>1, <1>2 DEF LifeOf, Started, GroupGone, Proc
<1>4. \A g \in Handles : g # h => Unseen(g)
  BY <1>1, UntouchedUnseen
<1>5. /\ life' = life
      /\ {g \in Handles : proc[g].stopRequested}' = {g \in Handles : proc[g].stopRequested}
      /\ ended' = ended \cup {h}
      /\ {g \in Handles : proc[g].callback = "delivered"}' =
           {g \in Handles : proc[g].callback = "delivered"}
  BY <1>3, <1>4 DEF Unseen
<1>6. Lifecycle!Publish(h)
  BY <1>3, <1>5, Zenon DEF Lifecycle!Publish, Lifecycle!Verdicts
<1> QED
  BY <1>6 DEF Lifecycle!LifeNext

LEMMA DeliverTells ==
  ASSUME IInv, NEW h \in Handles, Deliver(h)
  PROVE  Lifecycle!LifeNext
<1> DEFINE ended == {g \in Handles : proc[g].status \in {"exited", "killed"}}
           told == {g \in Handles : proc[g].callback = "delivered"}
<1>1. /\ proc[h] \in Proc
      /\ proc'[h] = [proc[h] EXCEPT !.callback = "delivered"]
      /\ \A g \in Handles : g # h => proc'[g] = proc[g]
  BY DEF Deliver, IInv, TypeOK
<1>2. h \in ended \ told
  BY DEF Deliver, IInv, ProcInv
<1>3. /\ LifeOf(h)' = LifeOf(h)
      /\ proc'[h].stopRequested = proc[h].stopRequested
      /\ proc'[h].status = proc[h].status
      /\ proc'[h].callback = "delivered"
  BY <1>1 DEF LifeOf, Started, GroupGone, Proc
<1>4. \A g \in Handles : g # h => Unseen(g)
  BY <1>1, UntouchedUnseen
<1>5. /\ [g \in Handles |-> LifeOf(g)]' = [g \in Handles |-> LifeOf(g)]
      /\ {g \in Handles : proc[g].stopRequested}' = {g \in Handles : proc[g].stopRequested}
      /\ ended' = ended
      /\ told' = told \cup {h}
  BY <1>3, <1>4 DEF Unseen
<1>6. Lifecycle!Tell(h)
  BY <1>2, <1>5, Zenon DEF Lifecycle!Tell
<1> QED
  BY <1>6 DEF Lifecycle!LifeNext

LEMMA WatcherLife ==
  ASSUME IInv, NEW h \in Handles, Watcher(h)
  PROVE  [Lifecycle!LifeNext]_(Lifecycle!lifeVars)
<1>1. proc \in [Handles -> Proc]
  BY DEF IInv, TypeOK
<1>2. \A g \in Handles : g # h => Unseen(g)
  BY <1>1, UntouchedUnseen
     DEF Watcher, WatcherReaps, WatcherSeesGone, Judge, Publish, LogExit, LogExitFails
<1>3. CASE WatcherReaps(h)
  <2>1. proc[h].leader # "reaped" => proc[h].verdict = "none"
    BY LiveHasNoVerdict DEF GroupGone
  <2>2. MayEnd(h)
    BY <1>1, <1>3, <2>1 DEF WatcherReaps, MayEnd, LifeOf, Started, GroupGone, Proc
  <2> QED
    BY <1>2, <2>2, OneEnds
<1>4. CASE WatcherSeesGone(h)
  <2>1. MayEnd(h)
    BY <1>1, <1>4 DEF WatcherSeesGone, MayEnd, LifeOf, Started, GroupGone, Proc
  <2> QED
    BY <1>2, <2>1, OneEnds
<1>5. CASE LogExit(h)
  <2>1. proc[h].callback = "none"
    BY <1>5 DEF LogExit, IInv, ProcInv
  <2>2. Unseen(h)
    BY <1>1, <1>5, <2>1
       DEF LogExit, CallbackAfterLog, Unseen, LifeOf, Started, GroupGone, Proc
  <2> QED
    BY <1>2, <2>2, UnseenStutters
<1>6. CASE LogExitFails(h)
  <2>1. Unseen(h)
    BY <1>1, <1>6 DEF LogExitFails, Unseen, LifeOf, Started, GroupGone, Proc
  <2> QED
    BY <1>2, <2>1, UnseenStutters
<1> QED
  BY <1>3, <1>4, <1>5, <1>6, JudgeJudges, PublishPublishes DEF Watcher

\* SIGKILL of a group changes only what the kernel keeps of it.
LEMMA KilledFields ==
  ASSUME NEW g \in Handles, proc[g] \in Proc
  PROVE  /\ Killed(g).leader = IF proc[g].leader = "alive" THEN "zombie"
                               ELSE proc[g].leader
         /\ Killed(g).verdict = proc[g].verdict
         /\ Killed(g).stopRequested = proc[g].stopRequested
         /\ Killed(g).status = proc[g].status
         /\ Killed(g).callback = proc[g].callback
<1> DEFINE l == IF proc[g].leader = "alive" THEN "zombie" ELSE proc[g].leader
<1> DEFINE K == [proc[g] EXCEPT !.leader = l, !.members = FALSE, !.signalled = TRUE]
<1>1. Killed(g) = K
  BY Zenon DEF Killed
<1>2. K.leader = l
  BY DEF Proc
<1>3. K.verdict = proc[g].verdict
  BY DEF Proc
<1>4. K.stopRequested = proc[g].stopRequested
  BY DEF Proc
<1>5. K.status = proc[g].status
  BY DEF Proc
<1>6. K.callback = proc[g].callback
  BY DEF Proc
<1> QED
  BY <1>1, <1>2, <1>3, <1>4, <1>5, <1>6, Zenon

\* At most one existing group has a pid, so a forced kill ends at most one.
LEMMA StopCallLife ==
  ASSUME IInv, NEW c \in Callers, StopCall(c)
  PROVE  [Lifecycle!LifeNext]_(Lifecycle!lifeVars)
<1>1. /\ proc \in [Handles -> Proc]
      /\ call[c].pc \notin {"idle", "sleep"} =>
           call[c].target \in Handles /\ Started(call[c].target)
  BY DEF IInv, TypeOK, CallInv
<1>2. CASE StopSignals(c)
  <2>1. ASSUME NEW g \in Handles PROVE Unseen(g)
    <3>1. proc'[g] = IF g \in Hit(c) THEN [proc[g] EXCEPT !.signalled = TRUE]
                     ELSE proc[g]
      BY <1>2 DEF StopSignals
    <3> QED
      BY <1>1, <3>1 DEF Unseen, LifeOf, Started, GroupGone, Proc
  <2> QED
    BY <2>1, UnseenStutters
<1>3. CASE StopSeesGone(c)
  <2>1. ASSUME NEW g \in Handles PROVE Unseen(g)
    BY <1>1, <1>3 DEF StopSeesGone, Unseen, LifeOf, Started, GroupGone, Proc
  <2> QED
    BY <2>1, UnseenStutters
<1>4. CASE GraceExpires(c)
  <2>1. \A g \in Handles :
          proc'[g] = IF g \in Hit(c) THEN Killed(g) ELSE proc[g]
    BY <1>4 DEF GraceExpires
  <2>2. CASE Hit(c) = {}
    BY <2>1, <2>2, UntouchedUnseen, UnseenStutters
  <2>3. CASE Hit(c) # {}
    <3>1. PICK h \in Handles : h \in Hit(c)
      BY <2>3 DEF Hit, GroupOf
    <3>2. \A g \in Handles : g \in Hit(c) => g = h
      BY <3>1 DEF Hit, GroupOf, IInv, OneLivePerPid
    <3>3. \A g \in Handles : g # h => Unseen(g)
      BY <2>1, <3>2, UntouchedUnseen
    <3>4. Started(h) /\ ~GroupGone(h) /\ proc[h].verdict = "none"
      BY <3>1, LiveHasNoVerdict DEF Hit, GroupOf
    <3>5. /\ proc'[h].leader \in {"zombie", "reaped"}
          /\ proc'[h].verdict = proc[h].verdict
          /\ proc'[h].stopRequested = proc[h].stopRequested
          /\ proc'[h].status = proc[h].status
          /\ proc'[h].callback = proc[h].callback
      <4>1. proc'[h] = Killed(h)
        BY <2>1, <3>1, Zenon
      <4>2. proc[h] \in Proc
        BY <1>1
      <4>3. proc[h].leader \in {"alive", "zombie", "reaped"}
        BY <3>4, <4>2 DEF Started, Proc
      <4> QED
        BY <4>1, <4>2, <4>3, KilledFields
    <3>6. MayEnd(h)
      BY <3>4, <3>5 DEF MayEnd, LifeOf, Started, GroupGone
    <3> QED
      BY <3>3, <3>6, OneEnds
  <2> QED
    BY <2>2, <2>3
<1>5. CASE StopReaps(c)
  <2>1. PICK h \in Handles : h = call[c].target
    BY <1>1, <1>5 DEF StopReaps
  <2>2. proc' = [proc EXCEPT ![h].leader = "reaped"] /\ proc[h].leader \in Reapable
    BY <1>5, <2>1 DEF StopReaps
  <2>3. \A g \in Handles : g # h => Unseen(g)
    BY <2>2, UntouchedUnseen
  <2>4. proc[h].leader # "reaped" => proc[h].verdict = "none"
    BY LiveHasNoVerdict DEF GroupGone
  <2>5. MayEnd(h)
    BY <1>1, <2>2, <2>4 DEF Reapable, MayEnd, LifeOf, Started, GroupGone, Proc
  <2> QED
    BY <2>3, <2>5, OneEnds
<1>6. CASE ForceExpires(c) \/ StopReturns(c) \/ StopRaises(c)
  BY <1>6, ProcUnchanged DEF ForceExpires, StopReturns, StopRaises
<1> QED
  BY <1>2, <1>3, <1>4, <1>5, <1>6, MarkRequests DEF StopCall

LEMMA InitLife == Init => Lifecycle!LifeInit
<1> SUFFICES ASSUME Init PROVE Lifecycle!LifeInit
  OBVIOUS
<1>1. ASSUME NEW h \in Handles
      PROVE  /\ LifeOf(h) = "absent"
             /\ h \notin {g \in Handles : proc[g].stopRequested}
             /\ h \notin {g \in Handles : proc[g].status \in {"exited", "killed"}}
             /\ h \notin {g \in Handles : proc[g].callback = "delivered"}
  <2>1. proc[h] = NotStarted
    BY DEF Init
  <2>2. /\ proc[h].leader = "none" /\ proc[h].stopRequested = FALSE
        /\ proc[h].status = "none" /\ proc[h].callback = "none"
    BY <2>1 DEF NotStarted, Untouched
  <2> QED
    BY <2>2 DEF LifeOf, Started, GroupGone
<1>2. /\ [h \in Handles |-> LifeOf(h)] = [h \in Handles |-> "absent"]
      /\ {g \in Handles : proc[g].stopRequested} = {}
      /\ {g \in Handles : proc[g].status \in {"exited", "killed"}} = {}
      /\ {g \in Handles : proc[g].callback = "delivered"} = {}
  BY <1>1
<1> QED
  BY <1>2, Zenon DEF Lifecycle!LifeInit

LEMMA NextLife ==
  IInv /\ [Next]_vars => [Lifecycle!LifeNext]_(Lifecycle!lifeVars)
<1> SUFFICES ASSUME IInv, [Next]_vars
             PROVE  [Lifecycle!LifeNext]_(Lifecycle!lifeVars)
  OBVIOUS
<1>1. CASE UNCHANGED proc
  BY <1>1, ProcUnchanged
<1>3. ASSUME NEW h \in Handles, NEW p \in Pids,
             Start(h, p) \/ StartLogFails(h, p)
      PROVE  Lifecycle!LifeNext
  BY <1>3, SpawnLaunches DEF Start, StartLogFails
<1>4. ASSUME NEW h \in Handles, TimerFires(h) PROVE UNCHANGED proc
  BY <1>4 DEF TimerFires, BeginStop
<1>5. ASSUME NEW c \in Requests, NEW p \in Pids, RequestStop(c, p)
      PROVE  UNCHANGED proc
  BY <1>5 DEF RequestStop, BeginStop
<1>6. ASSUME StopAllBegins \/ StopAllReturns \/ LoopCloses PROVE UNCHANGED proc
  BY <1>6 DEF StopAllBegins, StopAllReturns, LoopCloses
<1>7. ASSUME NEW p \in Pids, StopAllCalls(p) PROVE UNCHANGED proc
  BY <1>7 DEF StopAllCalls, BeginStop
<1> QED
  BY <1>1, <1>3, <1>4, <1>5, <1>6, <1>7, EnvironmentEnds, WatcherLife,
     DeliverTells, StopCallLife DEF Next, vars

\* The process manager keeps its promise to its callers for any number of
\* children and any reuse of pids.
THEOREM ImplementsLifecycle == Spec => LifecycleSpec
BY Invariance, InitLife, NextLife, PTL DEF Spec, LifecycleSpec, Lifecycle!Spec

-----------------------------------------------------------------------------
(* What callers may take from the promise, read back into the process      *)
(* table.                                                                  *)

\* The abstract invariant: only a child that was to be stopped is "killed", and a
\* callback follows the publication of a verdict.
Promised ==
  \A h \in Handles :
    /\ LifeOf(h) = "killed" => proc[h].stopRequested
    /\ proc[h].status \in {"exited", "killed"} => LifeOf(h) \in {"exited", "killed"}
    /\ proc[h].callback = "delivered" => proc[h].status \in {"exited", "killed"}

\* What one step of the life cycle makes of one child.
LEMMA LifeMoves ==
  ASSUME [Lifecycle!LifeNext]_(Lifecycle!lifeVars), NEW h \in Handles
  PROVE  /\ \/ LifeOf(h)' = LifeOf(h)
            \/ LifeOf(h) = "absent" /\ LifeOf(h)' = "live"
            \/ LifeOf(h) = "live" /\ LifeOf(h)' = "gone"
            \/ /\ LifeOf(h) = "gone"
               /\ LifeOf(h)' = IF proc[h].stopRequested THEN "killed" ELSE "exited"
         /\ proc[h].stopRequested => proc'[h].stopRequested
         /\ \/ proc'[h].status \in {"exited", "killed"} <=> proc[h].status \in {"exited", "killed"}
            \/ LifeOf(h) \in {"exited", "killed"} /\ LifeOf(h)' = LifeOf(h)
               /\ proc'[h].status \in {"exited", "killed"}
         /\ \/ proc'[h].callback = "delivered" <=> proc[h].callback = "delivered"
            \/ proc[h].status \in {"exited", "killed"}
               /\ proc'[h].status \in {"exited", "killed"}
<1> DEFINE life == [g \in Handles |-> LifeOf(g)]
           stop == {g \in Handles : proc[g].stopRequested}
           pub  == {g \in Handles : proc[g].status \in {"exited", "killed"}}
           done == {g \in Handles : proc[g].callback = "delivered"}
<1>0. /\ life[h] = LifeOf(h) /\ life'[h] = LifeOf(h)'
      /\ h \in stop <=> proc[h].stopRequested
      /\ h \in stop' <=> proc'[h].stopRequested
      /\ h \in pub <=> proc[h].status \in {"exited", "killed"}
      /\ h \in pub' <=> proc'[h].status \in {"exited", "killed"}
      /\ h \in done <=> proc[h].callback = "delivered"
      /\ h \in done' <=> proc'[h].callback = "delivered"
  OBVIOUS
<1>1. \/ life' = life /\ stop' = stop /\ pub' = pub /\ done' = done
      \/ \E c \in Handles :
           \/ /\ life[c] = "absent" /\ life' = [life EXCEPT ![c] = "live"]
              /\ stop' = stop /\ pub' = pub /\ done' = done
           \/ /\ stop' = stop \cup {c}
              /\ life' = life /\ pub' = pub /\ done' = done
           \/ /\ life[c] = "live" /\ life' = [life EXCEPT ![c] = "gone"]
              /\ stop' = stop /\ pub' = pub /\ done' = done
           \/ /\ life[c] = "gone"
              /\ life' = [life EXCEPT ![c] = IF c \in stop THEN "killed" ELSE "exited"]
              /\ stop' = stop /\ pub' = pub /\ done' = done
           \/ /\ life[c] \in {"exited", "killed"} /\ pub' = pub \cup {c}
              /\ life' = life /\ stop' = stop /\ done' = done
           \/ /\ c \in pub \ done /\ done' = done \cup {c}
              /\ life' = life /\ stop' = stop /\ pub' = pub
  BY Zenon DEF Lifecycle!LifeNext, Lifecycle!lifeVars, Lifecycle!Launch, Lifecycle!RequestStop,
     Lifecycle!Die, Lifecycle!Judge, Lifecycle!Publish, Lifecycle!Tell, Lifecycle!Verdicts
<1> HIDE DEF life, stop, pub, done
<1>2. life \in [Handles -> {LifeOf(g) : g \in Handles}]
  BY DEF life
<1>. QED  BY <1>0, <1>1, <1>2

\* What a caller reads and is told is true, for any number of children and any reuse
\* of pids: nobody is listed as killed whom nobody asked to stop, nobody is listed as
\* ended who has no verdict, and no exit callback runs before its verdict is listed.
THEOREM ReportsAreTrue == Spec => []Promised
<1>1. Lifecycle!LifeInit => Promised
  <2> SUFFICES ASSUME Lifecycle!LifeInit, NEW h \in Handles
               PROVE  /\ LifeOf(h) = "absent"
                      /\ proc[h].status \notin {"exited", "killed"}
                      /\ proc[h].callback # "delivered"
    BY DEF Promised
  <2>1. [g \in Handles |-> LifeOf(g)][h] = [g \in Handles |-> "absent"][h]
    BY Zenon DEF Lifecycle!LifeInit
  <2>2. /\ h \notin {g \in Handles : proc[g].status \in {"exited", "killed"}}
        /\ h \notin {g \in Handles : proc[g].callback = "delivered"}
    BY DEF Lifecycle!LifeInit
  <2>. QED  BY <2>1, <2>2
<1>2. Promised /\ [Lifecycle!LifeNext]_(Lifecycle!lifeVars) => Promised'
  <2> SUFFICES ASSUME Promised, [Lifecycle!LifeNext]_(Lifecycle!lifeVars), NEW h \in Handles
               PROVE  /\ LifeOf(h)' = "killed" => proc'[h].stopRequested
                      /\ proc'[h].status \in {"exited", "killed"} => LifeOf(h)' \in {"exited", "killed"}
                      /\ proc'[h].callback = "delivered" => proc'[h].status \in {"exited", "killed"}
    BY DEF Promised
  <2>. QED  BY LifeMoves DEF Promised
<1>. QED  BY <1>1, <1>2, ImplementsLifecycle, PTL DEF LifecycleSpec, Lifecycle!Spec

\* The verdict on a child is never revised: not by a stop that comes late, not by the
\* timer, not by a second child with its pid.
THEOREM VerdictsAreFinal ==
  Spec => [][\A h \in Handles :
               LifeOf(h) \in {"exited", "killed"} => LifeOf(h)' = LifeOf(h)]_vars
<1>1. [Lifecycle!LifeNext]_(Lifecycle!lifeVars) =>
        [\A h \in Handles :
           LifeOf(h) \in {"exited", "killed"} => LifeOf(h)' = LifeOf(h)]_vars
  BY LifeMoves
<1>. QED  BY <1>1, ImplementsLifecycle, PTL DEF LifecycleSpec, Lifecycle!Spec

=============================================================================
