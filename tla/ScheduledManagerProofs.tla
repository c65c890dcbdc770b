----------------------- MODULE ScheduledManagerProofs -----------------------
(***************************************************************************)
(* What holds of ScheduledManager for any number of jobs, however often    *)
(* the launcher crashes and whichever writes to the store raise.           *)
(***************************************************************************)
EXTENDS ScheduledManager, TLAPS

\* A job nobody may launch any more.
Begun(r) == r.status \notin {"absent", "pending"}

JobInv(j) ==
  /\ launches[j] \in {0, 1}
  /\ launches[j] = 1 \/ stage[j] # "none" => Begun(mem[j])
  /\ launches[j] = 1 => Begun(row[j]) /\ Begun(open[j])
  /\ stage[j] = "spawn" =>
       /\ launches[j] = 0
       /\ open[j] = row[j]
       /\ row[j].status = "running"
       /\ Due(row[j], now)
  /\ stage[j] # "none" => phase \in {"up", "stopping"}
  /\ child[j] # "none" => launches[j] = 1
  /\ j \in todo => phase = "recovering" /\ mem[j].status = "pending"

\* The delayed run of a job is the one its manager can cancel, belongs to a
\* pending job and wakes on time.
TaskInv(j) ==
  \A w \in Nat :
    <<j, w>> \in sleeping =>
      /\ phase # "down" /\ j \notin todo
      /\ mem[j].status = "pending"
      /\ slot[j] = w
      /\ OnTime(mem[j], w)

SInv == TypeOK /\ \A j \in Jobs : JobInv(j) /\ TaskInv(j)

-----------------------------------------------------------------------------
(* What a write does, and what it leaves alone.                            *)

\* What has come does not go, also if the clock is put back meanwhile.
LEMMA DueLater ==
  ASSUME NEW r, r.runAt \in Nat, NEW t \in Nat, NEW u \in Nat, t <= u, Due(r, t)
  PROVE  Due(r, u)
BY JobsAssumption DEF Due, Wall

\* The sleep of _delayed_run ends on time.
LEMMA WakeOnTime ==
  ASSUME TypeOK, NEW r, r.runAt \in Nat
  PROVE  Wake(r) \in Nat /\ OnTime(r, Wake(r))
<1>0. now \in Nat /\ ChangeAt \in Nat /\ Shift \in Int
  BY JobsAssumption DEF TypeOK
<1>1. CASE r.runAt > Wall(now) /\ now >= ChangeAt
  BY <1>0, <1>1 DEF Wake, OnTime, Due, Wall
<1>2. CASE r.runAt > Wall(now) /\ ~ now >= ChangeAt
  BY <1>0, <1>2 DEF Wake, OnTime, Due, Wall
<1>3. CASE ~ r.runAt > Wall(now)
  BY <1>0, <1>3 DEF Wake, OnTime, Due, Wall
<1> QED
  BY <1>1, <1>2, <1>3

Statuses == {"absent", "pending", "running"} \cup Terminal

LEMMA StatusJob ==
  ASSUME TypeOK, NEW j \in Jobs, NEW s \in Statuses
  PROVE  /\ Status(j, s) \in Job
         /\ Status(j, s).status = s
         /\ Status(j, s).runAt = mem[j].runAt
BY DEF TypeOK, Status, Statuses, Job

LEMMA PendingIsJob ==
  ASSUME NEW t \in RunTimes, NEW m \in Policies
  PROVE  /\ PendingJob(t, m) \in Job
         /\ PendingJob(t, m).status = "pending"
         /\ PendingJob(t, m).runAt = t
BY JobsAssumption DEF PendingJob, Job

\* A write gives the job its new record in memory.  In the store the job has
\* the new record or an old one, every other job one of its old ones.
LEMMA Written ==
  ASSUME TypeOK, NEW j \in Jobs, NEW r \in Job, Saved(j, r) \/ Unsaved(j, r)
  PROVE  /\ mem' \in [Jobs -> Job] /\ row' \in [Jobs -> Job] /\ open' \in [Jobs -> Job]
         /\ mem'[j] = r
         /\ row'[j] \in {r, row[j]}
         /\ open'[j] \in {r, row[j], open[j]}
         /\ Saved(j, r) => row'[j] = r /\ open'[j] = r
         /\ \A k \in Jobs \ {j} : /\ mem'[k] = mem[k]
                                  /\ row'[k] \in {row[k], open[k]}
                                  /\ open'[k] \in {row[k], open[k]}
BY DEF TypeOK, Saved, Unsaved

\* A step that changes nothing of job k but where its old records lie.
LEMMA Kept ==
  ASSUME NEW k \in Jobs, JobInv(k), TaskInv(k),
         mem'[k] = mem[k],
         row'[k] \in {row[k], open[k]}, open'[k] \in {row[k], open[k]},
         launches'[k] = launches[k], stage'[k] = stage[k], child'[k] = child[k],
         phase' = phase, now' = now, slot'[k] = slot[k],
         k \in todo' => k \in todo,
         \A w \in Nat : <<k, w>> \in sleeping' => <<k, w>> \in sleeping
  PROVE  JobInv(k)' /\ TaskInv(k)'
BY DEF JobInv, TaskInv, Begun, OnTime, Due

-----------------------------------------------------------------------------
(* The invariant, action by action.                                        *)

LEMMA NextRequest ==
  ASSUME SInv, NEW j \in Jobs, Request(j)
  PROVE  SInv'
<1> USE JobsAssumption DEF Begun
<1>0. TypeOK /\ JobInv(j) /\ TaskInv(j)
  BY DEF SInv
<1>1. ASSUME NEW t \in RunTimes, NEW m \in Policies, NEW confirm \in BOOLEAN,
             Add(j, t, m, confirm)
      PROVE  SInv'
  <2> DEFINE r == PendingJob(t, m)
  <2>1. /\ r \in Job /\ (Saved(j, r) \/ Unsaved(j, r))
        /\ r.status = "pending" /\ r.runAt = t
    BY <1>1, PendingIsJob DEF Add
  <2>2. /\ \A k \in Jobs \ {j} : /\ slot'[k] = slot[k]
                                 /\ \A w \in Nat : <<k, w>> \in sleeping' => <<k, w>> \in sleeping
        /\ slot' \in [Jobs -> Nat \cup {NoTask}] /\ sleeping' \subseteq Jobs \X Nat
        /\ Wake(r) \in Nat /\ OnTime(r, Wake(r))
    BY <1>0, <1>1, <2>1, WakeOnTime DEF Add, Schedule, TypeOK
  <2>3. TypeOK'
    BY <1>0, <1>1, <2>1, <2>2, Written DEF Add, TypeOK, children
  <2>4. \A k \in Jobs \ {j} : JobInv(k)' /\ TaskInv(k)'
    BY <1>0, <1>1, <2>1, <2>2, Written, Kept DEF Add, SInv, children
  <2>5. /\ launches[j] = 0 /\ stage[j] = "none" /\ j \notin todo /\ child[j] = "none"
        /\ \A w \in Nat : <<j, w>> \notin sleeping
    BY <1>0, <1>1 DEF Add, JobInv, TaskInv, Serving, LoopTurns
  <2>6. JobInv(j)'
    BY <1>1, <2>5 DEF Add, JobInv, children
  <2>7. TaskInv(j)'
    <3>1. mem'[j] = r /\ phase' = "up" /\ j \notin todo'
      BY <1>0, <1>1, <2>1, <2>5, Written DEF Add, Serving
    <3>2. ASSUME NEW w \in Nat, <<j, w>> \in sleeping'
          PROVE  w = Wake(r) /\ slot'[j] = Wake(r)
      BY <1>0, <1>1, <2>5, <3>2 DEF Add, Schedule, TypeOK
    <3> QED
      BY <1>1, <2>1, <2>2, <3>1, <3>2 DEF Add, TaskInv, OnTime, Due
  <2> QED
    BY <2>3, <2>4, <2>6, <2>7 DEF SInv
<1>2. ASSUME NEW t \in RunTimes, NEW m \in Policies, NEW confirm \in BOOLEAN,
             Update(j, t, m, confirm)
      PROVE  SInv'
  <2> DEFINE r == PendingJob(t, m)
  <2>1. /\ r \in Job /\ (Saved(j, r) \/ Unsaved(j, r))
        /\ r.status = "pending" /\ r.runAt = t
    BY <1>2, PendingIsJob DEF Update
  <2>2. /\ \A k \in Jobs \ {j} : /\ slot'[k] = slot[k]
                                 /\ \A w \in Nat : <<k, w>> \in sleeping' => <<k, w>> \in sleeping
        /\ slot' \in [Jobs -> Nat \cup {NoTask}] /\ sleeping' \subseteq Jobs \X Nat
        /\ Wake(r) \in Nat /\ OnTime(r, Wake(r))
    BY <1>0, <1>2, <2>1, WakeOnTime DEF Update, Schedule, Uncancelled, TypeOK
  <2>3. TypeOK'
    <3>1. confirmed' \in [Jobs -> BOOLEAN]
      BY <1>0, <1>2 DEF Update, TypeOK
    <3> QED
      BY <1>0, <1>2, <2>1, <2>2, <3>1, Written DEF Update, TypeOK, children
  <2>4. \A k \in Jobs \ {j} : JobInv(k)' /\ TaskInv(k)'
    BY <1>0, <1>2, <2>1, <2>2, Written, Kept DEF Update, SInv, children
  <2>5. /\ launches[j] = 0 /\ stage[j] = "none" /\ j \notin todo /\ child[j] = "none"
        /\ \A w \in Nat : <<j, w>> \in sleeping => slot[j] = w
    BY <1>0, <1>2 DEF Update, JobInv, TaskInv, Serving, LoopTurns
  <2>6. JobInv(j)'
    BY <1>2, <2>5 DEF Update, JobInv, children
  <2>7. TaskInv(j)'
    <3>1. mem'[j] = r /\ phase' = "up" /\ j \notin todo'
      BY <1>0, <1>2, <2>1, <2>5, Written DEF Update, Serving
    <3>2. ASSUME NEW w \in Nat, <<j, w>> \in sleeping'
          PROVE  w = Wake(r) /\ slot'[j] = Wake(r)
      BY <1>0, <1>2, <2>5, <3>2 DEF Update, Schedule, Uncancelled, TypeOK
    <3> QED
      BY <1>2, <2>1, <2>2, <3>1, <3>2 DEF Update, TaskInv, OnTime, Due
  <2> QED
    BY <2>3, <2>4, <2>6, <2>7 DEF SInv
<1>3. CASE Cancel(j)
  <2> DEFINE r == Status(j, "cancelled")
  <2>1. r \in Job /\ r.status = "cancelled" /\ (Saved(j, r) \/ Unsaved(j, r))
    BY <1>0, <1>3, StatusJob DEF Cancel, Statuses, Terminal
  <2>2. /\ \A k \in Jobs \ {j} : /\ slot'[k] = slot[k]
                                 /\ \A w \in Nat : <<k, w>> \in sleeping' => <<k, w>> \in sleeping
        /\ slot' \in [Jobs -> Nat \cup {NoTask}] /\ sleeping' \subseteq Jobs \X Nat
    BY <1>0, <1>3 DEF Cancel, Uncancelled, TypeOK
  <2>3. TypeOK'
    BY <1>0, <1>3, <2>1, <2>2, Written DEF Cancel, TypeOK, children
  <2>4. \A k \in Jobs \ {j} : JobInv(k)' /\ TaskInv(k)'
    BY <1>0, <1>3, <2>1, <2>2, Written, Kept DEF Cancel, SInv, children
  <2>5. /\ launches[j] = 0 /\ stage[j] = "none" /\ j \notin todo /\ child[j] = "none"
        /\ \A w \in Nat : <<j, w>> \in sleeping => slot[j] = w
    BY <1>0, <1>3 DEF Cancel, Cancellable, JobInv, TaskInv, Serving, LoopTurns
  <2>6. JobInv(j)'
    BY <1>3, <2>5 DEF Cancel, JobInv, children
  <2>7. TaskInv(j)'
    BY <1>3, <2>5 DEF Cancel, Uncancelled, TaskInv
  <2> QED
    BY <2>3, <2>4, <2>6, <2>7 DEF SInv
<1> QED
  BY <1>1, <1>2, <1>3 DEF Request

LEMMA NextClaim ==
  ASSUME SInv, NEW j \in Jobs, NEW w \in Nat, Claim(j, w)
  PROVE  SInv'
<1> USE DEF Begun
<1> DEFINE r == Status(j, "running")
<1>0. TypeOK /\ JobInv(j) /\ TaskInv(j)
  BY DEF SInv
<1>1. /\ r \in Job /\ (Saved(j, r) \/ Unsaved(j, r))
      /\ r.status = "running" /\ r.runAt = mem[j].runAt
  BY <1>0, StatusJob DEF Claim, Statuses
<1>2. TypeOK'
  <2>1. mem' \in [Jobs -> Job] /\ row' \in [Jobs -> Job] /\ open' \in [Jobs -> Job]
    BY <1>0, <1>1, Written
  <2>2. stage' \in [Jobs -> {"none", "spawn", "record", "fail"}]
    BY <1>0 DEF Claim, TypeOK
  <2> QED
    BY <1>0, <2>1, <2>2 DEF Claim, TypeOK, children
<1>3. \A k \in Jobs \ {j} : JobInv(k)' /\ TaskInv(k)'
  BY <1>0, <1>1, Written, Kept DEF Claim, SInv, TypeOK, children
<1>4. /\ mem[j].status = "pending" /\ slot[j] = w /\ OnTime(mem[j], w)
      /\ phase \in {"up", "stopping"} /\ j \notin todo
      /\ launches[j] = 0 /\ child[j] = "none" /\ now >= w
      /\ \A v \in Nat : <<j, v>> \in sleeping => v = w
  BY <1>0 DEF Claim, TaskInv, JobInv, LoopTurns
<1>5. JobInv(j)'
  <2>1. /\ launches'[j] = 0 /\ child'[j] = "none" /\ j \notin todo'
        /\ phase' \in {"up", "stopping"} /\ mem'[j] = r
    BY <1>0, <1>1, <1>4, Written DEF Claim, children
  <2>2. stage'[j] = "spawn" => /\ open'[j] = row'[j] /\ row'[j] = r
                               /\ Due(r, now')
    <3>1. Due(r, now')
      <4>1. now \in Nat /\ mem[j].runAt \in Nat /\ now' = now
        BY <1>0, JobsAssumption DEF TypeOK, Job, Claim
      <4>2. Due(mem[j], now)
        BY <1>4, <4>1, DueLater DEF OnTime
      <4> QED
        BY <1>1, <4>1, <4>2 DEF Due
    <3>2. CASE Saved(j, r)
      BY <1>0, <1>1, <3>1, <3>2, Written DEF Claim
    <3>3. CASE Unsaved(j, r) /\ UNCHANGED stage
      BY <1>0, <3>3 DEF Claim, LoopTurns
    <3> QED
      BY <3>2, <3>3 DEF Claim
  <2> QED
    BY <1>1, <2>1, <2>2 DEF JobInv
<1>6. TaskInv(j)'
  BY <1>4 DEF Claim, TaskInv
<1> QED
  BY <1>2, <1>3, <1>5, <1>6 DEF SInv

\* Marking a job that is not pending, in whatever step of its delayed run or by
\* its exit callback.
LEMMA MarkKeeps ==
  ASSUME SInv, NEW j \in Jobs, NEW s \in Statuses \ {"absent", "pending"},
         Saved(j, Status(j, s)) \/ Unsaved(j, Status(j, s)),
         Begun(mem[j]), stage'[j] \in {"none", "fail"},
         stage'[j] = "none" \/ phase \in {"up", "stopping"},
         child[j] # "none" => launches[j] = 1,
         \A k \in Jobs \ {j} : stage'[k] = stage[k] /\ slot'[k] = slot[k],
         UNCHANGED <<now, phase, sleeping, todo, child, launches>>
  PROVE  \A k \in Jobs : JobInv(k)' /\ TaskInv(k)'
<1> USE DEF Begun
<1> DEFINE r == Status(j, s)
<1>0. TypeOK /\ JobInv(j) /\ TaskInv(j)
  BY DEF SInv
<1>1. r \in Job /\ r.status = s
  BY <1>0, StatusJob
<1>2. \A k \in Jobs \ {j} : JobInv(k)' /\ TaskInv(k)'
  BY <1>0, <1>1, Written, Kept DEF SInv
<1>3. /\ mem'[j] = r
      /\ row'[j] \in {r, row[j]} /\ open'[j] \in {r, row[j], open[j]}
  BY <1>0, <1>1, Written
<1>4. \A w \in Nat : <<j, w>> \notin sleeping
  BY <1>0 DEF TaskInv
<1>5. j \notin todo
  BY <1>0 DEF JobInv
<1>6. JobInv(j)'
  BY <1>0, <1>1, <1>3, <1>5 DEF JobInv
<1>7. TaskInv(j)'
  BY <1>4 DEF TaskInv
<1> QED
  BY <1>2, <1>6, <1>7

LEMMA NextDelayedRun ==
  ASSUME SInv, NEW j \in Jobs, DelayedRun(j)
  PROVE  SInv'
<1> USE DEF Begun
<1>0. /\ TypeOK /\ JobInv(j) /\ TaskInv(j)
      /\ \A k \in Jobs : JobInv(k) /\ TaskInv(k)
  BY DEF SInv
<1>1. ASSUME NEW w \in Nat, Claim(j, w) PROVE SInv'
  BY <1>1, NextClaim
<1>2. CASE Spawn(j)
  <2>1. TypeOK'
    BY <1>0, <1>2 DEF Spawn, TypeOK, store
  <2>2. \A k \in Jobs : JobInv(k)' /\ TaskInv(k)'
    BY <1>0, <1>2 DEF Spawn, JobInv, TaskInv, OnTime, Due, TypeOK, store
  <2> QED
    BY <2>1, <2>2 DEF SInv
<1>3. CASE SpawnFails(j)
  <2>1. TypeOK'
    BY <1>0, <1>3 DEF SpawnFails, TypeOK, store, children
  <2>2. \A k \in Jobs : JobInv(k)' /\ TaskInv(k)'
    BY <1>0, <1>3 DEF SpawnFails, JobInv, TaskInv, OnTime, Due, TypeOK, store, children
  <2> QED
    BY <2>1, <2>2 DEF SInv
<1>4. CASE Record(j)
  <2>1. Status(j, "running") \in Job
    BY <1>0, StatusJob DEF Statuses
  <2>2. TypeOK'
    BY <1>0, <1>4, <2>1, Written DEF Record, TypeOK, children
  <2>3. /\ Begun(mem[j]) /\ stage'[j] \in {"none", "fail"}
        /\ phase \in {"up", "stopping"}
        /\ child[j] # "none" => launches[j] = 1
        /\ \A k \in Jobs \ {j} : stage'[k] = stage[k] /\ slot'[k] = slot[k]
    BY <1>0, <1>4 DEF Record, JobInv, TypeOK
  <2> QED
    BY <1>4, <2>2, <2>3, MarkKeeps DEF Record, SInv, Statuses, children
<1>5. CASE MarkFailed(j)
  <2>1. Status(j, "failed") \in Job
    BY <1>0, StatusJob DEF Statuses, Terminal
  <2>2. TypeOK'
    BY <1>0, <1>5, <2>1, Written DEF MarkFailed, Settle, TypeOK, children
  <2>3. /\ Begun(mem[j]) /\ stage'[j] = "none"
        /\ child[j] # "none" => launches[j] = 1
        /\ \A k \in Jobs \ {j} : stage'[k] = stage[k] /\ slot'[k] = slot[k]
    BY <1>0, <1>5 DEF MarkFailed, Settle, JobInv, TypeOK
  <2> QED
    BY <1>5, <2>2, <2>3, MarkKeeps DEF MarkFailed, Settle, SInv, Statuses, Terminal, children
<1> QED
  BY <1>0, <1>1, <1>2, <1>3, <1>4, <1>5 DEF DelayedRun, TypeOK

LEMMA NextDeliver ==
  ASSUME SInv, NEW j \in Jobs, Deliver(j)
  PROVE  SInv'
<1>0. TypeOK /\ JobInv(j)
  BY DEF SInv
<1>1. PICK s \in {"completed", "failed"} : s = Outcome(child[j])
  BY DEF Outcome
<1>2. s \in Statuses /\ Status(j, s) \in Job
  BY <1>0, StatusJob DEF Statuses, Terminal
<1>3. /\ Saved(j, Status(j, s)) \/ Unsaved(j, Status(j, s))
      /\ slot' = slot \/ slot' = [slot EXCEPT ![j] = NoTask]
  BY <1>1 DEF Deliver, Settle
<1>4. TypeOK'
  BY <1>0, <1>2, <1>3, Written DEF Deliver, TypeOK
<1>5. /\ Begun(mem[j]) /\ stage'[j] = "none"
      /\ child[j] # "none" => launches[j] = 1
      /\ \A k \in Jobs \ {j} : stage'[k] = stage[k] /\ slot'[k] = slot[k]
  BY <1>0, <1>3 DEF Deliver, LoopTurns, Ends, JobInv, TypeOK
<1> QED
  BY <1>1, <1>2, <1>3, <1>4, <1>5, MarkKeeps DEF Deliver, SInv

LEMMA NextHalt == ASSUME SInv, Halt PROVE SInv'
<1>1. TypeOK'
  BY DEF SInv, Halt, TypeOK
<1>2. \A j \in Jobs : JobInv(j)' /\ TaskInv(j)'
  <2> SUFFICES ASSUME NEW j \in Jobs PROVE JobInv(j)' /\ TaskInv(j)'
    OBVIOUS
  <2>1. /\ stage'[j] = "none" /\ todo' = {} /\ sleeping' = {}
        /\ open'[j] = row'[j] /\ row'[j] = row[j] /\ mem'[j] = mem[j]
        /\ launches'[j] = launches[j]
        /\ child'[j] # "none" => child[j] # "none"
    BY DEF Halt
  <2> QED
    BY <2>1 DEF SInv, JobInv, TaskInv, Begun
<1> QED
  BY <1>1, <1>2 DEF SInv

LEMMA NextRestart == ASSUME SInv, Restart PROVE SInv'
<1> USE DEF Begun
<1>0. TypeOK /\ \A j \in Jobs : JobInv(j) /\ TaskInv(j)
  BY DEF SInv
<1>1. CASE Boot
  <2>1. \A j \in Jobs : /\ Stale(row[j]) \in Job
                        /\ Begun(row[j]) => Begun(Stale(row[j]))
    BY <1>0 DEF Stale, TypeOK, Job, Terminal
  <2>2. TypeOK'
    BY <1>0, <1>1, <2>1 DEF Boot, Pending, TypeOK, tasks, children
  <2>3. \A j \in Jobs : JobInv(j)' /\ TaskInv(j)'
    <3> SUFFICES ASSUME NEW j \in Jobs PROVE JobInv(j)' /\ TaskInv(j)'
      OBVIOUS
    <3>1. /\ stage[j] = "none" /\ \A w \in Nat : <<j, w>> \notin sleeping
      BY <1>0, <1>1 DEF Boot, JobInv, TaskInv
    <3>2. /\ row'[j] = Stale(row[j]) /\ open'[j] = row'[j] /\ mem'[j] = row'[j]
          /\ j \in todo' => mem'[j].status = "pending"
      BY <1>1 DEF Boot, Pending
    <3> QED
      BY <1>0, <1>1, <2>1, <3>1, <3>2 DEF Boot, JobInv, TaskInv, tasks, children
  <2> QED
    BY <2>2, <2>3 DEF SInv
<1>2. ASSUME NEW j \in Jobs, Recover(j) PROVE SInv'
  <2>1. /\ phase = "recovering" /\ mem[j].status = "pending"
        /\ stage[j] = "none" /\ launches[j] = 0 /\ child[j] = "none"
        /\ \A w \in Nat : <<j, w>> \notin sleeping
        /\ mem[j] \in Job /\ mem[j].runAt \in Nat
    BY <1>0, <1>2 DEF Recover, JobInv, TaskInv, TypeOK, Job
  <2>2. CASE Schedule(j, mem[j], sleeping) /\ UNCHANGED <<mem, store>>
    <3>1. Wake(mem[j]) \in Nat /\ OnTime(mem[j], Wake(mem[j]))
      BY <1>0, <2>1, WakeOnTime
    <3>2. TypeOK'
      BY <1>0, <1>2, <2>2, <3>1 DEF Recover, Schedule, TypeOK, store, children
    <3>3. \A k \in Jobs \ {j} : JobInv(k)' /\ TaskInv(k)'
      BY <1>0, <1>2, <2>2, Kept DEF Recover, Schedule, TypeOK, store, children
    <3>4. JobInv(j)' /\ TaskInv(j)'
      BY <1>0, <1>2, <2>1, <2>2, <3>1
         DEF Recover, Schedule, JobInv, TaskInv, OnTime, Due, TypeOK, store, children
    <3> QED
      BY <3>2, <3>3, <3>4 DEF SInv
  <2>3. ASSUME NEW s \in {"missed", "failed"}, Saved(j, Status(j, s)),
               slot' = [slot EXCEPT ![j] = NoTask], UNCHANGED sleeping
        PROVE  SInv'
    <3>1. Status(j, s) \in Job /\ Status(j, s).status = s
      BY <1>0, StatusJob DEF Statuses, Terminal
    <3>2. TypeOK'
      BY <1>0, <1>2, <2>3, <3>1, Written DEF Recover, TypeOK, children
    <3>3. \A k \in Jobs \ {j} : JobInv(k)' /\ TaskInv(k)'
      BY <1>0, <1>2, <2>3, <3>1, Written, Kept DEF Recover, TypeOK, children
    <3>4. mem'[j] = Status(j, s) /\ j \notin todo'
      BY <1>0, <1>2, <2>3, <3>1, Written DEF Recover
    <3>5. JobInv(j)' /\ TaskInv(j)'
      BY <1>2, <2>1, <2>3, <3>1, <3>4 DEF Recover, JobInv, TaskInv, children
    <3> QED
      BY <3>2, <3>3, <3>5 DEF SInv
  <2> QED
    BY <1>2, <2>2, <2>3 DEF Recover
<1>3. CASE Serve
  BY <1>0, <1>3 DEF Serve, SInv, TypeOK, JobInv, TaskInv, OnTime, Due, store, tasks, children
<1> QED
  BY <1>1, <1>2, <1>3 DEF Restart

LEMMA NextTick == ASSUME SInv, Tick PROVE SInv'
<1>1. /\ now \in Nat /\ now' \in Nat /\ now' = now + 1 /\ now' \in 0..MaxTime
      /\ UNCHANGED <<phase, mem, row, open, sleeping, slot, stage, todo, child,
                     told, launches, confirmed>>
  BY JobsAssumption DEF SInv, TypeOK, Tick, store, tasks, children
<1>2. TypeOK'
  BY <1>1 DEF SInv, TypeOK
<1>3. ASSUME NEW j \in Jobs PROVE JobInv(j)' /\ TaskInv(j)'
  <2>1. JobInv(j) /\ TaskInv(j) /\ row[j].runAt \in Nat
    BY DEF SInv, TypeOK, Job
  <2>2. Due(row[j], now) => Due(row[j], now')
    BY <1>1, <2>1, DueLater
  <2>3. JobInv(j)'
    BY <1>1, <2>1, <2>2 DEF JobInv, Begun, Due
  <2>4. ASSUME NEW w \in Nat, OnTime(mem[j], w) PROVE OnTime(mem[j], w)'
    BY <1>1, <2>4 DEF OnTime, Due
  <2>5. TaskInv(j)'
    BY <1>1, <2>1, <2>4 DEF TaskInv
  <2> QED
    BY <2>3, <2>5
<1> QED
  BY <1>2, <1>3 DEF SInv

LEMMA NextSInv == SInv /\ [Next]_vars => SInv'
<1> SUFFICES ASSUME SInv, [Next]_vars PROVE SInv'
  OBVIOUS
<1> USE DEF SInv, TypeOK, JobInv, TaskInv, OnTime, Due, store, tasks, children
<1>1. ASSUME NEW j \in Jobs, Request(j) PROVE SInv'
  BY <1>1, NextRequest
<1>2. ASSUME NEW j \in Jobs, DelayedRun(j) PROVE SInv'
  BY <1>2, NextDelayedRun
<1>3. ASSUME NEW j \in Jobs, Deliver(j) PROVE SInv'
  BY <1>3, NextDeliver
<1>4. ASSUME NEW j \in Jobs, NEW e \in Ends, ChildEnds(j, e) PROVE SInv'
  BY <1>4 DEF ChildEnds
<1>5. CASE Crash \/ Exit
  BY <1>5, NextHalt DEF Crash, Exit
<1>6. CASE Shutdown
  BY <1>6 DEF Shutdown, Serving, LoopTurns
<1>7. CASE Restart
  BY <1>7, NextRestart
<1>8. CASE OthersWrite
  BY <1>8 DEF OthersWrite, LoopTurns
<1>9. CASE Tick
  BY <1>9, NextTick
<1>10. CASE UNCHANGED vars
  BY <1>10 DEF vars
<1> QED
  BY <1>1, <1>2, <1>3, <1>4, <1>5, <1>6, <1>7, <1>8, <1>9, <1>10 DEF Next

LEMMA InitSInv == Init => SInv
<1> SUFFICES ASSUME Init PROVE SInv
  OBVIOUS
<1>1. NoJob \in Job
  BY JobsAssumption DEF NoJob, Job, MisfirePolicy
<1>2. TypeOK
  BY <1>1, JobsAssumption DEF Init, TypeOK
<1>3. ASSUME NEW j \in Jobs PROVE JobInv(j) /\ TaskInv(j)
  <2>1. /\ launches[j] = 0 /\ stage[j] = "none" /\ child[j] = "none"
        /\ todo = {} /\ sleeping = {}
    BY DEF Init
  <2> QED
    BY <2>1 DEF JobInv, TaskInv
<1> QED
  BY <1>2, <1>3 DEF SInv

-----------------------------------------------------------------------------
(* What jobs come to, and what a store that works adds.                    *)

\* Nobody records, or may still commit, a success that did not happen.
Done(j) ==
  \A r \in {mem[j], row[j], open[j]} :
    r.status = "completed" => child[j] = "exited0" /\ j \in told

\* If no write raises, memory and rows agree, a job with a child to be told of
\* is running, and a pending job has its task.
Kempt(j) ==
  /\ row[j] = mem[j] /\ open[j] = mem[j]
  /\ stage[j] # "none" => mem[j].status = "running"
  /\ stage[j] = "fail" => child[j] \in {"none", "lost"}
  /\ child[j] \in {"live"} \cup Ends /\ j \notin told =>
       mem[j].status = "running" /\ phase \in {"up", "stopping"}
  /\ phase \in {"recovering", "up"} /\ mem[j].status = "pending" /\ j \notin todo =>
       <<j, slot[j]>> \in sleeping

Rest(j) == Done(j) /\ (~StoreMayFail => Kempt(j))

RInv == SInv /\ \A j \in Jobs : Rest(j)

LEMMA RestKept ==
  ASSUME NEW k \in Jobs, Rest(k),
         mem'[k] = mem[k],
         row'[k] \in {row[k], open[k]}, open'[k] \in {row[k], open[k]},
         stage'[k] = stage[k], child'[k] = child[k], k \in told' <=> k \in told,
         phase' = phase, slot'[k] = slot[k],
         k \in todo' <=> k \in todo,
         <<k, slot[k]>> \in sleeping => <<k, slot[k]>> \in sleeping'
  PROVE  Rest(k)'
BY DEF Rest, Done, Kempt

\* A write of job j that records no success, or one that happened.
LEMMA DoneKept ==
  ASSUME TypeOK, NEW j \in Jobs, Done(j), NEW r \in Job, Saved(j, r) \/ Unsaved(j, r),
         r.status = "completed" => child[j] = "exited0" /\ j \in told',
         child'[j] = child[j], j \in told => j \in told'
  PROVE  Done(j)'
<1>1. /\ mem'[j] = r /\ row'[j] \in {r, row[j]} /\ open'[j] \in {r, row[j], open[j]}
  BY Written
<1>. QED  BY <1>1 DEF Done

\* A write that does not raise.
LEMMA Wrote ==
  ASSUME TypeOK, ~StoreMayFail, NEW j \in Jobs, NEW r \in Job, Saved(j, r) \/ Unsaved(j, r)
  PROVE  Saved(j, r) /\ mem'[j] = r /\ row'[j] = r /\ open'[j] = r
<1>1. Saved(j, r)
  BY DEF Unsaved
<1>. QED  BY <1>1, Written

\* A write of job j leaves the others alone.
LEMMA OthersKept ==
  ASSUME RInv, NEW j \in Jobs, NEW r \in Job, Saved(j, r) \/ Unsaved(j, r),
         NEW k \in Jobs \ {j},
         stage'[k] = stage[k], slot'[k] = slot[k], k \in told' <=> k \in told,
         k \in todo' <=> k \in todo,
         <<k, slot[k]>> \in sleeping => <<k, slot[k]>> \in sleeping',
         UNCHANGED <<child, phase>>
  PROVE  Rest(k)'
<1>1. TypeOK /\ Rest(k)
  BY DEF RInv, SInv
<1>. QED  BY <1>1, Written, RestKept

LEMMA RequestRest ==
  ASSUME RInv, NEW j \in Jobs, Request(j)
  PROVE  \A k \in Jobs : Rest(k)'
<1>0. /\ TypeOK /\ JobInv(j) /\ TaskInv(j) /\ Rest(j)
      /\ slot \in [Jobs -> Nat \cup {NoTask}]
  BY DEF RInv, SInv, TypeOK
<1>1. ASSUME NEW t \in RunTimes, NEW m \in Policies, NEW confirm \in BOOLEAN,
             Add(j, t, m, confirm) \/ Update(j, t, m, confirm)
      PROVE  \A k \in Jobs : Rest(k)'
  <2> DEFINE r == PendingJob(t, m)
  <2>1. r \in Job /\ r.status = "pending" /\ (Saved(j, r) \/ Unsaved(j, r))
    BY <1>1, PendingIsJob DEF Add, Update
  <2>2. /\ mem[j].status \in {"absent", "pending"}
        /\ \A k \in Jobs : stage[k] = "none"
        /\ UNCHANGED <<now, phase, stage, todo, child, told>>
    BY <1>1 DEF Add, Update, Serving, LoopTurns, children
  <2>3. /\ \A k \in Jobs \ {j} : /\ slot'[k] = slot[k]
                                 /\ <<k, slot[k]>> \in sleeping => <<k, slot[k]>> \in sleeping'
        /\ ~StoreMayFail => <<j, slot'[j]>> \in sleeping'
    <3>1. CASE UNCHANGED <<sleeping, slot>> /\ StoreMayFail
      BY <3>1
    <3>2. CASE Schedule(j, r, sleeping) \/ Schedule(j, r, Uncancelled(j))
      BY <1>0, <3>2 DEF Schedule, Uncancelled
    <3>3. CASE sleeping' = Uncancelled(j) /\ slot' = [slot EXCEPT ![j] = NoTask] /\ StoreMayFail
      BY <1>0, <3>3 DEF Uncancelled
    <3>. QED  BY <1>1, <3>1, <3>2, <3>3 DEF Add, Update, Unsaved
  <2>4. \A k \in Jobs \ {j} : Rest(k)'
    BY <2>1, <2>2, <2>3, OthersKept
  <2>5. Done(j)'
    BY <1>0, <2>1, <2>2, DoneKept DEF Rest
  <2>6. ASSUME ~StoreMayFail
        PROVE  Kempt(j)'
    <3>1. mem'[j] = r /\ row'[j] = r /\ open'[j] = r
      BY <1>0, <2>1, <2>6, Wrote
    <3>2. child[j] \in {"live"} \cup Ends => j \in told
      BY <1>0, <2>2, <2>6 DEF Rest, Kempt
    <3>. QED  BY <2>1, <2>2, <2>3, <2>6, <3>1, <3>2 DEF Kempt
  <2>. QED  BY <2>4, <2>5, <2>6 DEF Rest
<1>2. CASE Cancel(j)
  <2> DEFINE r == Status(j, "cancelled")
  <2>1. r \in Job /\ r.status = "cancelled" /\ (Saved(j, r) \/ Unsaved(j, r))
    BY <1>0, <1>2, StatusJob DEF Cancel, Statuses, Terminal
  <2>2. /\ mem[j].status = "pending"
        /\ \A k \in Jobs : stage[k] = "none"
        /\ UNCHANGED <<now, phase, stage, todo, child, told>>
        /\ \A k \in Jobs \ {j} : /\ slot'[k] = slot[k]
                                 /\ <<k, slot[k]>> \in sleeping => <<k, slot[k]>> \in sleeping'
    BY <1>0, <1>2 DEF Cancel, Cancellable, Serving, LoopTurns, children, Uncancelled
  <2>3. \A k \in Jobs \ {j} : Rest(k)'
    BY <2>1, <2>2, OthersKept
  <2>4. Done(j)'
    BY <1>0, <2>1, <2>2, DoneKept DEF Rest
  <2>5. ASSUME ~StoreMayFail
        PROVE  Kempt(j)'
    <3>1. mem'[j] = r /\ row'[j] = r /\ open'[j] = r
      BY <1>0, <2>1, <2>5, Wrote
    <3>2. child[j] \in {"live"} \cup Ends => j \in told
      BY <1>0, <2>2, <2>5 DEF Rest, Kempt
    <3>. QED  BY <2>1, <2>2, <3>1, <3>2 DEF Kempt
  <2>. QED  BY <2>3, <2>4, <2>5 DEF Rest
<1>. QED  BY <1>1, <1>2 DEF Request

\* A delayed run or an exit callback marks its job.
LEMMA MarkRest ==
  ASSUME RInv, NEW j \in Jobs, NEW s \in Statuses \ {"absent", "pending"},
         Saved(j, Status(j, s)) \/ Unsaved(j, Status(j, s)),
         s = "completed" => child[j] = "exited0" /\ j \in told',
         ~StoreMayFail =>
           \/ s = "running" /\ phase \in {"up", "stopping"} /\ stage'[j] # "fail"
           \/ stage'[j] = "none" /\ (child[j] \in {"live"} \cup Ends => j \in told'),
         j \in told => j \in told',
         \A k \in Jobs \ {j} : /\ stage'[k] = stage[k] /\ slot'[k] = slot[k]
                               /\ k \in told' <=> k \in told
                               /\ k \in todo' <=> k \in todo
                               /\ \A w \in Nat : <<k, w>> \in sleeping => <<k, w>> \in sleeping',
         UNCHANGED <<phase, child>>
  PROVE  \A k \in Jobs : Rest(k)'
<1> DEFINE r == Status(j, s)
<1>0. TypeOK /\ Rest(j)
  BY DEF RInv, SInv
<1>1. r \in Job /\ r.status = s
  BY <1>0, StatusJob
<1>2. ASSUME NEW k \in Jobs \ {j}
      PROVE  Rest(k)'
  <2>1. <<k, slot[k]>> \in sleeping => <<k, slot[k]>> \in sleeping'
    BY <1>0 DEF TypeOK
  <2>. QED  BY <1>1, <2>1, OthersKept
<1>3. Done(j)'
  BY <1>0, <1>1, DoneKept DEF Rest
<1>4. ASSUME ~StoreMayFail
      PROVE  Kempt(j)'
  <2>1. mem'[j] = r /\ row'[j] = r /\ open'[j] = r
    BY <1>0, <1>1, <1>4, Wrote
  <2>. QED  BY <1>1, <1>4, <2>1 DEF Kempt
<1>. QED  BY <1>2, <1>3, <1>4 DEF Rest

LEMMA DelayedRunRest ==
  ASSUME RInv, NEW j \in Jobs, DelayedRun(j)
  PROVE  \A k \in Jobs : Rest(k)'
<1>0. /\ TypeOK /\ JobInv(j) /\ TaskInv(j) /\ Rest(j)
      /\ \A k \in Jobs : Rest(k)
      /\ stage \in [Jobs -> {"none", "spawn", "record", "fail"}]
      /\ child \in [Jobs -> {"none", "live", "lost"} \cup Ends]
      /\ slot \in [Jobs -> Nat \cup {NoTask}]
  BY DEF RInv, SInv, TypeOK
<1>1. ASSUME NEW w \in Nat, Claim(j, w)
      PROVE  \A k \in Jobs : Rest(k)'
  <2>1. /\ phase \in {"up", "stopping"}
        /\ \A k \in Jobs \ {j} : /\ stage'[k] = stage[k] /\ slot'[k] = slot[k]
                                 /\ \A v \in Nat : <<k, v>> \in sleeping => <<k, v>> \in sleeping'
        /\ UNCHANGED <<phase, todo, child, told>>
    BY <1>0, <1>1 DEF Claim, LoopTurns, children
  <2>2. /\ Saved(j, Status(j, "running")) \/ Unsaved(j, Status(j, "running"))
        /\ ~StoreMayFail => stage'[j] # "fail"
    BY <1>0, <1>1 DEF Claim, Unsaved
  <2>. QED  BY <2>1, <2>2, MarkRest DEF Statuses
<1>2. CASE Spawn(j)
  <2>1. /\ stage[j] = "spawn" /\ stage'[j] = "record" /\ child'[j] = "live" /\ j \notin told'
        /\ child[j] = "none" /\ phase \in {"up", "stopping"}
        /\ UNCHANGED <<phase, mem, row, open, sleeping, slot, todo>>
        /\ \A k \in Jobs \ {j} : /\ stage'[k] = stage[k] /\ child'[k] = child[k]
                                 /\ k \in told' <=> k \in told
    BY <1>0, <1>2 DEF Spawn, JobInv, store
  <2>2. \A k \in Jobs \ {j} : Rest(k)'
    BY <1>0, <2>1, RestKept
  <2>3. Rest(j)'
    BY <1>0, <2>1 DEF Rest, Done, Kempt
  <2>. QED  BY <2>2, <2>3
<1>3. CASE SpawnFails(j)
  <2>1. /\ stage[j] = "spawn" /\ stage'[j] = "fail" /\ child'[j] \in {"none", "lost"}
        /\ child[j] = "none"
        /\ UNCHANGED <<phase, mem, row, open, sleeping, slot, todo, told>>
        /\ \A k \in Jobs \ {j} : stage'[k] = stage[k] /\ child'[k] = child[k]
    BY <1>0, <1>3 DEF SpawnFails, JobInv, store, children
  <2>2. \A k \in Jobs \ {j} : Rest(k)'
    BY <1>0, <2>1, RestKept
  <2>3. Rest(j)'
    BY <1>0, <2>1 DEF Rest, Done, Kempt, Ends
  <2>. QED  BY <2>2, <2>3
<1>4. CASE Record(j)
  <2>1. /\ phase \in {"up", "stopping"}
        /\ \A k \in Jobs \ {j} : stage'[k] = stage[k]
        /\ UNCHANGED <<phase, slot, sleeping, todo, child, told>>
        /\ Saved(j, Status(j, "running")) \/ Unsaved(j, Status(j, "running"))
        /\ ~StoreMayFail => stage'[j] # "fail"
    BY <1>0, <1>4 DEF Record, JobInv, Unsaved, children
  <2>. QED  BY <2>1, MarkRest DEF Statuses
<1>5. CASE MarkFailed(j)
  <2>1. /\ \A k \in Jobs \ {j} : stage'[k] = stage[k] /\ slot'[k] = slot[k]
        /\ stage[j] = "fail" /\ stage'[j] = "none"
        /\ UNCHANGED <<phase, sleeping, todo, child, told>>
        /\ Saved(j, Status(j, "failed")) \/ Unsaved(j, Status(j, "failed"))
    BY <1>0, <1>5 DEF MarkFailed, Settle, children
  <2>2. ASSUME ~StoreMayFail
        PROVE  child[j] \in {"live"} \cup Ends => j \in told'
    BY <1>0, <2>1, <2>2 DEF Rest, Kempt, Ends
  <2>. QED  BY <2>1, <2>2, MarkRest DEF Statuses, Terminal
<1>. QED  BY <1>1, <1>2, <1>3, <1>4, <1>5 DEF DelayedRun

LEMMA DeliverRest ==
  ASSUME RInv, NEW j \in Jobs, Deliver(j)
  PROVE  \A k \in Jobs : Rest(k)'
<1>0. TypeOK /\ slot \in [Jobs -> Nat \cup {NoTask}]
  BY DEF RInv, SInv, TypeOK
<1>1. PICK s \in {"completed", "failed"} : s = Outcome(child[j])
  BY DEF Outcome
<1>2. /\ Saved(j, Status(j, s)) \/ Unsaved(j, Status(j, s))
      /\ \A k \in Jobs \ {j} : slot'[k] = slot[k] /\ (k \in told' <=> k \in told)
      /\ stage'[j] = "none" /\ j \in told'
      /\ s = "completed" => child[j] = "exited0"
      /\ UNCHANGED <<phase, stage, sleeping, todo, child>>
      /\ j \in told => j \in told'
  BY <1>0, <1>1 DEF Deliver, Settle, LoopTurns, Outcome
<1>. QED  BY <1>1, <1>2, MarkRest DEF Statuses, Terminal

LEMMA HaltRest == ASSUME RInv, Halt PROVE \A k \in Jobs : Rest(k)'
<1> SUFFICES ASSUME NEW k \in Jobs PROVE Rest(k)'
  OBVIOUS
<1>1. /\ phase' = "down" /\ stage'[k] = "none" /\ open'[k] = row[k]
      /\ child'[k] = IF child[k] = "none" \/ k \in told THEN child[k] ELSE "lost"
      /\ UNCHANGED <<mem, row, told>>
  BY DEF Halt
<1>. QED  BY <1>1 DEF RInv, Rest, Done, Kempt, Ends

LEMMA RestartRest == ASSUME RInv, Restart PROVE \A k \in Jobs : Rest(k)'
<1>0. /\ TypeOK /\ \A k \in Jobs : JobInv(k) /\ Rest(k)
      /\ slot \in [Jobs -> Nat \cup {NoTask}]
  BY DEF RInv, SInv, TypeOK
<1>1. CASE Boot
  <2> SUFFICES ASSUME NEW k \in Jobs PROVE Rest(k)'
    OBVIOUS
  <2>1. /\ row'[k] = Stale(row[k]) /\ open'[k] = row'[k] /\ mem'[k] = row'[k]
        /\ phase = "down" /\ phase' = "recovering"
        /\ k \in todo' <=> mem'[k].status = "pending"
        /\ UNCHANGED <<stage, child, told>>
    BY <1>1 DEF Boot, Pending, tasks, children
  <2>2. stage[k] = "none"
    BY <1>0, <2>1 DEF JobInv
  <2>3. Stale(row[k]).status = "completed" => row[k].status = "completed"
    BY <1>0 DEF Stale, TypeOK, Job
  <2>. QED  BY <1>0, <2>1, <2>2, <2>3 DEF Rest, Done, Kempt
<1>2. ASSUME NEW j \in Jobs, Recover(j)
      PROVE  \A k \in Jobs : Rest(k)'
  <2>1. /\ stage[j] = "none" /\ child[j] = "none" /\ phase = "recovering"
        /\ UNCHANGED <<phase, stage, child, told>>
        /\ \A k \in Jobs \ {j} : k \in todo' <=> k \in todo
    <3>1. JobInv(j) /\ j \in todo
      BY <1>0, <1>2 DEF Recover
    <3>2. phase = "recovering" /\ mem[j].status = "pending"
      BY <3>1 DEF JobInv
    <3>3. stage[j] = "none" /\ child[j] = "none"
      BY <3>1, <3>2 DEF JobInv, Begun
    <3>. QED  BY <1>2, <3>2, <3>3 DEF Recover, children
  <2>2. CASE Schedule(j, mem[j], sleeping) /\ UNCHANGED <<mem, store>>
    <3>1. /\ \A k \in Jobs \ {j} : slot'[k] = slot[k]
          /\ <<j, slot'[j]>> \in sleeping'
          /\ sleeping \subseteq sleeping'
      BY <1>0, <2>2 DEF Schedule
    <3>2. \A k \in Jobs \ {j} : Rest(k)'
      BY <1>0, <2>1, <2>2, <3>1, RestKept DEF store
    <3>3. Rest(j)'
      BY <1>0, <2>1, <2>2, <3>1 DEF Rest, Done, Kempt, store, Ends
    <3>. QED  BY <3>2, <3>3
  <2>3. ASSUME NEW s \in {"missed", "failed"}, Saved(j, Status(j, s)),
               slot' = [slot EXCEPT ![j] = NoTask], UNCHANGED sleeping
        PROVE  \A k \in Jobs : Rest(k)'
    <3>1. \A k \in Jobs \ {j} : slot'[k] = slot[k]
      BY <1>0, <2>3
    <3>2. stage'[j] = "none" /\ child[j] \notin {"live"} \cup Ends
      BY <2>1 DEF Ends
    <3>. QED  BY <2>1, <2>3, <3>1, <3>2, MarkRest DEF Statuses, Terminal
  <2>. QED  BY <1>2, <2>2, <2>3 DEF Recover
<1>3. CASE Serve
  BY <1>0, <1>3 DEF Serve, Rest, Done, Kempt, store, tasks, children
<1>. QED  BY <1>1, <1>2, <1>3 DEF Restart

LEMMA NextRest ==
  ASSUME RInv, [Next]_vars
  PROVE  \A k \in Jobs : Rest(k)'
<1>0. \A k \in Jobs : Rest(k)
  BY DEF RInv
<1>1. ASSUME NEW j \in Jobs, Request(j) \/ DelayedRun(j) \/ Deliver(j)
      PROVE  \A k \in Jobs : Rest(k)'
  BY <1>1, RequestRest, DelayedRunRest, DeliverRest
<1>2. ASSUME NEW j \in Jobs, NEW e \in Ends, ChildEnds(j, e)
      PROVE  \A k \in Jobs : Rest(k)'
  <2> SUFFICES ASSUME NEW k \in Jobs PROVE Rest(k)'
    OBVIOUS
  <2>1. /\ child[j] = "live" /\ \A i \in Jobs \ {j} : child'[i] = child[i]
        /\ child'[j] \in Ends
        /\ UNCHANGED <<phase, mem, row, open, sleeping, slot, stage, todo, told>>
    BY <1>2 DEF ChildEnds, store, tasks, RInv, SInv, TypeOK
  <2>. QED  BY <1>0, <2>1 DEF Rest, Done, Kempt, Ends
<1>3. CASE Crash \/ Exit
  BY <1>3, HaltRest DEF Crash, Exit
<1>4. CASE Shutdown
  BY <1>0, <1>4 DEF Shutdown, Rest, Done, Kempt, store, children
<1>5. CASE Restart
  BY <1>5, RestartRest
<1>6. CASE OthersWrite
  BY <1>0, <1>6 DEF OthersWrite, Rest, Done, Kempt, tasks, children
<1>7. CASE Tick
  BY <1>0, <1>7 DEF Tick, Rest, Done, Kempt, store, tasks, children
<1>8. CASE UNCHANGED vars
  BY <1>0, <1>8 DEF vars, Rest, Done, Kempt, store, tasks, children
<1>. QED  BY <1>1, <1>2, <1>3, <1>4, <1>5, <1>6, <1>7, <1>8 DEF Next

LEMMA InitRest == Init => \A k \in Jobs : Rest(k)
  BY DEF Init, Rest, Done, Kempt, NoJob, Ends

-----------------------------------------------------------------------------
(* Which jobs may start at one time.                                       *)

\* What a step makes of a job, unless it is a request for it.
LEMMA Moves ==
  ASSUME RInv, ~StoreMayFail, [Next]_vars, NEW k \in Jobs
  PROVE  /\ mem[k].status \in Terminal => mem'[k].status = mem[k].status
         /\ \/ Request(k)
            \/ mem'[k].status \in Active =>
                 mem[k].status \in Active /\ mem'[k].runAt = mem[k].runAt
<1>0. /\ TypeOK /\ JobInv(k) /\ TaskInv(k) /\ Kempt(k)
      /\ mem \in [Jobs -> Job]
  BY DEF RInv, SInv, TypeOK, Rest
<1>1. ASSUME NEW j \in Jobs, NEW r \in Job, Saved(j, r) \/ Unsaved(j, r), j # k
      PROVE  mem'[k] = mem[k]
  BY <1>0, <1>1, Written
<1>2. ASSUME NEW s \in Statuses, Saved(k, Status(k, s)) \/ Unsaved(k, Status(k, s))
      PROVE  mem'[k].status = s /\ mem'[k].runAt = mem[k].runAt
  BY <1>0, <1>2, StatusJob, Written
<1>3. ASSUME NEW j \in Jobs, NEW s \in Statuses,
             Saved(j, Status(j, s)) \/ Unsaved(j, Status(j, s)), j # k
      PROVE  mem'[k] = mem[k]
  BY <1>0, <1>1, <1>3, StatusJob
<1>4. mem[k].status \in Active => mem[k].status \notin Terminal
  BY DEF Active, Terminal
<1>5. ASSUME NEW j \in Jobs, Request(j)
      PROVE  /\ j = k => mem[k].status \notin Terminal
             /\ j # k => mem'[k] = mem[k]
  <2>1. ASSUME NEW t \in RunTimes, NEW m \in Policies, NEW confirm \in BOOLEAN,
               Add(j, t, m, confirm) \/ Update(j, t, m, confirm)
        PROVE  /\ j = k => mem[k].status \notin Terminal
               /\ j # k => mem'[k] = mem[k]
    <3>1. /\ PendingJob(t, m) \in Job
          /\ Saved(j, PendingJob(t, m)) \/ Unsaved(j, PendingJob(t, m))
          /\ mem[j].status \in {"absent", "pending"}
      BY <2>1, PendingIsJob DEF Add, Update
    <3>. QED  BY <1>1, <3>1 DEF Terminal
  <2>2. CASE Cancel(j)
    BY <1>3, <2>2 DEF Cancel, Cancellable, Statuses, Terminal
  <2>. QED  BY <1>5, <2>1, <2>2 DEF Request
<1>6. ASSUME NEW j \in Jobs, DelayedRun(j) \/ Deliver(j)
      PROVE  \/ mem'[k] = mem[k]
             \/ /\ mem[k].status \in Active /\ mem'[k].runAt = mem[k].runAt
  <2>1. PICK s \in Statuses : \/ UNCHANGED mem
                              \/ Saved(j, Status(j, s)) \/ Unsaved(j, Status(j, s))
    BY <1>6 DEF DelayedRun, Claim, Spawn, SpawnFails, Record, MarkFailed, Deliver,
                Settle, Outcome, Statuses, Terminal
  <2>2. CASE j # k
    BY <1>3, <2>1, <2>2
  <2>3. CASE j = k
    <3>1. ASSUME NEW w \in Nat, Claim(k, w)
          PROVE  mem[k].status = "pending"
      BY <1>0, <3>1 DEF Claim, TaskInv
    <3>2. ASSUME Spawn(k) \/ SpawnFails(k) \/ Record(k) \/ MarkFailed(k)
          PROVE  mem[k].status = "running"
      BY <1>0, <3>2 DEF Spawn, SpawnFails, Record, MarkFailed, Kempt
    <3>3. ASSUME Deliver(k)
          PROVE  mem[k].status = "running"
      BY <1>0, <3>3 DEF Deliver, Kempt
    <3>. QED  BY <1>2, <1>6, <2>1, <2>3, <3>1, <3>2, <3>3 DEF DelayedRun, Active
  <2>. QED  BY <2>2, <2>3
<1>7. CASE Restart
  <2>1. CASE Boot
    <3>1. mem'[k] = Stale(mem[k])
      BY <1>0, <2>1 DEF Boot, Kempt
    <3>2. /\ mem[k].status # "running" => mem'[k] = mem[k]
          /\ mem[k].status = "running" => mem'[k].status = "failed"
      BY <1>0, <3>1 DEF Stale, Job
    <3>. QED  BY <3>2 DEF Active, Terminal
  <2>2. ASSUME NEW j \in Jobs, Recover(j)
        PROVE  \/ mem'[k] = mem[k]
               \/ /\ mem[k].status \in Active /\ mem'[k].runAt = mem[k].runAt
    <3>1. PICK s \in Statuses : UNCHANGED mem \/ Saved(j, Status(j, s))
      BY <2>2 DEF Recover, Statuses, Terminal
    <3>2. j = k => mem[k].status = "pending"
      BY <1>0, <2>2 DEF Recover, JobInv
    <3>. QED  BY <1>2, <1>3, <3>1, <3>2 DEF Active
  <2>3. CASE Serve
    BY <2>3 DEF Serve
  <2>. QED  BY <1>4, <1>7, <2>1, <2>2, <2>3 DEF Restart
<1>8. ASSUME \/ \E j \in Jobs, e \in Ends : ChildEnds(j, e)
             \/ Crash \/ Shutdown \/ Exit \/ OthersWrite \/ Tick \/ UNCHANGED vars
      PROVE  UNCHANGED mem
  BY <1>8 DEF ChildEnds, Crash, Halt, Shutdown, Exit, OthersWrite, Tick, vars
<1>. QED  BY <1>4, <1>5, <1>6, <1>7, <1>8 DEF Next

LEMMA CollisionKept ==
  ASSUME RInv, ~StoreMayFail, NoUnconfirmedCollision, [Next]_vars
  PROVE  NoUnconfirmedCollision'
<1>0. TypeOK /\ mem \in [Jobs -> Job] /\ confirmed \in [Jobs -> BOOLEAN]
  BY DEF RInv, SInv, TypeOK
<1>1. ASSUME \A k \in Jobs : mem'[k].status \in Active =>
               mem[k].status \in Active /\ mem'[k].runAt = mem[k].runAt,
             UNCHANGED confirmed
      PROVE  NoUnconfirmedCollision'
  BY <1>1 DEF NoUnconfirmedCollision
<1>2. ASSUME NEW j \in Jobs, NEW t \in RunTimes, NEW m \in Policies, NEW confirm \in BOOLEAN,
             Add(j, t, m, confirm) \/ Update(j, t, m, confirm)
      PROVE  NoUnconfirmedCollision'
  <2> DEFINE r == PendingJob(t, m)
  <2>1. /\ r \in Job /\ (Saved(j, r) \/ Unsaved(j, r)) /\ r.runAt = t
    BY <1>2, PendingIsJob DEF Add, Update
  <2>2. /\ mem'[j].runAt = t
        /\ \A k \in Jobs \ {j} : mem'[k] = mem[k] /\ confirmed'[k] = confirmed[k]
    BY <1>0, <1>2, <2>1, Written DEF Add, Update
  <2>3. \/ confirmed'[j]
        \/ \A k \in Jobs \ {j} : ~ (mem[k].status \in Active /\ mem[k].runAt = t)
        \/ confirmed'[j] = confirmed[j] /\ mem[j].status = "pending" /\ mem[j].runAt = t
    BY <1>0, <1>2 DEF Add, Update, Conflicts
  <2>4. ASSUME NEW k \in Jobs \ {j}, mem[k].status \in Active, mem[k].runAt = t
        PROVE  confirmed'[j] \/ confirmed'[k]
    <3>1. mem[j].status = "pending" => mem[j].status \in Active
      BY DEF Active
    <3>. QED  BY <2>2, <2>3, <2>4, <3>1 DEF NoUnconfirmedCollision
  <2>5. ASSUME NEW i \in Jobs, NEW k \in Jobs, i # k,
               mem'[i].status \in Active, mem'[k].status \in Active,
               mem'[i].runAt = mem'[k].runAt
        PROVE  confirmed'[i] \/ confirmed'[k]
    BY <2>2, <2>4, <2>5 DEF NoUnconfirmedCollision
  <2>. QED  BY <2>5 DEF NoUnconfirmedCollision
<1>3. ASSUME NEW j \in Jobs, Cancel(j)
      PROVE  NoUnconfirmedCollision'
  <2> DEFINE r == Status(j, "cancelled")
  <2>1. r \in Job /\ r.status = "cancelled" /\ (Saved(j, r) \/ Unsaved(j, r))
    BY <1>0, <1>3, StatusJob DEF Cancel, Statuses, Terminal
  <2>2. mem'[j].status \notin Active /\ \A k \in Jobs \ {j} : mem'[k] = mem[k]
    BY <1>0, <2>1, Written DEF Active
  <2>3. UNCHANGED confirmed
    BY <1>3 DEF Cancel
  <2>. QED  BY <1>1, <2>2, <2>3
<1>4. ASSUME \A j \in Jobs : ~Request(j)
      PROVE  NoUnconfirmedCollision'
  <2>1. UNCHANGED confirmed
    <3>1. ASSUME NEW j \in Jobs, DelayedRun(j) \/ Deliver(j)
          PROVE  UNCHANGED confirmed
      BY <3>1 DEF DelayedRun, Claim, Spawn, SpawnFails, Record, MarkFailed, Deliver
    <3>2. ASSUME NEW j \in Jobs, NEW e \in Ends, ChildEnds(j, e)
          PROVE  UNCHANGED confirmed
      BY <3>2 DEF ChildEnds
    <3>3. ASSUME Crash \/ Shutdown \/ Exit \/ Restart \/ OthersWrite \/ Tick \/ UNCHANGED vars
          PROVE  UNCHANGED confirmed
      BY <3>3 DEF Crash, Halt, Shutdown, Exit, Restart, Boot, Recover, Serve, OthersWrite,
                  Tick, vars
    <3>. QED  BY <1>4, <3>1, <3>2, <3>3 DEF Next
  <2>. QED  BY <1>1, <1>4, <2>1, Moves
<1>. QED  BY <1>2, <1>3, <1>4 DEF Request

-----------------------------------------------------------------------------
(* The history that the database keeps.                                    *)

\* What the transaction would commit is a move the history allows.  A job the manager
\* believes pending was never claimed, whatever was rolled back; one with a task is
\* pending in its row; one whose child is starting is running in it, also for the
\* next commit; and one whose child has not been told of has not been completed.
HistInv(j) ==
  /\ open[j].status = row[j].status \/ open[j].status \in History!After(row[j].status)
  /\ open[j].status = "completed" => launches[j] > 0
  /\ mem[j].status = "pending" =>
       row[j].status \in {"absent", "pending"} /\ open[j].status \in {"absent", "pending"}
  /\ j \in todo \/ (\E w \in Nat : <<j, w>> \in sleeping) => row[j].status = "pending"
  /\ stage[j] # "none" => row[j].status = "running" /\ open[j].status = "running"
  /\ child[j] \in Ends \cup {"live"} /\ j \notin told =>
       /\ launches[j] > 0
       /\ row[j].status \in {"running", "failed"} /\ open[j].status \in {"running", "failed"}

\* What a commit makes of the row of a job.
Onward(j) ==
  row'[j].status # row[j].status =>
    /\ row'[j].status \in History!After(row[j].status)
    /\ row'[j].status = "completed" => launches[j] > 0

LEMMA Afters ==
  /\ History!After("absent") = {"pending", "cancelled"}
  /\ History!After("pending") = {"running", "cancelled", "missed", "failed"}
  /\ History!After("running") = {"completed", "failed"}
  /\ History!After("failed") = {"completed"}
  /\ \A s \in {"completed", "cancelled", "missed"} : History!After(s) = {}
BY DEF History!After

\* A step that keeps the record of job k in memory and may change where its old
\* records lie.
LEMMA HistKept ==
  ASSUME SInv, NEW k \in Jobs, HistInv(k),
         mem'[k] = mem[k],
         row'[k] \in {row[k], open[k]}, open'[k] \in {row'[k], open[k]},
         row'[k] = row[k] \/ row'[k] = open'[k],
         stage'[k] = stage[k], child'[k] = child[k], launches'[k] = launches[k],
         k \in told => k \in told',
         k \in todo' => k \in todo,
         \A w \in Nat : <<k, w>> \in sleeping' => <<k, w>> \in sleeping
  PROVE  HistInv(k)' /\ Onward(k)
<1>0. JobInv(k) /\ TaskInv(k)
  BY DEF SInv
<1>1. Onward(k)
  BY DEF HistInv, Onward
<1>2. /\ open'[k].status = row'[k].status \/ open'[k].status \in History!After(row'[k].status)
      /\ open'[k].status = "completed" => launches'[k] > 0
  <2>1. row[k].status = "completed" => open[k].status = "completed"
    BY Afters DEF HistInv
  <2>. QED  BY <2>1 DEF HistInv
<1>3. mem'[k].status = "pending" =>
        row'[k].status \in {"absent", "pending"} /\ open'[k].status \in {"absent", "pending"}
  BY DEF HistInv
<1>4. ASSUME k \in todo' \/ (\E w \in Nat : <<k, w>> \in sleeping')
      PROVE  row'[k].status = "pending"
  <2>1. mem[k].status = "pending" /\ row[k].status = "pending"
    BY <1>0, <1>4 DEF JobInv, TaskInv, HistInv
  <2>2. open[k].status = "pending"
    BY <2>1, Afters DEF HistInv
  <2>. QED  BY <2>1, <2>2
<1>5. /\ stage'[k] # "none" => row'[k].status = "running" /\ open'[k].status = "running"
      /\ child'[k] \in Ends \cup {"live"} /\ k \notin told' =>
           /\ launches'[k] > 0
           /\ row'[k].status \in {"running", "failed"} /\ open'[k].status \in {"running", "failed"}
  BY DEF HistInv
<1>. QED  BY <1>1, <1>2, <1>3, <1>4, <1>5 DEF HistInv

\* A job is given a record that may follow the committed one.
LEMMA WriteHist ==
  ASSUME SInv, \A k \in Jobs : HistInv(k), NEW j \in Jobs, NEW r \in Job,
         Saved(j, r) \/ Unsaved(j, r),
         r.status = row[j].status \/ r.status \in History!After(row[j].status),
         r.status = "completed" => launches[j] > 0,
         r.status = "pending" =>
           row[j].status \in {"absent", "pending"} /\ open[j].status \in {"absent", "pending"},
         UNCHANGED <<child, launches>>, told \subseteq told',
         \A k \in Jobs \ {j} :
           /\ stage'[k] = stage[k]
           /\ k \in todo' => k \in todo
           /\ \A w \in Nat : <<k, w>> \in sleeping' => <<k, w>> \in sleeping,
         j \in todo' \/ (\E w \in Nat : <<j, w>> \in sleeping') =>
           Saved(j, r) /\ r.status = "pending",
         stage'[j] # "none" =>
           /\ r.status = "running"
           /\ Saved(j, r) \/ (row[j].status = "running" /\ open[j].status = "running"),
         child[j] \in Ends \cup {"live"} /\ j \notin told' =>
           r.status \in {"running", "failed"}
  PROVE  \A k \in Jobs : HistInv(k)' /\ Onward(k)
<1>0. TypeOK /\ HistInv(j)
  BY DEF SInv
<1>1. ASSUME NEW k \in Jobs \ {j} PROVE HistInv(k)' /\ Onward(k)
  <2>1. /\ mem'[k] = mem[k]
        /\ row'[k] \in {row[k], open[k]} /\ open'[k] \in {row'[k], open[k]}
        /\ row'[k] = row[k] \/ row'[k] = open'[k]
    BY <1>0 DEF Saved, Unsaved, TypeOK
  <2>. QED  BY <2>1, HistKept
<1>2. /\ mem'[j] = r
      /\ Saved(j, r) => row'[j] = r /\ open'[j] = r
      /\ ~Saved(j, r) => row'[j] = row[j] /\ open'[j] \in {open[j], r, row[j]}
  <2>1. ASSUME ~Saved(j, r)
        PROVE  row'[j] = row[j] /\ open'[j] \in {open[j], r, row[j]}
    BY <1>0, <2>1 DEF Unsaved, TypeOK
  <2>. QED  BY <1>0, <2>1, Written
<1>3. Onward(j)
  BY <1>2 DEF Onward
<1>4. HistInv(j)'
  <2>1. row[j].status = "completed" => launches[j] > 0
    BY <1>0, Afters DEF HistInv
  <2>2. /\ open'[j].status = row'[j].status \/ open'[j].status \in History!After(row'[j].status)
        /\ open'[j].status = "completed" => launches'[j] > 0
    BY <1>0, <1>2, <2>1 DEF HistInv
  <2>3. mem'[j].status = "pending" =>
          row'[j].status \in {"absent", "pending"} /\ open'[j].status \in {"absent", "pending"}
    BY <1>2
  <2>4. /\ j \in todo' \/ (\E w \in Nat : <<j, w>> \in sleeping') => row'[j].status = "pending"
        /\ stage'[j] # "none" => row'[j].status = "running" /\ open'[j].status = "running"
    BY <1>2
  <2>5. child'[j] \in Ends \cup {"live"} /\ j \notin told' =>
           /\ launches'[j] > 0
           /\ row'[j].status \in {"running", "failed"} /\ open'[j].status \in {"running", "failed"}
    BY <1>0, <1>2 DEF HistInv
  <2>. QED  BY <2>2, <2>3, <2>4, <2>5 DEF HistInv
<1>. QED  BY <1>1, <1>3, <1>4

LEMMA RequestHist ==
  ASSUME SInv, \A k \in Jobs : HistInv(k), NEW j \in Jobs, Request(j)
  PROVE  \A k \in Jobs : HistInv(k)' /\ Onward(k)
<1>0. TypeOK /\ JobInv(j) /\ TaskInv(j) /\ HistInv(j)
  BY DEF SInv
<1>1. ASSUME mem[j].status \in {"absent", "pending"}, Serving
      PROVE  /\ stage[j] = "none" /\ j \notin todo /\ child[j] = "none"
             /\ \A w \in Nat : <<j, w>> \in sleeping => mem[j].status = "pending" /\ w = slot[j]
  BY <1>0, <1>1 DEF JobInv, TaskInv, Begun, Serving, LoopTurns
<1>2. ASSUME NEW t \in RunTimes, NEW m \in Policies, NEW confirm \in BOOLEAN,
             Add(j, t, m, confirm) \/ Update(j, t, m, confirm)
      PROVE  \A k \in Jobs : HistInv(k)' /\ Onward(k)
  <2>1. PICK r \in Job : /\ r = PendingJob(t, m) /\ r.status = "pending"
                         /\ Saved(j, r) \/ Unsaved(j, r)
    BY <1>2, PendingIsJob DEF Add, Update
  <2>2. /\ row[j].status \in {"absent", "pending"} /\ open[j].status \in {"absent", "pending"}
        /\ stage[j] = "none" /\ j \notin todo /\ child[j] = "none"
    BY <1>0, <1>1, <1>2 DEF Add, Update, HistInv
  <2>3. ASSUME NEW w \in Nat, <<j, w>> \in sleeping'
        PROVE  Saved(j, r)
    <3>1. \A v \in Nat : <<j, v>> \in Uncancelled(j) => FALSE
      BY <1>1, <1>2 DEF Add, Update, Uncancelled
    <3>. QED  BY <1>1, <1>2, <2>1, <2>3, <3>1 DEF Add, Update
  <2>4. \A k \in Jobs \ {j}, w \in Nat : <<k, w>> \in sleeping' => <<k, w>> \in sleeping
    BY <1>2 DEF Add, Update, Schedule, Uncancelled
  <2>5. r.status = row[j].status \/ r.status \in History!After(row[j].status)
    BY <2>1, <2>2, Afters
  <2>6. UNCHANGED <<stage, todo, child, told, launches>>
    BY <1>2 DEF Add, Update, children
  <2>. QED  BY <2>1, <2>2, <2>3, <2>4, <2>5, <2>6, WriteHist DEF Ends
<1>3. CASE Cancel(j)
  <2>1. PICK r \in Job : r.status = "cancelled" /\ (Saved(j, r) \/ Unsaved(j, r))
    BY <1>0, <1>3, StatusJob DEF Cancel, Statuses, Terminal
  <2>2. /\ row[j].status \in {"absent", "pending"}
        /\ stage[j] = "none" /\ j \notin todo /\ child[j] = "none"
    BY <1>0, <1>1, <1>3 DEF Cancel, Cancellable, HistInv
  <2>3. \A w \in Nat : <<j, w>> \notin sleeping'
    BY <1>1, <1>3 DEF Cancel, Cancellable, Uncancelled
  <2>4. \A k \in Jobs \ {j}, w \in Nat : <<k, w>> \in sleeping' => <<k, w>> \in sleeping
    BY <1>3 DEF Cancel, Uncancelled
  <2>5. r.status \in History!After(row[j].status)
    BY <2>1, <2>2, Afters
  <2>6. UNCHANGED <<stage, todo, child, told, launches>>
    BY <1>3 DEF Cancel, children
  <2>. QED  BY <2>1, <2>2, <2>3, <2>4, <2>5, <2>6, WriteHist DEF Ends
<1>. QED  BY <1>2, <1>3 DEF Request

\* The steps of a delayed run that write, and the exit callback.
LEMMA RunHist ==
  ASSUME SInv, \A k \in Jobs : HistInv(k), NEW j \in Jobs,
         \/ \E w \in Nat : Claim(j, w)
         \/ Record(j) \/ MarkFailed(j) \/ Deliver(j)
  PROVE  \A k \in Jobs : HistInv(k)' /\ Onward(k)
<1>0. TypeOK /\ JobInv(j) /\ TaskInv(j) /\ HistInv(j)
  BY DEF SInv
<1>1. ASSUME NEW w \in Nat, Claim(j, w)
      PROVE  \A k \in Jobs : HistInv(k)' /\ Onward(k)
  <2>1. PICK r \in Job : /\ r.status = "running" /\ (Saved(j, r) \/ Unsaved(j, r))
                         /\ Saved(j, r) \/ UNCHANGED stage
    BY <1>0, <1>1, StatusJob DEF Claim, Statuses
  <2>2. /\ row[j].status = "pending" /\ mem[j].status = "pending"
        /\ stage[j] = "none" /\ j \notin todo /\ child[j] = "none"
        /\ \A v \in Nat : <<j, v>> \in sleeping => v = w
    BY <1>0, <1>1 DEF Claim, HistInv, TaskInv, JobInv, Begun, LoopTurns
  <2>3. \A k \in Jobs, v \in Nat : <<k, v>> \in sleeping' => <<k, v>> \in sleeping /\ k # j
    BY <1>1, <2>2 DEF Claim
  <2>4. \A k \in Jobs \ {j} : stage'[k] = stage[k]
    BY <1>0, <1>1 DEF Claim, TypeOK
  <2>5. r.status \in History!After(row[j].status)
    BY <2>1, <2>2, Afters
  <2>6. UNCHANGED <<todo, child, told, launches>>
    BY <1>1 DEF Claim, children
  <2>. QED  BY <2>1, <2>2, <2>3, <2>4, <2>5, <2>6, WriteHist DEF Ends
<1>2. CASE Record(j)
  <2>1. PICK r \in Job : r.status = "running" /\ (Saved(j, r) \/ Unsaved(j, r))
    BY <1>0, <1>2, StatusJob DEF Record, Statuses
  <2>2. /\ row[j].status = "running" /\ open[j].status = "running"
        /\ j \notin todo /\ \A v \in Nat : <<j, v>> \notin sleeping
    BY <1>0, <1>2 DEF Record, HistInv, TaskInv, JobInv, Begun
  <2>3. \A k \in Jobs \ {j} : stage'[k] = stage[k]
    BY <1>0, <1>2 DEF Record, TypeOK
  <2>4. UNCHANGED <<sleeping, todo, child, told, launches>>
    BY <1>2 DEF Record, children
  <2>. QED  BY <2>1, <2>2, <2>3, <2>4, WriteHist
<1>3. CASE MarkFailed(j)
  <2>1. PICK r \in Job : r.status = "failed" /\ (Saved(j, r) \/ Unsaved(j, r))
    BY <1>0, <1>3, StatusJob DEF MarkFailed, Settle, Statuses, Terminal
  <2>2. /\ row[j].status = "running"
        /\ j \notin todo /\ \A v \in Nat : <<j, v>> \notin sleeping
    BY <1>0, <1>3 DEF MarkFailed, HistInv, TaskInv, JobInv, Begun
  <2>3. stage'[j] = "none" /\ \A k \in Jobs \ {j} : stage'[k] = stage[k]
    BY <1>0, <1>3 DEF MarkFailed, TypeOK
  <2>4. UNCHANGED <<sleeping, todo, child, told, launches>>
    BY <1>3 DEF MarkFailed, children
  <2>5. r.status \in History!After(row[j].status)
    BY <2>1, <2>2, Afters
  <2>. QED  BY <2>1, <2>2, <2>3, <2>4, <2>5, WriteHist
<1>4. CASE Deliver(j)
  <2>0. PICK s \in {"completed", "failed"} : s = Outcome(child[j])
    BY DEF Outcome
  <2>1. PICK r \in Job : r.status = s /\ (Saved(j, r) \/ Unsaved(j, r))
    BY <1>0, <1>4, <2>0, StatusJob DEF Deliver, Settle, Statuses, Terminal
  <2>2. /\ launches[j] > 0 /\ row[j].status \in {"running", "failed"}
        /\ stage[j] = "none"
    BY <1>0, <1>4 DEF Deliver, HistInv, LoopTurns
  <2>3. j \notin todo /\ \A v \in Nat : <<j, v>> \notin sleeping
    BY <1>0, <2>2 DEF HistInv
  <2>4. UNCHANGED <<sleeping, stage, todo, child, launches>> /\ told' = told \cup {j}
    BY <1>4 DEF Deliver
  <2>5. r.status = row[j].status \/ r.status \in History!After(row[j].status)
    BY <2>0, <2>1, <2>2, Afters
  <2>. QED  BY <2>0, <2>1, <2>2, <2>3, <2>4, <2>5, WriteHist
<1>. QED  BY <1>1, <1>2, <1>3, <1>4

LEMMA RestartHist ==
  ASSUME SInv, \A k \in Jobs : HistInv(k), Restart
  PROVE  \A k \in Jobs : HistInv(k)' /\ Onward(k)
<1>0. TypeOK /\ \A k \in Jobs : JobInv(k) /\ TaskInv(k)
  BY DEF SInv
<1>1. CASE Boot
  <2> SUFFICES ASSUME NEW k \in Jobs PROVE HistInv(k)' /\ Onward(k)
    OBVIOUS
  <2>1. /\ row'[k] = Stale(row[k]) /\ open'[k] = row'[k] /\ mem'[k] = row'[k]
        /\ k \in todo' => row'[k].status = "pending"
        /\ UNCHANGED <<sleeping, stage, child, told, launches>>
    BY <1>0, <1>1 DEF Boot, Pending, tasks, children
  <2>2. \/ row'[k].status = row[k].status /\ row'[k].status # "running"
        \/ row'[k].status = "failed" /\ row[k].status = "running"
    BY <1>0, <2>1 DEF Stale, TypeOK, Job
  <2>3. stage[k] = "none" /\ \A w \in Nat : <<k, w>> \notin sleeping
    BY <1>0, <1>1 DEF Boot, JobInv, TaskInv
  <2>4. row[k].status = "completed" => launches[k] > 0
    BY Afters DEF HistInv
  <2>5. Onward(k)
    BY <2>2, Afters DEF Onward
  <2>6. HistInv(k)'
    <3>1. /\ child[k] \in Ends \cup {"live"} /\ k \notin told =>
               launches[k] > 0 /\ row[k].status \in {"running", "failed"}
      BY DEF HistInv
    <3>2. row'[k].status = "completed" => launches[k] > 0
      BY <2>2, <2>4
    <3>3. mem'[k].status = "pending" => row'[k].status = "pending" /\ open'[k].status = "pending"
      BY <2>1
    <3>4. /\ child'[k] \in Ends \cup {"live"} /\ k \notin told' =>
               /\ launches'[k] > 0
               /\ row'[k].status \in {"running", "failed"} /\ open'[k].status \in {"running", "failed"}
      BY <2>1, <2>2, <3>1
    <3>. QED  BY <2>1, <2>3, <3>2, <3>3, <3>4 DEF HistInv
  <2>. QED  BY <2>5, <2>6
<1>2. ASSUME NEW j \in Jobs, Recover(j)
      PROVE  \A k \in Jobs : HistInv(k)' /\ Onward(k)
  <2>1. /\ mem[j].status = "pending" /\ row[j].status = "pending" /\ stage[j] = "none"
        /\ child[j] = "none" /\ \A w \in Nat : <<j, w>> \notin sleeping
        /\ j \notin todo' /\ \A k \in Jobs : k \in todo' => k \in todo
        /\ UNCHANGED <<stage, child, told, launches>>
    BY <1>0, <1>2 DEF Recover, JobInv, TaskInv, HistInv, Begun, children
  <2>2. CASE Schedule(j, mem[j], sleeping) /\ UNCHANGED <<mem, store>>
    <3>1. ASSUME NEW k \in Jobs \ {j} PROVE HistInv(k)' /\ Onward(k)
      <4>1. \A w \in Nat : <<k, w>> \in sleeping' => <<k, w>> \in sleeping
        BY <2>2 DEF Schedule
      <4>. QED  BY <2>1, <2>2, <4>1, HistKept DEF store
    <3>2. HistInv(j)' /\ Onward(j)
      BY <2>1, <2>2 DEF HistInv, Onward, store
    <3>. QED  BY <3>1, <3>2
  <2>3. ASSUME NEW s \in {"missed", "failed"}, Saved(j, Status(j, s)), UNCHANGED sleeping
        PROVE  \A k \in Jobs : HistInv(k)' /\ Onward(k)
    <3>1. PICK r \in Job : r.status = s /\ Saved(j, r)
      BY <1>0, <2>3, StatusJob DEF Statuses, Terminal
    <3>2. r.status \in History!After(row[j].status)
      BY <2>1, <3>1, Afters
    <3>. QED  BY <2>1, <2>3, <3>1, <3>2, WriteHist DEF Ends
  <2>. QED  BY <1>2, <2>2, <2>3 DEF Recover
<1>3. CASE Serve
  BY <1>3, HistKept DEF Serve, store, tasks, children
<1>. QED  BY <1>1, <1>2, <1>3 DEF Restart

\* The steps that start no child.
LEMMA NextHist ==
  ASSUME SInv, \A k \in Jobs : HistInv(k), [Next]_vars,
         \A j \in Jobs : ~Spawn(j) /\ ~SpawnFails(j)
  PROVE  UNCHANGED launches /\ \A k \in Jobs : HistInv(k)' /\ Onward(k)
<1>1. ASSUME NEW j \in Jobs, Request(j) \/ DelayedRun(j) \/ Deliver(j)
      PROVE  UNCHANGED launches /\ \A k \in Jobs : HistInv(k)' /\ Onward(k)
  <2>1. UNCHANGED launches
    BY <1>1 DEF Request, Add, Update, Cancel, DelayedRun, Claim, Record, MarkFailed,
                Deliver, children
  <2>. QED  BY <1>1, <2>1, RequestHist, RunHist DEF DelayedRun
<1>2. ASSUME NEW j \in Jobs, NEW e \in Ends, ChildEnds(j, e)
      PROVE  UNCHANGED launches /\ \A k \in Jobs : HistInv(k)' /\ Onward(k)
  <2>1. UNCHANGED <<mem, row, open, sleeping, stage, todo, told, launches>>
    BY <1>2 DEF ChildEnds, store, tasks
  <2>2. \A k \in Jobs : child'[k] \in Ends \cup {"live"} => child[k] \in Ends \cup {"live"}
    BY <1>2 DEF ChildEnds, SInv, TypeOK
  <2>3. \A k \in Jobs : HistInv(k)' /\ Onward(k)
    BY <2>1, <2>2 DEF HistInv, Onward
  <2>. QED  BY <2>1, <2>3
<1>3. ASSUME Halt
      PROVE  UNCHANGED launches /\ \A k \in Jobs : HistInv(k)' /\ Onward(k)
  <2>0. UNCHANGED launches
    BY <1>3 DEF Halt
  <2> SUFFICES ASSUME NEW k \in Jobs PROVE HistInv(k)' /\ Onward(k)
    BY <2>0
  <2>1. /\ UNCHANGED <<mem, row, told, launches>> /\ open'[k] = row[k]
        /\ sleeping' = {} /\ todo' = {} /\ stage'[k] = "none"
        /\ child'[k] = (IF child[k] = "none" \/ k \in told THEN child[k] ELSE "lost")
    BY <1>3 DEF Halt
  <2>2. ~(child'[k] \in Ends \cup {"live"} /\ k \notin told')
    BY <2>1 DEF Ends
  <2>3. row[k].status = "completed" => launches[k] > 0
    BY Afters DEF HistInv
  <2>. QED  BY <2>1, <2>2, <2>3 DEF HistInv, Onward
<1>4. CASE Shutdown
  <2>1. \A k \in Jobs, w \in Nat : <<k, w>> \in sleeping' => <<k, w>> \in sleeping
    BY <1>4 DEF Shutdown
  <2>. QED  BY <1>4, <2>1, HistKept DEF Shutdown, store, children
<1>5. CASE Restart
  <2>1. UNCHANGED launches
    BY <1>5 DEF Restart, Boot, Recover, Serve, children
  <2>. QED  BY <1>5, <2>1, RestartHist
<1>6. CASE OthersWrite
  BY <1>6, HistKept DEF OthersWrite, tasks, children
<1>7. CASE Tick \/ UNCHANGED vars
  BY <1>7, HistKept DEF Tick, vars, store, tasks, children
<1>. QED  BY <1>1, <1>2, <1>3, <1>4, <1>5, <1>6, <1>7 DEF Next, Crash, Exit

\* A step that may start a child.
LEMMA SpawnHist ==
  ASSUME SInv, \A k \in Jobs : HistInv(k), NEW j \in Jobs, Spawn(j) \/ SpawnFails(j)
  PROVE  /\ \A k \in Jobs : HistInv(k)'
         /\ UNCHANGED row
         /\ UNCHANGED launches \/ History!Launch(j)
<1>0. TypeOK /\ JobInv(j) /\ HistInv(j)
  BY DEF SInv
<1>1. /\ stage[j] = "spawn" /\ stage'[j] # "none"
      /\ UNCHANGED <<mem, row, open, sleeping, todo>>
      /\ \A k \in Jobs \ {j} : /\ stage'[k] = stage[k] /\ child'[k] = child[k]
                               /\ launches'[k] = launches[k] /\ (k \in told' <=> k \in told)
      /\ \/ UNCHANGED <<child, told, launches>>
         \/ launches' = [launches EXCEPT ![j] = @ + 1]
  BY <1>0 DEF Spawn, SpawnFails, TypeOK, store, children
<1>2. /\ launches[j] = 0 /\ row[j].status = "running" /\ open[j].status = "running"
      /\ mem[j].status # "pending" /\ j \notin todo
  BY <1>0, <1>1 DEF JobInv, HistInv, Begun
<1>3. UNCHANGED launches \/ launches' = [launches EXCEPT ![j] = 1]
  BY <1>0, <1>1, <1>2 DEF TypeOK
<1>4. \A k \in Jobs \ {j} : HistInv(k)'
  BY <1>1 DEF HistInv
<1>5. HistInv(j)'
  <2>1. UNCHANGED <<child, told, launches>> \/ launches'[j] = 1
    BY <1>0, <1>1, <1>3 DEF TypeOK
  <2>. QED  BY <1>0, <1>1, <1>2, <2>1 DEF HistInv
<1>6. ASSUME launches' = [launches EXCEPT ![j] = 1]
      PROVE  History!Launch(j)
  <2>1. {k \in Jobs : launches'[k] > 0} = {k \in Jobs : launches[k] > 0} \cup {j}
    BY <1>0, <1>6 DEF TypeOK
  <2>2. j \notin {k \in Jobs : launches[k] > 0}
    BY <1>2
  <2>3. [k \in Jobs |-> row[k].status][j] = "running"
    BY <1>2
  <2>. QED  BY <1>1, <2>1, <2>2, <2>3 DEF History!Launch
<1>. QED  BY <1>1, <1>3, <1>4, <1>5, <1>6

\* Its invariant.
HInv == SInv /\ \A j \in Jobs : HistInv(j)

LEMMA NextHInv ==
  ASSUME HInv, [Next]_vars
  PROVE  HInv' /\ [History!HistNext]_(History!histVars)
<1>0. SInv /\ SInv' /\ \A k \in Jobs : HistInv(k)
  BY NextSInv DEF HInv
<1>1. ASSUME NEW j \in Jobs, Spawn(j) \/ SpawnFails(j)
      PROVE  (\A k \in Jobs : HistInv(k)') /\ [History!HistNext]_(History!histVars)
  BY <1>0, <1>1, SpawnHist DEF History!HistNext, History!histVars
<1>2. ASSUME \A j \in Jobs : ~Spawn(j) /\ ~SpawnFails(j)
      PROVE  (\A k \in Jobs : HistInv(k)') /\ [History!HistNext]_(History!histVars)
  <2>1. UNCHANGED launches /\ \A k \in Jobs : HistInv(k)' /\ Onward(k)
    BY <1>0, <1>2, NextHist
  <2>2. \A k \in Jobs : row'[k].status \in History!Statuses
    BY <1>0 DEF SInv, TypeOK, Job, Terminal, History!Statuses
  <2>3. History!Commit
    BY <2>1, <2>2 DEF History!Commit, Onward
  <2>. QED  BY <2>1, <2>3 DEF History!HistNext
<1>. QED  BY <1>0, <1>1, <1>2 DEF HInv

-----------------------------------------------------------------------------
(* The theorems.                                                           *)

THEOREM Invariance == Spec => []SInv
BY InitSInv, NextSInv, PTL DEF Spec

\* Every variable keeps its type.
THEOREM TypeCorrect == Spec => []TypeOK
<1>1. SInv => TypeOK
  BY DEF SInv
<1> QED
  BY Invariance, <1>1, PTL

\* A scheduled job starts at most one child, across any number of crashes,
\* restarts, updates and failed writes.
THEOREM LaunchedAtMostOnce == Spec => []AtMostOnce
<1>1. ASSUME SInv, NEW j \in Jobs PROVE launches[j] <= 1
  <2>1. launches[j] \in {0, 1}
    BY <1>1 DEF SInv, JobInv
  <2> QED
    BY <2>1
<1>2. SInv => AtMostOnce
  BY <1>1 DEF AtMostOnce
<1> QED
  BY Invariance, <1>2, PTL

\* A child is started only for a row already committed as running, and not
\* before the run_at committed last.
THEOREM LaunchesAreClaimed == Spec => LaunchIsClaimed
<1>1. ASSUME SInv, [Next]_vars, NEW j \in Jobs, launches'[j] # launches[j]
      PROVE  row[j].status = "running" /\ Due(row[j], now)
  <2>1. stage[j] = "spawn"
    <3>0. launches' # launches
      BY <1>1
    <3>1. PICK k \in Jobs : Spawn(k) \/ SpawnFails(k)
      <4>1. ASSUME NEW k \in Jobs, Request(k) PROVE UNCHANGED launches
        BY <4>1 DEF Request, Add, Update, Cancel, children
      <4>2. ASSUME NEW k \in Jobs, NEW e \in Ends, Deliver(k) \/ ChildEnds(k, e)
            PROVE  UNCHANGED launches
        BY <4>2 DEF Deliver, ChildEnds
      <4>3. ASSUME NEW k \in Jobs, DelayedRun(k), ~Spawn(k), ~SpawnFails(k)
            PROVE  UNCHANGED launches
        BY <4>3 DEF DelayedRun, Claim, Record, MarkFailed, children
      <4>4. ASSUME Crash \/ Shutdown \/ Exit \/ Restart \/ OthersWrite \/ Tick
            PROVE  UNCHANGED launches
        BY <4>4 DEF Crash, Halt, Shutdown, Exit, Restart, Boot, Recover, Serve,
           OthersWrite, Tick, children
      <4> QED
        BY <1>1, <3>0, <4>1, <4>2, <4>3, <4>4 DEF Next, vars, children, Ends
    <3>2. k = j
      BY <1>1, <3>1 DEF Spawn, SpawnFails, SInv, TypeOK, children
    <3> QED
      BY <3>1, <3>2 DEF Spawn, SpawnFails
  <2> QED
    BY <1>1, <2>1 DEF SInv, JobInv
<1>2. SInv /\ [Next]_vars =>
        [\A j \in Jobs : launches'[j] # launches[j] =>
           row[j].status = "running" /\ Due(row[j], now)]_vars
  BY <1>1
<1> QED
  BY Invariance, <1>2, PTL DEF Spec, LaunchIsClaimed

THEOREM RestInvariance == Spec => []RInv
<1>1. Init => RInv
  BY InitSInv, InitRest DEF RInv
<1>2. RInv /\ [Next]_vars => RInv'
  <2>1. ASSUME RInv, [Next]_vars
        PROVE  SInv' /\ \A k \in Jobs : Rest(k)'
    BY <2>1, NextSInv, NextRest DEF RInv
  <2>. QED  BY <2>1 DEF RInv
<1>. QED  BY <1>1, <1>2, PTL DEF Spec

\* A job is recorded as completed only if its child ended by itself with code 0
\* and the manager was told, also if writes raise.
THEOREM CompletedJobsExitedZero == Spec => []CompletedMeansExitedZero
<1>1. RInv => CompletedMeansExitedZero
  BY DEF RInv, Rest, Done, CompletedMeansExitedZero
<1>. QED  BY <1>1, RestInvariance, PTL

\* With a store that works, a pending job of a serving launcher has its one task.
THEOREM PendingJobsHaveTimers ==
  ASSUME ~StoreMayFail
  PROVE  Spec => []PendingHasTimer
<1>1. RInv => PendingHasTimer
  <2> SUFFICES ASSUME RInv, phase = "up", NEW j \in Jobs
               PROVE  LET mine == {x \in sleeping : x[1] = j} IN
                      IF mem[j].status = "pending"
                        THEN mine = {<<j, slot[j]>>} /\ OnTime(mem[j], slot[j])
                        ELSE mine = {}
    BY DEF PendingHasTimer
  <2>1. TaskInv(j) /\ JobInv(j) /\ Kempt(j) /\ sleeping \subseteq Jobs \X Nat
    BY DEF RInv, SInv, Rest, TypeOK
  <2>2. ASSUME NEW x \in sleeping, x[1] = j
        PROVE  x = <<j, slot[j]>> /\ OnTime(mem[j], slot[j]) /\ mem[j].status = "pending"
    <3>1. PICK w \in Nat : x = <<j, w>>
      BY <2>1, <2>2
    <3>. QED  BY <2>1, <3>1 DEF TaskInv
  <2>3. mem[j].status = "pending" => <<j, slot[j]>> \in sleeping
    BY <2>1 DEF JobInv, Kempt
  <2>. QED  BY <2>2, <2>3
<1>. QED  BY <1>1, RestInvariance, PTL

\* With a store that works, two jobs that may start at one time were allowed to.
THEOREM CollisionsAreConfirmed ==
  ASSUME ~StoreMayFail
  PROVE  Spec => []NoUnconfirmedCollision
<1>1. Init => NoUnconfirmedCollision
  BY DEF Init, NoUnconfirmedCollision, NoJob, Active
<1>2. RInv /\ NoUnconfirmedCollision /\ [Next]_vars => NoUnconfirmedCollision'
  BY CollisionKept
<1>. QED  BY <1>1, <1>2, RestInvariance, PTL DEF Spec

\* With a store that works, what has become of a job is never changed.
THEOREM TerminalJobsAreFinal ==
  ASSUME ~StoreMayFail
  PROVE  Spec => TerminalIsFinal
<1>1. RInv /\ [Next]_vars =>
        [\A j \in Jobs : mem[j].status \in Terminal => mem'[j].status = mem[j].status]_vars
  BY Moves
<1>. QED  BY <1>1, RestInvariance, PTL DEF Spec, TerminalIsFinal

\* Where the tasks and the rows of the jobs stand, and what the open transaction
\* may still make of them.
THEOREM HistoryInvariance == Spec => []HInv
<1>1. Init => HInv
  <2> SUFFICES ASSUME Init, NEW j \in Jobs PROVE HistInv(j)
    BY InitSInv DEF HInv
  <2>. QED  BY DEF Init, HistInv, NoJob, Ends
<1>2. HInv /\ [Next]_vars => HInv'
  BY NextHInv
<1>. QED  BY <1>1, <1>2, PTL DEF Spec

\* The database keeps the history that JobHistory promises, for any number of jobs,
\* whichever writes raise and wherever the launcher crashes: no commit takes a job
\* back, and a child is started once, for a job recorded as running.
THEOREM KeepsHistory == Spec => HistorySpec
<1>1. Init => History!HistInit
  <2> SUFFICES ASSUME Init PROVE History!HistInit
    OBVIOUS
  <2>1. /\ [j \in Jobs |-> row[j].status] = [j \in Jobs |-> "absent"]
        /\ {j \in Jobs : launches[j] > 0} = {}
    BY DEF Init, NoJob
  <2>. QED  BY <2>1 DEF History!HistInit
<1>2. HInv /\ [Next]_vars => [History!HistNext]_(History!histVars)
  BY NextHInv
<1>. QED  BY <1>1, <1>2, HistoryInvariance, PTL DEF Spec, HistorySpec, History!Spec

\* A task never outlives the manager's knowledge of it, also if writes raise: each
\* delayed run that sleeps is the one _tasks has, so a cancellation reaches it, its
\* job is pending in memory and in the database, and it wakes at the job's run_at,
\* but for a change of the clock.
THEOREM TasksAreTracked == Spec => []TasksTracked
<1>1. HInv => TasksTracked
  <2> SUFFICES ASSUME HInv, NEW x \in sleeping
               PROVE  LET j == x[1] IN
                      /\ slot[j] = x[2] /\ OnTime(mem[j], x[2])
                      /\ mem[j].status = "pending" /\ row[j].status = "pending"
    BY DEF TasksTracked
  <2>1. PICK j \in Jobs, w \in Nat : x = <<j, w>>
    BY DEF HInv, SInv, TypeOK
  <2>. QED  BY <2>1 DEF HInv, SInv, TaskInv, HistInv
<1>. QED  BY <1>1, HistoryInvariance, PTL

\* What a launcher finds in the database after any crash: a job with a child is
\* running, completed or failed there, so no start-up schedules it again.
THEOREM LaunchedJobsStayClaimed ==
  Spec => [](\A j \in Jobs :
               launches[j] > 0 => row[j].status \in {"running", "completed", "failed"})
<1> DEFINE Claimed == \A j \in Jobs :
             launches[j] > 0 => row[j].status \in {"running", "completed", "failed"}
<1>1. History!HistInit => Claimed
  <2> SUFFICES ASSUME History!HistInit, NEW j \in Jobs, launches[j] > 0 PROVE FALSE
    OBVIOUS
  <2>. QED  BY DEF History!HistInit
<1>2. Claimed /\ [History!HistNext]_(History!histVars) => Claimed'
  <2> SUFFICES ASSUME Claimed, [History!HistNext]_(History!histVars),
                      NEW j \in Jobs, launches'[j] > 0
               PROVE  row'[j].status \in {"running", "completed", "failed"}
    OBVIOUS
  <2> DEFINE S  == [k \in Jobs |-> row[k].status]
             L  == {k \in Jobs : launches[k] > 0}
             S1 == [k \in Jobs |-> row'[k].status]
             L1 == {k \in Jobs : launches'[k] > 0}
  <2>1. S[j] = row[j].status /\ S1[j] = row'[j].status /\ j \in L1
    OBVIOUS
  <2>2. CASE History!Commit
    <3>1. L1 = L /\ (S1[j] # S[j] => S1[j] \in History!After(S[j]))
      BY <2>2 DEF History!Commit
    <3>2. S[j] \in {"running", "completed", "failed"}
      BY <2>1, <3>1
    <3>. QED  BY <2>1, <3>1, <3>2, Afters
  <2>3. ASSUME NEW k \in Jobs, History!Launch(k)
        PROVE  row'[j].status \in {"running", "completed", "failed"}
    <3>1. S1 = S /\ L1 = L \cup {k} /\ S[k] = "running"
      BY <2>3 DEF History!Launch
    <3>. QED  BY <2>1, <3>1
  <2>4. CASE UNCHANGED History!histVars
    <3>1. S1 = S /\ L1 = L
      BY <2>4 DEF History!histVars
    <3>. QED  BY <2>1, <3>1
  <2>. QED  BY <2>2, <2>3, <2>4 DEF History!HistNext
<1>. QED  BY <1>1, <1>2, KeepsHistory, PTL DEF HistorySpec, History!Spec

\* "Completed, failed, cancelled, and missed jobs ... are not reloaded" (docs/prd.md)
\* is true of the database, also if writes raise: a row that has ended never says
\* "pending" again, and only a failed one may still change, to "completed".
THEOREM EndedRowsAreNotReloaded ==
  Spec => [][\A j \in Jobs :
               row[j].status \in Terminal =>
                 \/ row'[j].status = row[j].status
                 \/ row[j].status = "failed" /\ row'[j].status = "completed"]_vars
<1> DEFINE Stays ==
      \A j \in Jobs :
        row[j].status \in Terminal =>
          \/ row'[j].status = row[j].status
          \/ row[j].status = "failed" /\ row'[j].status = "completed"
<1>1. [History!HistNext]_(History!histVars) => [Stays]_vars
  <2> SUFFICES ASSUME [History!HistNext]_(History!histVars),
                      NEW j \in Jobs, row[j].status \in Terminal
               PROVE  \/ row'[j].status = row[j].status
                      \/ row[j].status = "failed" /\ row'[j].status = "completed"
    OBVIOUS
  <2>1. row'[j].status = row[j].status \/ row'[j].status \in History!After(row[j].status)
    <3> DEFINE S  == [k \in Jobs |-> row[k].status]
               S1 == [k \in Jobs |-> row'[k].status]
    <3>1. S1 = S \/ S1[j] = S[j] \/ S1[j] \in History!After(S[j])
      BY DEF History!HistNext, History!Commit, History!Launch, History!histVars
    <3>. QED  BY <3>1
  <2>. QED  BY <2>1, Afters DEF Terminal
<1>. QED  BY <1>1, KeepsHistory, PTL DEF HistorySpec, History!Spec

=============================================================================
