------------------------ MODULE PeriodicManagerProofs ------------------------
(***************************************************************************)
(* What holds of PeriodicManager for any number of jobs and runs, however  *)
(* often the launcher crashes and whichever writes raise.                  *)
(***************************************************************************)
EXTENDS PeriodicManager, TLAPS

Statuses == {"absent", "running"} \cup Terminal

AtSet == [pc    : {"idle", "check", "decide", "spawn", "record", "fail"},
          label : Labels \cup {NoLabel},
          run   : Runs \cup {NoRun}]

\* The loop is between the insertion of r and the last write of its start.
InHand(r) == at.pc \in {"spawn", "record", "fail"} /\ at.run = r

\* A terminal status is what _mark_periodic_exit makes of the end of the child, or
\* the run is none of this launcher's children.
Settled(r) ==
  \A v \in {row[r], open[r]} \cap Terminal :
    /\ v = "completed" => child[r] = "exited" /\ r \in known \cap zero
    /\ r \in watched => r \in known /\ v = Outcome(r)

RunInv(r) ==
  /\ label[r] = NoLabel => r \notin mine /\ row[r] = "absent" /\ open[r] = "absent"
  /\ row[r] \in Terminal => open[r] = row[r]
  /\ Settled(r)
  /\ r \notin unsaved =>
       /\ open[r] = row[r]
       /\ phase # "down" /\ row[r] = "running" => r \in watched \ told \/ InHand(r)

LoopInv ==
  /\ at.pc # "idle" => phase = "up"
  /\ at.pc \in {"spawn", "record", "fail"} =>
       /\ at.run \in Runs /\ at.label \in Labels /\ label[at.run] = at.label
       /\ row[at.run] = "running" /\ open[at.run] = "running"
  /\ at.pc = "spawn" => active[at.label] = at.run
  /\ at.pc \in {"spawn", "fail"} => at.run \notin watched
  /\ at.pc = "record" => at.run \in watched \ told

\* A child this launcher still waits for holds the slot of its job.
SlotInv(l) ==
  l \notin overlapped =>
    \A r \in watched : label[r] = l /\ r \notin known => active[l] = r

DownInv == phase = "down" => mine = {}

PInv ==
  /\ TypeOK /\ LoopInv /\ DownInv
  /\ \A r \in Runs : RunInv(r)
  /\ \A l \in Labels : SlotInv(l)

-----------------------------------------------------------------------------
(* Writes.                                                                 *)

\* What a write to another row does to row r.
Old(r) ==
  \/ row'[r] = open[r] /\ open'[r] = open[r]
  \/ row'[r] = row[r] /\ open'[r] \in {open[r], row[r]}

LEMMA Wrote ==
  ASSUME TypeOK, NEW r \in Runs, NEW s \in Statuses, Saved(r, s) \/ Unsaved(r, s)
  PROVE  /\ row' \in [Runs -> Statuses] /\ open' \in [Runs -> Statuses]
         /\ unsaved' \subseteq Runs
         /\ \A q \in Runs \ {r} : Old(q) /\ (q \in unsaved' <=> q \in unsaved)
         /\ \/ row'[r] = s /\ open'[r] = s /\ unsaved' = unsaved
            \/ row'[r] = row[r] /\ open'[r] \in {open[r], s, row[r]} /\ r \in unsaved'
<1>1. row \in [Runs -> Statuses] /\ open \in [Runs -> Statuses] /\ unsaved \subseteq Runs
  BY DEF TypeOK, Statuses
<1>2. CASE Saved(r, s)
  BY <1>1, <1>2 DEF Saved, Old
<1>3. CASE Unsaved(r, s)
  BY <1>1, <1>3 DEF Unsaved, Old
<1>4. QED
  BY <1>2, <1>3

LEMMA Swept ==
  ASSUME TypeOK, CommitsOrRollsBack
  PROVE  /\ row' \in [Runs -> Statuses] /\ open' \in [Runs -> Statuses]
         /\ unsaved' = unsaved
         /\ \A q \in Runs : Old(q)
BY DEF TypeOK, Statuses, CommitsOrRollsBack, Old

\* Nothing happens to a published child.
LifeKept(r) ==
  r \in known => r \in known' /\ child'[r] = child[r] /\ (r \in zero' <=> r \in zero)

LEMMA RunKept ==
  ASSUME NEW r \in Runs, RunInv(r), Old(r), LifeKept(r),
         label'[r] = label[r],
         r \in mine' => r \in mine, r \in watched' => r \in watched,
         r \in unsaved => r \in unsaved',
         phase' # "down" => phase # "down",
         phase' # "down" /\ r \in watched \ told => r \in watched' \ told',
         phase' # "down" /\ InHand(r) => InHand(r)'
  PROVE  RunInv(r)'
<1>1. Settled(r)'
  <2>1. ASSUME NEW v \in {row[r], open[r]} \cap Terminal, r \in watched, r \in known
        PROVE  Outcome(r)' = Outcome(r)
    BY <2>1 DEF LifeKept, Outcome
  <2>2. {row[r], open[r]}' \subseteq {row[r], open[r]}
    BY DEF Old
  <2>3. QED
    BY <2>1, <2>2 DEF RunInv, Settled, LifeKept
<1>2. (row[r] \in Terminal => open[r] = row[r])'
  BY DEF RunInv, Old
<1>3. (label[r] = NoLabel => r \notin mine /\ row[r] = "absent" /\ open[r] = "absent")'
  BY DEF RunInv, Old
<1>4. (r \notin unsaved =>
         /\ open[r] = row[r]
         /\ phase # "down" /\ row[r] = "running" => r \in watched \ told \/ InHand(r))'
  BY DEF RunInv, Old
<1>5. QED
  BY <1>1, <1>2, <1>3, <1>4 DEF RunInv

LEMMA OutcomeIs ==
  ASSUME NEW r \in Runs
  PROVE  Outcome(r) \in Terminal /\ (Outcome(r) = "completed" <=> child[r] = "exited" /\ r \in zero)
BY DEF Outcome, Terminal

-----------------------------------------------------------------------------
(* The loop's record.                                                      *)

LEMMA AtPc ==
  ASSUME NEW a \in AtSet,
         NEW p \in {"idle", "check", "decide", "spawn", "record", "fail"}
  PROVE  LET b == [a EXCEPT !.pc = p] IN
         b \in AtSet /\ b.pc = p /\ b.label = a.label /\ b.run = a.run
BY DEF AtSet

LEMMA AtIdle == Idle \in AtSet /\ Idle.pc = "idle"
BY DEF Idle, AtSet

LEMMA AtFire ==
  ASSUME NEW l \in Labels
  PROVE  LET b == [pc |-> "check", label |-> l, run |-> NoRun] IN
         b \in AtSet /\ b.pc = "check" /\ b.label = l
BY DEF AtSet

LEMMA AtSpawn ==
  ASSUME NEW l \in Labels, NEW r \in Runs
  PROVE  LET b == [pc |-> "spawn", label |-> l, run |-> r] IN
         b \in AtSet /\ b.pc = "spawn" /\ b.label = l /\ b.run = r
BY DEF AtSet

-----------------------------------------------------------------------------
(* The invariant, action by action.                                        *)

LEMMA InitPInv == Init => PInv
<1> SUFFICES ASSUME Init PROVE PInv
  OBVIOUS
<1> USE PeriodicAssumption
<1>1. TypeOK
  BY AtIdle DEF Init, TypeOK, AtSet, Declaration, Life!LifeInit, Life!LifeTypeOK
<1>2. LoopInv /\ DownInv
  BY AtIdle DEF Init, LoopInv, DownInv
<1>3. ASSUME NEW r \in Runs PROVE RunInv(r)
  BY DEF Init, RunInv, Settled, Terminal
<1>4. ASSUME NEW l \in Labels PROVE SlotInv(l)
  BY DEF Init, SlotInv
<1>5. QED
  BY <1>1, <1>2, <1>3, <1>4 DEF PInv

\* A run no longer watched by anybody, or one that is published, needs no slot.
LEMMA SlotKept ==
  ASSUME NEW l \in Labels, SlotInv(l), known \subseteq known',
         watched' \subseteq watched, overlapped \subseteq overlapped',
         \A r \in watched' : label'[r] = label[r],
         \A r \in watched' : label[r] = l /\ r \notin known' /\ active[l] = r => active'[l] = r
  PROVE  SlotInv(l)'
BY DEF SlotInv

\* Steps of the loop and of callers that write nothing and take no slot.
LEMMA Quiet ==
  ASSUME PInv, UNCHANGED <<life, process, jobs, slots>>,
         CommitsOrRollsBack \/ UNCHANGED store,
         declared' \in [Labels -> Declaration],
         at' \in AtSet, at'.pc \in {"idle", "check", "decide"},
         at.pc \in {"idle", "check", "decide"},
         phase' \in {"up", "stopping"}, phase # "down",
         at'.pc # "idle" => phase' = "up"
  PROVE  PInv'
<1>1. /\ row' \in [Runs -> Statuses] /\ open' \in [Runs -> Statuses] /\ unsaved' = unsaved
      /\ \A r \in Runs : Old(r)
  BY Swept DEF PInv, TypeOK, store, Statuses, Old
<1>2. TypeOK'
  BY <1>1 DEF PInv, TypeOK, life, process, jobs, slots, Life!LifeTypeOK, AtSet, Statuses
<1>3. LoopInv' /\ DownInv'
  BY DEF LoopInv, DownInv
<1>4. ASSUME NEW r \in Runs PROVE RunInv(r)'
  <2>1. LifeKept(r)
    BY DEF LifeKept, life, process
  <2>2. ~InHand(r)
    BY DEF InHand
  <2>3. QED
    BY <1>1, <2>1, <2>2, RunKept DEF PInv, life, process, jobs
<1>5. ASSUME NEW l \in Labels PROVE SlotInv(l)'
  BY SlotKept DEF PInv, life, process, jobs, slots
<1>6. QED
  BY <1>2, <1>3, <1>4, <1>5 DEF PInv

LEMMA LoopQuietPInv ==
  ASSUME PInv,
         \/ \E l \in Labels : Fire(l) \/ NothingToReconcile(l) \/ Skip(l)
         \/ Reload \/ Shutdown \/ OthersWrite
  PROVE  PInv'
<1> USE PeriodicAssumption
<1>1. at \in AtSet /\ declared \in [Labels -> Declaration] /\ phase \in {"down", "up", "stopping"}
  BY DEF PInv, TypeOK, AtSet
<1>2. ASSUME NEW l \in Labels, Fire(l) PROVE PInv'
  BY <1>1, <1>2, AtFire, Quiet DEF Fire, Serving, LoopTurns
<1>3. ASSUME NEW l \in Labels, NothingToReconcile(l) PROVE PInv'
  <2>1. at.pc = "check" /\ phase = "up"
    BY <1>3 DEF NothingToReconcile, PInv, LoopInv
  <2>2. at' \in AtSet /\ at'.pc = "decide"
    BY <1>1, <1>3, AtPc DEF NothingToReconcile
  <2>3. UNCHANGED <<life, process, jobs, store, slots, declared, phase>>
    BY <1>3 DEF NothingToReconcile
  <2>4. QED
    BY <1>1, <2>1, <2>2, <2>3, Quiet
<1>4. ASSUME NEW l \in Labels, Skip(l) PROVE PInv'
  <2>1. at.pc = "decide" /\ phase = "up"
    BY <1>4 DEF Skip, PInv, LoopInv
  <2>2. QED
    BY <1>1, <1>4, <2>1, AtIdle, Quiet DEF Skip
<1>5. ASSUME Reload PROVE PInv'
  <2>1. declared' \in [Labels -> Declaration]
    BY <1>5 DEF Reload
  <2>2. QED
    BY <1>1, <1>5, <2>1, Quiet DEF Reload, Serving, LoopTurns
<1>6. ASSUME Shutdown PROVE PInv'
  BY <1>1, <1>6, Quiet DEF Shutdown, Serving, LoopTurns
<1>7. ASSUME OthersWrite PROVE PInv'
  BY <1>1, <1>7, Quiet DEF OthersWrite, LoopTurns
<1>8. QED
  BY <1>2, <1>3, <1>4, <1>5, <1>6, <1>7

\* r's end is written, or was to be: by its callback or by a later run.
LEMMA Marking ==
  ASSUME PInv, NEW r \in Runs, Marked(r) \/ NotMarked(r),
         r \in watched, r \in known, at.pc \in {"idle", "check"}, phase # "down",
         UNCHANGED <<child, stopping, known, process, jobs, named, declared, phase>>,
         told \subseteq told', told' \subseteq told \cup {r},
         at' \in AtSet, at'.pc \in {"idle", "decide"}, at'.pc # "idle" => phase = "up"
  PROVE  PInv'
<1>1. /\ row' \in [Runs -> Statuses] /\ open' \in [Runs -> Statuses]
      /\ unsaved' \subseteq Runs
      /\ \A q \in Runs \ {r} : Old(q) /\ (q \in unsaved' <=> q \in unsaved)
      /\ \/ row'[r] = Outcome(r) /\ open'[r] = Outcome(r) /\ unsaved' = unsaved
         \/ row'[r] = row[r] /\ open'[r] \in {open[r], Outcome(r), row[r]} /\ r \in unsaved'
  <2>1. Outcome(r) \in Statuses
    BY OutcomeIs DEF Statuses
  <2>2. QED
    BY <2>1, Wrote DEF Marked, NotMarked, PInv
<1>2. active' \in {active, Freed(r)}
  BY DEF Marked, NotMarked
<1>3. TypeOK'
  <2>1. Life!LifeTypeOK'
    BY DEF PInv, TypeOK, Life!LifeTypeOK
  <2>2. active' \in [Labels -> Runs \cup {NoRun}]
    BY <1>2 DEF PInv, TypeOK, Freed
  <2>3. QED
    BY <1>1, <2>1, <2>2 DEF PInv, TypeOK, process, jobs, AtSet, Statuses
<1>4. LoopInv' /\ DownInv'
  BY DEF LoopInv, DownInv
<1>5. ~\E q \in Runs : InHand(q)
  BY DEF InHand
<1>6. ASSUME NEW q \in Runs \ {r} PROVE RunInv(q)'
  <2>1. LifeKept(q)
    BY DEF LifeKept, process
  <2>2. QED
    BY <1>1, <1>5, <1>6, <2>1, RunKept DEF PInv, process, jobs
<1>7. RunInv(r)'
  <2>1. RunInv(r)
    BY DEF PInv
  <2>2. Outcome(r)' = Outcome(r)
    BY DEF Outcome, process
  <2>3. (Outcome(r) = "completed" <=> child[r] = "exited" /\ r \in zero) /\ Outcome(r) \in Terminal
    BY OutcomeIs
  <2>4. Settled(r)'
    BY <1>1, <2>1, <2>2, <2>3 DEF RunInv, Settled, process
  <2>5. label[r] # NoLabel
    BY <2>1 DEF RunInv, PInv, TypeOK
  <2>6. (row[r] \in Terminal => open[r] = row[r])'
    BY <1>1, <2>1, <2>3 DEF RunInv, Settled
  <2>7. (r \notin unsaved => open[r] = row[r] /\ row[r] # "running")'
    BY <1>1, <2>3 DEF Terminal
  <2>8. QED
    BY <2>4, <2>5, <2>6, <2>7 DEF RunInv, jobs
<1>8. ASSUME NEW l \in Labels PROVE SlotInv(l)'
  <2>1. ASSUME NEW q \in watched, q \notin known, active[l] = q PROVE active'[l] = q
    BY <1>2, <2>1 DEF Freed, PInv, TypeOK
  <2>2. QED
    BY <2>1, SlotKept DEF PInv, process, jobs
<1>9. QED
  BY <1>3, <1>4, <1>6, <1>7, <1>8 DEF PInv

LEMMA MarkingPInv ==
  ASSUME PInv,
         \/ \E l \in Labels : Reconcile(l) \/ ReconcileFails(l)
         \/ \E r \in Runs : Deliver(r)
  PROVE  PInv'
<1>1. ASSUME NEW l \in Labels, Reconcile(l) \/ ReconcileFails(l) PROVE PInv'
  <2>1. PICK r \in Runs : r = active[l]
    BY <1>1 DEF Reconcile, ReconcileFails, PInv, TypeOK
  <2>2. /\ Marked(r) \/ NotMarked(r)
        /\ at.pc = "check" /\ phase = "up"
        /\ UNCHANGED <<life, process, jobs, named, declared, phase>>
    BY <1>1, <2>1 DEF Reconcile, ReconcileFails, PInv, LoopInv
  <2>3. r \in watched /\ r \in known
    BY <1>1, <2>1 DEF Reconcile, ReconcileFails, Reconcilable, PInv, TypeOK
  <2>4. at' \in AtSet /\ at'.pc \in {"idle", "decide"}
    <3>1. at \in AtSet
      BY DEF PInv, TypeOK, AtSet
    <3>2. CASE Reconcile(l)
      <4>1. at' = [at EXCEPT !.pc = "decide"]
        BY <3>2 DEF Reconcile
      <4>2. QED
        BY <3>1, <4>1, AtPc
    <3>3. CASE ReconcileFails(l)
      BY <3>3, AtIdle DEF ReconcileFails
    <3>4. QED
      BY <1>1, <3>2, <3>3
  <2>5. QED
    BY <2>2, <2>3, <2>4, Marking DEF life
<1>2. ASSUME NEW r \in Runs, Deliver(r) PROVE PInv'
  <2>1. /\ Marked(r) \/ NotMarked(r)
        /\ at.pc = "idle" /\ phase # "down" /\ r \in watched /\ r \in known
        /\ told' = told \cup {r}
        /\ UNCHANGED <<child, stopping, known, process, jobs, named, declared, phase, at>>
    BY <1>2 DEF Deliver, LoopTurns, Life!Tell
  <2>2. at' \in AtSet
    BY <2>1 DEF PInv, TypeOK, AtSet
  <2>3. QED
    BY <2>1, <2>2, Marking
<1>3. QED
  BY <1>1, <1>2

LEMMA InsertPInv ==
  ASSUME PInv, NEW l \in Labels, NEW r \in Runs, Insert(l, r) PROVE PInv'
<1> USE PeriodicAssumption
<1>1. /\ at.pc = "decide" /\ ~Blocked(l) /\ label[r] = NoLabel
      /\ label' = [label EXCEPT ![r] = l]
      /\ overlapped' = (IF declared[l] = "skip" THEN overlapped ELSE overlapped \cup {l})
      /\ UNCHANGED <<life, process, named, declared, phase>>
  BY DEF Insert, Fresh
<1>2. \/ /\ Saved(r, "running") /\ active' = [active EXCEPT ![l] = r]
         /\ at' = [pc |-> "spawn", label |-> l, run |-> r]
      \/ Unsaved(r, "running") /\ active' = active /\ at' = Idle
  BY DEF Insert
<1>3. phase = "up"
  BY <1>1 DEF PInv, LoopInv
<1>4. RunInv(r) /\ r \notin mine /\ r \notin watched /\ row[r] = "absent" /\ open[r] = "absent"
  BY <1>1 DEF PInv, RunInv, TypeOK
<1>5. "running" \in Statuses /\ "running" \notin Terminal /\ "absent" \notin Terminal
  BY DEF Statuses, Terminal
<1>6. /\ row' \in [Runs -> Statuses] /\ open' \in [Runs -> Statuses]
      /\ unsaved' \subseteq Runs
      /\ \A q \in Runs \ {r} : Old(q) /\ (q \in unsaved' <=> q \in unsaved)
      /\ \/ row'[r] = "running" /\ open'[r] = "running" /\ unsaved' = unsaved
         \/ row'[r] = row[r] /\ open'[r] \in {open[r], "running", row[r]} /\ r \in unsaved'
  BY <1>2, <1>5, Wrote DEF PInv
<1>7. at' \in AtSet /\ label'[r] = l /\ \A q \in Runs \ {r} : label'[q] = label[q]
  BY <1>1, <1>2, AtSpawn, AtIdle DEF PInv, TypeOK
<1>8. TypeOK'
  <2>1. active' \in [Labels -> Runs \cup {NoRun}]
    BY <1>2 DEF PInv, TypeOK
  <2>2. label' \in [Runs -> Labels \cup {NoLabel}] /\ overlapped' \subseteq Labels
    BY <1>1 DEF PInv, TypeOK
  <2>3. Life!LifeTypeOK'
    BY <1>1 DEF PInv, TypeOK, life, Life!LifeTypeOK
  <2>4. QED
    BY <1>1, <1>6, <1>7, <2>1, <2>2, <2>3 DEF PInv, TypeOK, process, AtSet, Statuses
<1>9. LoopInv' /\ DownInv'
  <2>1. CASE /\ Saved(r, "running") /\ active' = [active EXCEPT ![l] = r]
             /\ at' = [pc |-> "spawn", label |-> l, run |-> r]
    <3>1. /\ at'.pc = "spawn" /\ at'.label = l /\ at'.run = r
          /\ row'[r] = "running" /\ open'[r] = "running" /\ active'[l] = r
      BY <2>1 DEF Saved, PInv, TypeOK
    <3>2. QED
      BY <1>1, <1>3, <1>4, <1>7, <3>1 DEF LoopInv, DownInv, process
  <2>2. CASE at' = Idle
    BY <1>1, <1>3, <2>2, AtIdle DEF LoopInv, DownInv
  <2>3. QED
    BY <1>2, <2>1, <2>2
<1>10. ASSUME NEW q \in Runs \ {r} PROVE RunInv(q)'
  <2>1. LifeKept(q) /\ ~InHand(q)
    BY <1>1 DEF LifeKept, InHand, life, process
  <2>2. QED
    BY <1>1, <1>6, <1>7, <2>1, RunKept DEF PInv, life, process
<1>11. RunInv(r)'
  <2>1. Settled(r)' /\ row'[r] \notin Terminal
    BY <1>4, <1>5, <1>6 DEF Settled
  <2>2. r \notin unsaved' => InHand(r)' /\ row'[r] = open'[r]
    BY <1>2, <1>6 DEF InHand, Unsaved
  <2>3. label'[r] # NoLabel
    BY <1>7
  <2>4. QED
    BY <2>1, <2>2, <2>3 DEF RunInv
<1>12. ASSUME NEW k \in Labels PROVE SlotInv(k)'
  <2>1. CASE k = l
    <3>1. ASSUME l \notin overlapped', NEW q \in watched, label[q] = l, q \notin known
          PROVE  FALSE
      <4>1. active[l] = NoRun
        BY <1>1, <3>1 DEF Blocked
      <4>2. active[l] = q /\ q \in Runs
        BY <1>1, <3>1 DEF PInv, SlotInv, TypeOK
      <4>3. QED
        BY <4>1, <4>2 DEF Runs, NoRun
    <3>2. QED
      BY <1>1, <1>4, <1>7, <2>1, <3>1 DEF SlotInv, life, process, PInv, TypeOK
  <2>2. CASE k # l
    <3>1. active'[k] = active[k]
      BY <1>2, <2>2 DEF PInv, TypeOK
    <3>2. QED
      BY <1>1, <1>4, <1>7, <2>2, <3>1, SlotKept DEF PInv, TypeOK, life, process
  <2>3. QED
    BY <2>1, <2>2
<1>13. QED
  BY <1>8, <1>9, <1>10, <1>11, <1>12 DEF PInv

\* The run in hand, and what Launch does to the others.
LEMMA HandIs ==
  ASSUME PInv, NEW r \in Runs, at.pc \in {"spawn", "record", "fail"}, at.run = r
  PROVE  /\ phase = "up" /\ at \in AtSet
         /\ at.label \in Labels /\ label[r] = at.label
         /\ row[r] = "running" /\ open[r] = "running"
         /\ at.pc = "spawn" => active[at.label] = r
         /\ at.pc \in {"spawn", "fail"} => r \notin watched
         /\ at.pc = "record" => r \in watched \ told
         /\ \A q \in Runs : InHand(q) <=> q = r
BY DEF PInv, LoopInv, TypeOK, AtSet, InHand

LEMMA Launched ==
  ASSUME PInv, NEW r \in Runs, Life!Launch(r)
  PROVE  /\ Life!LifeTypeOK' /\ known' = known /\ told' = told
         /\ r \notin known
         /\ \A q \in known : child'[q] = child[q]
BY DEF PInv, TypeOK, Life!Launch, Life!LifeTypeOK, Life!Verdicts

LEMMA SpawnPInv ==
  ASSUME PInv, NEW r \in Runs, Spawn(r) PROVE PInv'
<1>1. /\ at.pc = "spawn" /\ at.run = r /\ Life!Launch(r)
      /\ mine' = mine \cup {r} /\ watched' = watched \cup {r}
      /\ at' = [at EXCEPT !.pc = "record"]
      /\ UNCHANGED <<zero, shadowed, jobs, store, slots, declared, phase>>
  BY DEF Spawn
<1>2. /\ phase = "up" /\ at \in AtSet /\ at.label \in Labels /\ label[r] = at.label
      /\ row[r] = "running" /\ open[r] = "running"
      /\ active[at.label] = r /\ r \notin watched
      /\ \A q \in Runs : InHand(q) <=> q = r
  BY <1>1, HandIs
<1>3. at' \in AtSet /\ at'.pc = "record" /\ at'.label = at.label /\ at'.run = r
  BY <1>1, <1>2, AtPc
<1>4. /\ Life!LifeTypeOK' /\ known' = known /\ told' = told /\ r \notin known
      /\ \A q \in known : child'[q] = child[q]
  BY <1>1, Launched
<1>5. TypeOK'
  BY <1>1, <1>3, <1>4 DEF PInv, TypeOK, jobs, store, slots, AtSet
<1>6. r \notin told
  BY <1>4 DEF PInv, TypeOK, Life!LifeTypeOK
<1>7. LoopInv' /\ DownInv'
  BY <1>1, <1>2, <1>3, <1>4, <1>6 DEF LoopInv, DownInv, jobs, store, slots
<1>8. ASSUME NEW q \in Runs \ {r} PROVE RunInv(q)'
  <2>1. Old(q) /\ LifeKept(q) /\ ~InHand(q)
    BY <1>1, <1>2, <1>4 DEF Old, LifeKept, store
  <2>2. QED
    BY <1>1, <1>4, <2>1, RunKept DEF PInv, jobs, store
<1>9. RunInv(r)'
  <2>1. InHand(r)'
    BY <1>3 DEF InHand
  <2>2. row'[r] = "running" /\ open'[r] = "running" /\ label'[r] # NoLabel
    BY <1>1, <1>2, PeriodicAssumption DEF store, jobs
  <2>3. QED
    BY <2>1, <2>2 DEF RunInv, Settled, Terminal
<1>10. ASSUME NEW l \in Labels PROVE SlotInv(l)'
  BY <1>1, <1>2, <1>4 DEF PInv, SlotInv, jobs, slots
<1>11. QED
  BY <1>5, <1>7, <1>8, <1>9, <1>10 DEF PInv

LEMMA SpawnFailsPInv ==
  ASSUME PInv, NEW r \in Runs, SpawnFails(r) PROVE PInv'
<1>1. /\ at.pc = "spawn" /\ at.run = r
      /\ UNCHANGED <<life, mine>> \/ (Life!Launch(r) /\ mine' = mine \cup {r})
      /\ active' = Freed(r)
      /\ at' = [at EXCEPT !.pc = "fail"]
      /\ UNCHANGED <<zero, shadowed, watched, jobs, store, named, declared, phase>>
  BY DEF SpawnFails
<1>2. /\ phase = "up" /\ at \in AtSet /\ at.label \in Labels /\ label[r] = at.label
      /\ row[r] = "running" /\ open[r] = "running"
      /\ active[at.label] = r /\ r \notin watched
      /\ \A q \in Runs : InHand(q) <=> q = r
  BY <1>1, HandIs
<1>3. at' \in AtSet /\ at'.pc = "fail" /\ at'.label = at.label /\ at'.run = r
  BY <1>1, <1>2, AtPc
<1>4. /\ Life!LifeTypeOK' /\ known' = known /\ told' = told
      /\ \A q \in known : child'[q] = child[q]
  <2>1. CASE UNCHANGED <<life, mine>>
    BY <2>1 DEF life, PInv, TypeOK, Life!LifeTypeOK
  <2>2. CASE Life!Launch(r)
    BY <2>2, Launched
  <2>3. QED
    BY <1>1, <2>1, <2>2
<1>5. TypeOK'
  <2>1. active' \in [Labels -> Runs \cup {NoRun}]
    BY <1>1 DEF PInv, TypeOK, Freed
  <2>2. QED
    BY <1>1, <1>3, <1>4, <2>1 DEF PInv, TypeOK, jobs, store, AtSet
<1>6. LoopInv' /\ DownInv'
  BY <1>1, <1>2, <1>3 DEF LoopInv, DownInv, jobs, store
<1>7. ASSUME NEW q \in Runs \ {r} PROVE RunInv(q)'
  <2>1. Old(q) /\ LifeKept(q) /\ ~InHand(q)
    BY <1>1, <1>2, <1>4 DEF Old, LifeKept, store
  <2>2. QED
    BY <1>1, <1>4, <2>1, RunKept DEF PInv, jobs, store
<1>8. RunInv(r)'
  <2>1. InHand(r)'
    BY <1>3 DEF InHand
  <2>2. row'[r] = "running" /\ open'[r] = "running" /\ label'[r] # NoLabel
    BY <1>1, <1>2, PeriodicAssumption DEF store, jobs
  <2>3. QED
    BY <2>1, <2>2 DEF RunInv, Settled, Terminal
<1>9. ASSUME NEW l \in Labels PROVE SlotInv(l)'
  <2>1. ASSUME NEW q \in watched, active[l] = q PROVE active'[l] = q
    BY <1>1, <1>2, <2>1 DEF Freed, PInv, TypeOK
  <2>2. QED
    BY <1>1, <1>4, <2>1, SlotKept DEF PInv, jobs
<1>10. QED
  BY <1>5, <1>6, <1>7, <1>8, <1>9 DEF PInv

\* The two last writes of a start.
LEMMA LastWritePInv ==
  ASSUME PInv, NEW r \in Runs, SpawnFailureNoted(r) \/ Record(r) PROVE PInv'
<1> DEFINE Which(p, s) == at.pc = p /\ (Saved(r, s) \/ Unsaved(r, s))
<1>1. /\ at.run = r /\ at' = Idle
      /\ \/ Which("fail", "failed") /\ named' = named
         \/ Which("record", "running") /\ named' = named \cup {r}
      /\ UNCHANGED <<life, process, jobs, active, declared, phase>>
  BY DEF SpawnFailureNoted, Record, slots
<1>2. PICK s \in {"running", "failed"} :
        /\ s = "running" <=> at.pc = "record"
        /\ s = "failed" <=> at.pc = "fail"
        /\ Saved(r, s) \/ Unsaved(r, s)
  BY <1>1
<1>3. /\ phase = "up" /\ label[r] \in Labels
      /\ row[r] = "running" /\ open[r] = "running"
      /\ s = "failed" => r \notin watched
      /\ s = "running" => r \in watched \ told
      /\ \A q \in Runs : InHand(q) <=> q = r
  BY <1>1, <1>2, HandIs
<1>4. /\ row' \in [Runs -> Statuses] /\ open' \in [Runs -> Statuses]
      /\ unsaved' \subseteq Runs
      /\ \A q \in Runs \ {r} : Old(q) /\ (q \in unsaved' <=> q \in unsaved)
      /\ \/ row'[r] = s /\ open'[r] = s /\ unsaved' = unsaved
         \/ row'[r] = row[r] /\ open'[r] \in {open[r], s, row[r]} /\ r \in unsaved'
  BY <1>2, Wrote DEF PInv, Statuses, Terminal
<1>5. TypeOK'
  <2>1. named' \subseteq watched
    BY <1>1, <1>2, <1>3 DEF PInv, TypeOK
  <2>2. Life!LifeTypeOK'
    BY <1>1 DEF PInv, TypeOK, life, Life!LifeTypeOK
  <2>3. QED
    BY <1>1, <1>4, <2>1, <2>2, AtIdle DEF PInv, TypeOK, process, jobs, AtSet, Statuses
<1>6. LoopInv' /\ DownInv'
  BY <1>1, <1>3, AtIdle DEF LoopInv, DownInv
<1>7. ASSUME NEW q \in Runs \ {r} PROVE RunInv(q)'
  <2>1. LifeKept(q) /\ ~InHand(q)
    BY <1>1, <1>3 DEF LifeKept, life, process
  <2>2. QED
    BY <1>1, <1>4, <2>1, RunKept DEF PInv, life, process, jobs
<1>8. RunInv(r)'
  <2>1. "running" \notin Terminal
    BY DEF Terminal
  <2>2. Settled(r)'
    BY <1>1, <1>3, <1>4, <2>1 DEF Settled, process
  <2>3. label'[r] # NoLabel /\ (row'[r] \in Terminal => open'[r] = row'[r])
    BY <1>1, <1>3, <1>4, <2>1, PeriodicAssumption DEF jobs
  <2>4. r \notin unsaved' => open'[r] = row'[r] /\ (row'[r] = "running" => r \in watched' \ told')
    BY <1>1, <1>3, <1>4 DEF life, process
  <2>5. QED
    BY <2>2, <2>3, <2>4 DEF RunInv
<1>9. ASSUME NEW l \in Labels PROVE SlotInv(l)'
  BY <1>1, SlotKept DEF PInv, life, process, jobs
<1>10. QED
  BY <1>5, <1>6, <1>7, <1>8, <1>9 DEF PInv

\* Steps of children, of their watcher threads and of callers that stop them.
LEMMA ProcessPInv ==
  ASSUME PInv, NEW r \in Runs,
         StopProcess(r) \/ StopAll(r) \/ Ends(r) \/ Judge(r) \/ Publish(r) \/ Shadow(r)
  PROVE  PInv'
<1>1. /\ UNCHANGED <<mine, watched, jobs, store, slots, declared, phase, at>>
      /\ shadowed' \subseteq shadowed \cup {r} /\ r \in mine
  BY DEF StopProcess, StopAll, Ends, Judge, Publish, Shadow, process, PInv, TypeOK
<1>2. /\ told' = told /\ Life!LifeTypeOK' /\ zero' \subseteq Runs
      /\ known \subseteq known'
      /\ \A q \in known : child'[q] = child[q] /\ (q \in zero' <=> q \in zero)
  <2>1. CASE StopProcess(r) \/ StopAll(r)
    BY <2>1 DEF StopProcess, StopAll, Life!RequestStop, process, PInv, TypeOK, Life!LifeTypeOK
  <2>2. CASE Ends(r)
    BY <2>2 DEF Ends, Life!Die, PInv, TypeOK, Life!LifeTypeOK, Life!Verdicts
  <2>3. CASE Judge(r)
    BY <2>3 DEF Judge, Life!Judge, process, PInv, TypeOK, Life!LifeTypeOK, Life!Verdicts
  <2>4. CASE Publish(r)
    BY <2>4 DEF Publish, Life!Publish, PInv, TypeOK, Life!LifeTypeOK, Life!Verdicts
  <2>5. CASE Shadow(r)
    BY <2>5 DEF Shadow, life, PInv, TypeOK, Life!LifeTypeOK
  <2>6. QED
    BY <2>1, <2>2, <2>3, <2>4, <2>5
<1>3. TypeOK'
  BY <1>1, <1>2 DEF PInv, TypeOK, jobs, store, slots
<1>4. LoopInv' /\ DownInv'
  BY <1>1, <1>2 DEF PInv, LoopInv, DownInv, jobs, store, slots
<1>5. ASSUME NEW q \in Runs PROVE RunInv(q)'
  <2>1. Old(q) /\ LifeKept(q) /\ (InHand(q) => InHand(q)')
    BY <1>1, <1>2 DEF Old, LifeKept, InHand, store
  <2>2. QED
    BY <1>1, <1>2, <2>1, RunKept DEF PInv, jobs, store
<1>6. ASSUME NEW l \in Labels PROVE SlotInv(l)'
  BY <1>1, <1>2, SlotKept DEF PInv, jobs, slots
<1>7. QED
  BY <1>3, <1>4, <1>5, <1>6 DEF PInv

LEMMA BootPInv == ASSUME PInv, Boot PROVE PInv'
<1> USE PeriodicAssumption
<1>1. /\ phase = "down" /\ phase' = "up"
      /\ row' = [r \in Runs |-> Stale(row[r])] /\ open' = row'
      /\ declared' \in [Labels -> Declaration]
      /\ UNCHANGED <<life, process, jobs, unsaved, slots, at>>
  BY DEF Boot
<1>2. mine = {} /\ watched = {} /\ at.pc = "idle"
  BY <1>1 DEF PInv, TypeOK, DownInv, LoopInv
<1>3. TypeOK'
  BY <1>1 DEF PInv, TypeOK, life, process, jobs, slots, Life!LifeTypeOK, Stale, Terminal
<1>4. LoopInv' /\ DownInv'
  BY <1>1, <1>2 DEF LoopInv, DownInv
<1>5. ASSUME NEW r \in Runs PROVE RunInv(r)'
  BY <1>1, <1>2 DEF PInv, RunInv, Settled, Stale, Terminal, life, process, jobs
<1>6. ASSUME NEW l \in Labels PROVE SlotInv(l)'
  BY <1>1, <1>2 DEF SlotInv, process
<1>7. QED
  BY <1>3, <1>4, <1>5, <1>6 DEF PInv

LEMMA HaltPInv == ASSUME PInv, Halt PROVE PInv'
<1> USE PeriodicAssumption
<1>1. /\ phase' = "down" /\ open' = row /\ active' = [l \in Labels |-> NoRun]
      /\ mine' = {} /\ watched' = {} /\ shadowed' = {} /\ named' = {} /\ at' = Idle
      /\ UNCHANGED <<life, zero, jobs, row, unsaved, declared>>
  BY DEF Halt
<1>2. TypeOK'
  BY <1>1, AtIdle DEF PInv, TypeOK, life, jobs, Life!LifeTypeOK, AtSet
<1>3. LoopInv' /\ DownInv'
  BY <1>1, AtIdle DEF LoopInv, DownInv
<1>4. ASSUME NEW r \in Runs PROVE RunInv(r)'
  <2>1. Old(r) /\ LifeKept(r)
    BY <1>1 DEF Old, LifeKept, life
  <2>2. QED
    BY <1>1, <2>1, RunKept DEF PInv, jobs
<1>5. ASSUME NEW l \in Labels PROVE SlotInv(l)'
  BY <1>1 DEF SlotInv
<1>6. QED
  BY <1>2, <1>3, <1>4, <1>5 DEF PInv

LEMMA NextPInv ==
  ASSUME PInv, [Next]_vars PROVE PInv'
<1>1. ASSUME NEW l \in Labels, Fire(l) \/ StartRun(l) PROVE PInv'
  BY <1>1, LoopQuietPInv, MarkingPInv, InsertPInv DEF StartRun
<1>2. ASSUME NEW r \in Runs, Launching(r) \/ Process(r) PROVE PInv'
  BY <1>2, SpawnPInv, SpawnFailsPInv, LastWritePInv, ProcessPInv, MarkingPInv
  DEF Launching, Process
<1>3. ASSUME Reload \/ Boot \/ Crash \/ Shutdown \/ Exit \/ OthersWrite PROVE PInv'
  BY <1>3, LoopQuietPInv, BootPInv, HaltPInv DEF Crash, Exit
<1>4. ASSUME UNCHANGED vars PROVE PInv'
  BY <1>4 DEF vars, life, process, jobs, store, slots, PInv, TypeOK, LoopInv, DownInv, RunInv,
              SlotInv, Settled, InHand, Outcome, Life!LifeTypeOK
<1>5. QED
  BY <1>1, <1>2, <1>3, <1>4 DEF Next

-----------------------------------------------------------------------------
(* Theorems.                                                               *)

\* The invariant of the periodic jobs: which rows are settled, which run is in
\* hand, and who holds the slot of a job.
THEOREM PeriodicInvariant == Spec => []PInv
<1>1. PInv /\ [Next]_vars => PInv'
  BY NextPInv
<1>2. QED
  BY InitPInv, <1>1, PTL DEF Spec

\* Rows, slots and the process table stay what they are meant to be.
THEOREM PeriodicTypes == Spec => []TypeOK
<1>1. PInv => TypeOK
  BY DEF PInv
<1>2. QED
  BY PeriodicInvariant, <1>1, PTL

\* A completed run is one whose process exited with code 0.
THEOREM CompletedRunsExitedZero == Spec => []CompletedMeansExitedZero
<1>1. PInv => CompletedMeansExitedZero
  BY DEF PInv, CompletedMeansExitedZero, RunInv, Settled, Terminal
<1>2. QED
  BY PeriodicInvariant, <1>1, PTL

\* A run listed as running is waited for, if all its writes succeeded.
THEOREM RunningRunsAreWatched == Spec => []HistoryIsCurrent
<1>1. PInv => HistoryIsCurrent
  BY DEF PInv, HistoryIsCurrent, RunInv, InHand
<1>2. QED
  BY PeriodicInvariant, <1>1, PTL

\* Only the run a step writes, a boot and an insertion touch more than what a
\* transaction had in it.
LEMMA RowSteps ==
  ASSUME PInv, Next, NEW r \in Runs
  PROVE  \/ Old(r)
         \/ (Marked(r) \/ NotMarked(r)) /\ r \in watched
         \/ row[r] \notin Terminal
         \/ row'[r] = Stale(row[r])
<1> USE DEF Old
<1>1. ASSUME NEW l \in Labels, Fire(l) \/ NothingToReconcile(l) PROVE Old(r)
  BY <1>1 DEF Fire, NothingToReconcile, store
<1>2. ASSUME NEW l \in Labels, Skip(l) PROVE Old(r)
  BY <1>2, Swept DEF Skip, PInv
<1>3. ASSUME NEW q \in Runs, Marked(q) \/ NotMarked(q), q # r PROVE Old(r)
  <2>1. Outcome(q) \in Statuses
    BY OutcomeIs DEF Statuses
  <2>2. QED
    BY <1>3, <2>1, Wrote DEF Marked, NotMarked, PInv
<1>4. ASSUME NEW l \in Labels, Reconcile(l) \/ ReconcileFails(l)
      PROVE  Old(r) \/ ((Marked(r) \/ NotMarked(r)) /\ r \in watched)
  <2>1. PICK q \in Runs : q = active[l]
    BY <1>4 DEF Reconcile, ReconcileFails, PInv, TypeOK
  <2>2. (Marked(q) \/ NotMarked(q)) /\ q \in watched
    BY <1>4, <2>1 DEF Reconcile, ReconcileFails, Reconcilable, PInv, TypeOK
  <2>3. QED
    BY <1>3, <2>2
<1>5. ASSUME NEW l \in Labels, NEW q \in Runs, Insert(l, q) PROVE Old(r) \/ row[r] \notin Terminal
  <2>1. Saved(q, "running") \/ Unsaved(q, "running")
    BY <1>5 DEF Insert
  <2>2. CASE q # r
    BY <2>1, <2>2, Wrote DEF PInv, Statuses
  <2>3. CASE q = r
    BY <1>5, <2>3 DEF Insert, Fresh, PInv, RunInv, Terminal
  <2>4. QED
    BY <2>2, <2>3
<1>6. ASSUME NEW q \in Runs, Spawn(q) \/ SpawnFails(q) PROVE Old(r)
  BY <1>6 DEF Spawn, SpawnFails, store
<1>7. ASSUME NEW q \in Runs, SpawnFailureNoted(q) \/ Record(q)
      PROVE  Old(r) \/ row[r] \notin Terminal
  <2>1. PICK s \in {"running", "failed"} : Saved(q, s) \/ Unsaved(q, s)
    BY <1>7 DEF SpawnFailureNoted, Record
  <2>2. CASE q # r
    BY <2>1, <2>2, Wrote DEF PInv, Statuses, Terminal
  <2>3. CASE q = r
    BY <1>7, <2>3, HandIs DEF SpawnFailureNoted, Record, Terminal
  <2>4. QED
    BY <2>2, <2>3
<1>8. ASSUME NEW q \in Runs, Process(q)
      PROVE  Old(r) \/ ((Marked(r) \/ NotMarked(r)) /\ r \in watched)
  <2>1. CASE Deliver(q)
    BY <1>3, <2>1 DEF Deliver
  <2>2. CASE StopProcess(q) \/ StopAll(q) \/ Ends(q) \/ Judge(q) \/ Publish(q) \/ Shadow(q)
    BY <2>2 DEF StopProcess, StopAll, Ends, Judge, Publish, Shadow, store
  <2>3. QED
    BY <1>8, <2>1, <2>2 DEF Process
<1>9. ASSUME Reload \/ Crash \/ Shutdown \/ Exit PROVE Old(r)
  BY <1>9 DEF Reload, Crash, Shutdown, Exit, Halt, store
<1>10. ASSUME OthersWrite PROVE Old(r)
  BY <1>10, Swept DEF OthersWrite, PInv
<1>11. ASSUME Boot PROVE row'[r] = Stale(row[r])
  BY <1>11 DEF Boot
<1>12. QED
  BY <1>1, <1>2, <1>4, <1>5, <1>6, <1>7, <1>8, <1>9, <1>10, <1>11 DEF Next, StartRun, Launching

\* What the history says of a run that is over is never changed.
THEOREM TerminalRowsAreFinal == Spec => TerminalRowFinal
<1>1. ASSUME PInv, [Next]_vars, NEW r \in Runs, row[r] \in Terminal PROVE row'[r] = row[r]
  <2>1. open[r] = row[r] /\ Settled(r) /\ row[r] \in Statuses
    BY <1>1 DEF PInv, RunInv, Statuses
  <2>2. CASE Old(r)
    BY <2>1, <2>2 DEF Old
  <2>3. CASE (Marked(r) \/ NotMarked(r)) /\ r \in watched
    <3>1. row[r] = Outcome(r)
      BY <1>1, <2>1, <2>3 DEF Settled
    <3>2. row'[r] \in {Outcome(r), row[r]}
      BY <1>1, <2>3 DEF Marked, NotMarked, Saved, Unsaved, PInv, TypeOK
    <3>3. QED
      BY <3>1, <3>2
  <2>4. CASE row'[r] = Stale(row[r])
    BY <1>1, <2>4 DEF Stale, Terminal
  <2>5. CASE UNCHANGED vars
    BY <2>5 DEF vars, store
  <2>6. QED
    BY <1>1, <2>2, <2>3, <2>4, <2>5, RowSteps
<1>2. PInv /\ [Next]_vars =>
        [\A r \in Runs : row[r] \in Terminal => row'[r] = row[r]]_vars
  BY <1>1
<1>3. QED
  BY PeriodicInvariant, <1>2, PTL DEF Spec, TerminalRowFinal

\* Under overlap_policy skip one child of a job is started at a time, unless the job
\* was declared otherwise before.
THEOREM SkippedJobsNeverOverlap == Spec => SkipNeverOverlaps
<1>1. ASSUME PInv, [Next]_vars, NEW r \in Runs, Overlaps(r) PROVE label[r] \in overlapped
  <2>1. child[r] = "absent" /\ child'[r] = "live" /\ LiveOf(label[r]) # {}
    BY <1>1 DEF Overlaps
  <2>2. ASSUME NEW q \in Runs, Life!Launch(q) PROVE q = r
    BY <1>1, <2>1, <2>2 DEF Life!Launch, PInv, TypeOK, Life!LifeTypeOK
  <2>3. Spawn(r) \/ SpawnFails(r)
    <3>1. ASSUME NEW l \in Labels, Fire(l) \/ StartRun(l) PROVE child' = child
      BY <3>1 DEF Fire, StartRun, Reconcile, ReconcileFails, NothingToReconcile, Skip, Insert, life
    <3>2. ASSUME NEW q \in Runs, Spawn(q) PROVE q = r
      BY <2>2, <3>2 DEF Spawn
    <3>3. ASSUME NEW q \in Runs, SpawnFails(q) PROVE q = r
      <4>1. child' # child
        BY <2>1
      <4>2. Life!Launch(q)
        BY <3>3, <4>1 DEF SpawnFails, life
      <4>3. QED
        BY <2>2, <4>2
    <3>4. ASSUME NEW q \in Runs, SpawnFailureNoted(q) \/ Record(q) PROVE child' = child
      BY <3>4 DEF SpawnFailureNoted, Record, life
    <3>5. ASSUME NEW q \in Runs, Process(q) PROVE child'[r] # "live"
      BY <1>1, <2>1, <3>5 DEF Process, StopProcess, StopAll, Ends, Judge, Publish, Shadow, Deliver,
        Life!RequestStop, Life!Die, Life!Judge, Life!Publish, Life!Tell, Life!Verdicts, life,
        PInv, TypeOK, Life!LifeTypeOK
    <3>6. ASSUME Reload \/ Boot \/ Crash \/ Shutdown \/ Exit \/ OthersWrite \/ UNCHANGED vars
          PROVE  child' = child
      BY <3>6 DEF Reload, Boot, Crash, Shutdown, Exit, OthersWrite, Halt, vars, life
    <3>7. QED
      BY <1>1, <2>1, <3>1, <3>2, <3>3, <3>4, <3>5, <3>6 DEF Next, Launching
  <2>4. at.pc = "spawn" /\ at.run = r
    BY <2>3 DEF Spawn, SpawnFails
  <2>5. label[r] \in Labels /\ active[label[r]] = r /\ r \notin watched
    BY <1>1, <2>4, HandIs
  <2>6. PICK q \in watched : label[q] = label[r] /\ child[q] = "live"
    BY <2>1 DEF LiveOf
  <2>7. q \notin known
    BY <1>1, <2>6 DEF PInv, TypeOK, Life!LifeTypeOK, Life!Verdicts
  <2>8. label[r] \notin overlapped => active[label[r]] = q
    BY <1>1, <2>5, <2>6, <2>7 DEF PInv, SlotInv
  <2>9. QED
    BY <2>5, <2>6, <2>8
<1>2. PInv /\ [Next]_vars => [\A r \in Runs : Overlaps(r) => label[r] \in overlapped]_vars
  BY <1>1
<1>3. QED
  BY PeriodicInvariant, <1>2, PTL DEF Spec, SkipNeverOverlaps

\* The periodic jobs use their children only in the ways ProcessManager was shown to
\* allow (ImplementsLifecycle): a crash or a reload of the launcher, a reconciliation
\* and a late callback included.
THEOREM PeriodicUsesLifecycle == Spec => Life!Spec
<1>1. Init => Life!LifeInit
  BY DEF Init
<1>2. [Next]_vars => [Life!LifeNext]_(Life!lifeVars)
  <2> SUFFICES ASSUME [Next]_vars
               PROVE  Life!LifeNext \/ UNCHANGED life
    BY DEF life, Life!lifeVars
  <2>1. ASSUME NEW l \in Labels, Fire(l) \/ StartRun(l)
        PROVE  UNCHANGED life
    BY <2>1 DEF Fire, StartRun, Reconcile, ReconcileFails, NothingToReconcile, Skip, Insert
  <2>2. ASSUME NEW r \in Runs, Launching(r)
        PROVE  Life!LifeNext \/ UNCHANGED life
    BY <2>2 DEF Launching, Spawn, SpawnFails, SpawnFailureNoted, Record, Life!LifeNext
  <2>3. ASSUME NEW r \in Runs, Process(r)
        PROVE  Life!LifeNext \/ UNCHANGED life
    BY <2>3 DEF Process, StopProcess, StopAll, Ends, Judge, Publish, Shadow, Deliver, Life!LifeNext
  <2>4. CASE Reload \/ Boot \/ Crash \/ Shutdown \/ Exit \/ OthersWrite \/ UNCHANGED vars
    BY <2>4 DEF Reload, Boot, Crash, Halt, Shutdown, Exit, OthersWrite, vars
  <2>. QED  BY <2>1, <2>2, <2>3, <2>4 DEF Next
<1>. QED  BY <1>1, <1>2, PTL DEF Spec, Life!Spec

=============================================================================
