--------------------------- MODULE SchemaMigration ---------------------------
(***************************************************************************)
(* Opening the database: SQLiteStore.__init__ and migrate                  *)
(* (src/process_launcher/storage.py), by several launchers on one file,    *)
(* statement by statement.                                                 *)
(*                                                                         *)
(* Python's sqlite3 opens a transaction before an INSERT but not before a  *)
(* CREATE or an ALTER: outside a transaction each of these is committed by *)
(* itself.  In WAL mode one connection at a time may write and readers see *)
(* what is committed.  A launcher that fails gives its connection up, and  *)
(* with it an open transaction.                                            *)
(***************************************************************************)
EXTENDS Integers, Sequences

CONSTANTS
  Launchers,
  NoLauncher,
  Files,          \* versions recorded in the file that is found
  MaxFaults       \* bound on crashes and on statements that raise by bad luck

Versions == 1 .. 3                    \* SCHEMA_VERSION

\* What each migration makes.
Parts(v) ==
  CASE v = 1 -> {"scheduled_jobs", "idx_status_run_at"}
    [] v = 2 -> {"periodic_runs", "idx_label_scheduled_for", "idx_status"}
    [] v = 3 -> {"scheduled_jobs.diagnose", "periodic_runs.diagnose"}

\* migrate's statements.
Statements ==
  <<"schema_migrations", "select",
    "scheduled_jobs", "idx_status_run_at", "record", "commit",
    "periodic_runs", "idx_label_scheduled_for", "idx_status", "record", "commit",
    "begin", "recheck", "scheduled_jobs.diagnose", "periodic_runs.diagnose", "record", "commit">>

Off == 0
Up == 18
Lines == Off .. Up

\* The migration line i belongs to.
Migration(i) == IF i <= 6 THEN 1 ELSE IF i <= 11 THEN 2 ELSE 3

\* Where the first migration from v on that is not in applied begins.
Entry(v, applied) ==
  IF v <= 1 /\ 1 \notin applied THEN 3
  ELSE IF v <= 2 /\ 2 \notin applied THEN 7
  ELSE IF v <= 3 /\ 3 \notin applied THEN 12
  ELSE Up

Database == [made : SUBSET ({"schema_migrations"} \cup UNION {Parts(v) : v \in Versions}),
             versions : SUBSET Versions]

\* A file a launcher of some version has left.
FileWith(versions) ==
  [made |-> (UNION {Parts(v) : v \in versions}) \cup
              IF versions = {} THEN {} ELSE {"schema_migrations"},
   versions |-> versions]

ASSUME SchemaAssumption ==
  /\ NoLauncher \notin Launchers
  /\ Files \subseteq {{}, {1}, {1, 2}, {1, 2, 3}}
  /\ MaxFaults \in Nat

VARIABLES
  db,         \* the file, as committed
  draft,      \* the same as the open transaction has it
  lock,       \* the launcher with an open write transaction
  pc,         \* [Launchers]: the line each is at
  applied,    \* [Launchers]: what it has read
  faults      \* faults so far

vars == <<db, draft, lock, pc, applied, faults>>

TypeOK ==
  /\ db \in Database /\ draft \in Database
  /\ lock \in Launchers \cup {NoLauncher}
  /\ pc \in [Launchers -> Lines]
  /\ applied \in [Launchers -> SUBSET Versions]
  /\ faults \in 0 .. MaxFaults

Init ==
  /\ \E versions \in Files : db = FileWith(versions)
  /\ draft = db
  /\ lock = NoLauncher
  /\ pc = [l \in Launchers |-> Off]
  /\ applied = [l \in Launchers |-> {}]
  /\ faults = 0

-----------------------------------------------------------------------------
(* Statements.                                                             *)

At(l, statements) == pc[l] \in 1 .. Up - 1 /\ Statements[pc[l]] \in statements

Goto(l, i) == pc' = [pc EXCEPT ![l] = i]

\* The connection is given up.
Down(l) ==
  /\ Goto(l, Off)
  /\ applied' = [applied EXCEPT ![l] = {}]
  /\ IF lock = l THEN lock' = NoLauncher /\ draft' = db ELSE UNCHANGED <<lock, draft>>
  /\ UNCHANGED db

Open(l) ==
  /\ pc[l] = Off
  /\ Goto(l, 1)
  /\ UNCHANGED <<db, draft, lock, applied, faults>>

\* CREATE TABLE IF NOT EXISTS
CreateLog(l) ==
  /\ At(l, {"schema_migrations"})
  /\ lock = NoLauncher \/ "schema_migrations" \in db.made
  /\ db' = [db EXCEPT !.made = @ \cup {"schema_migrations"}]
  /\ draft' = IF lock = NoLauncher THEN db' ELSE draft
  /\ Goto(l, pc[l] + 1)
  /\ UNCHANGED <<lock, applied, faults>>

Select(l) ==
  /\ At(l, {"select"})
  /\ applied' = [applied EXCEPT ![l] = db.versions]
  /\ Goto(l, Entry(1, db.versions))
  /\ UNCHANGED <<db, draft, lock, faults>>

\* Mutant: CREATE TABLE IF NOT EXISTS
Create_ifNotExists(l) ==
  /\ At(l, Parts(1) \cup Parts(2))
  /\ lock = NoLauncher
  /\ db' = [db EXCEPT !.made = @ \cup {Statements[pc[l]]}] /\ draft' = db'
  /\ Goto(l, pc[l] + 1)
  /\ UNCHANGED <<lock, applied, faults>>

\* A CREATE of migrations 1 and 2, which raises if somebody else was faster or
\* an earlier start got no further.
Create(l) ==
  /\ At(l, Parts(1) \cup Parts(2))
  /\ LET part == Statements[pc[l]] IN
     IF part \in db.made
       THEN Down(l)
       ELSE /\ lock = NoLauncher
            /\ db' = [db EXCEPT !.made = @ \cup {part}] /\ draft' = db'
            /\ Goto(l, pc[l] + 1)
            /\ UNCHANGED <<lock, applied>>
  /\ UNCHANGED faults

\* The INSERT opens a transaction if there is none.
Record(l) ==
  /\ At(l, {"record"})
  /\ lock \in {l, NoLauncher} /\ lock' = l
  /\ draft' = [draft EXCEPT !.versions = @ \cup {Migration(pc[l])}]
  /\ Goto(l, pc[l] + 1)
  /\ UNCHANGED <<db, applied, faults>>

Commit(l) ==
  /\ At(l, {"commit"})
  /\ db' = draft
  /\ lock' = NoLauncher
  /\ Goto(l, Entry(Migration(pc[l]) + 1, applied[l]))
  /\ UNCHANGED <<draft, applied, faults>>

\* BEGIN IMMEDIATE
Begin(l) ==
  /\ At(l, {"begin"})
  /\ lock = NoLauncher /\ lock' = l
  /\ Goto(l, pc[l] + 1)
  /\ UNCHANGED <<db, draft, applied, faults>>

\* Mutant: what was read before the transaction counts.
Recheck_stale(l) ==
  /\ At(l, {"recheck"})
  /\ Goto(l, IF 3 \in applied[l] THEN pc[l] + 4 ELSE pc[l] + 1)
  /\ UNCHANGED <<db, draft, lock, applied, faults>>

\* Mutant: nothing to do, and the transaction left open.
Recheck_return(l) ==
  /\ At(l, {"recheck"})
  /\ Goto(l, IF 3 \in draft.versions THEN Up ELSE pc[l] + 1)
  /\ UNCHANGED <<db, draft, lock, applied, faults>>

\* SELECT 1 FROM schema_migrations WHERE version=3, in the transaction.
Recheck(l) ==
  /\ At(l, {"recheck"})
  /\ Goto(l, IF 3 \in draft.versions THEN pc[l] + 4 ELSE pc[l] + 1)
  /\ UNCHANGED <<db, draft, lock, applied, faults>>

\* Mutant: an ALTER is committed by itself.
Alter_autocommit(l) ==
  /\ At(l, Parts(3))
  /\ db' = [db EXCEPT !.made = @ \cup {Statements[pc[l]]}] /\ draft' = db'
  /\ Goto(l, pc[l] + 1)
  /\ UNCHANGED <<lock, applied, faults>>

\* An ALTER raises if the column is there.
Alter(l) ==
  /\ At(l, Parts(3))
  /\ LET part == Statements[pc[l]] IN
     IF part \in draft.made
       THEN Down(l)
       ELSE /\ draft' = [draft EXCEPT !.made = @ \cup {part}]
            /\ Goto(l, pc[l] + 1)
            /\ UNCHANGED <<db, lock, applied>>
  /\ UNCHANGED faults

\* A crash, a full disk, or a lock that is not released in time.
Fault(l) ==
  /\ pc[l] # Off
  /\ faults < MaxFaults /\ faults' = faults + 1
  /\ Down(l)

Close(l) ==
  /\ pc[l] = Up
  /\ Down(l)
  /\ UNCHANGED faults

-----------------------------------------------------------------------------

Step(l) ==
  \/ Open(l) \/ CreateLog(l) \/ Select(l) \/ Create(l) \/ Record(l) \/ Commit(l)
  \/ Begin(l) \/ Recheck(l) \/ Alter(l)

Next == \E l \in Launchers : Step(l) \/ Fault(l) \/ Close(l)

Spec == Init /\ [][Next]_vars

\* A launcher is started again after a failed start, and goes on as long as it
\* can; waiting for a lock is no step.
Fairness == \A l \in Launchers : WF_vars(Step(l))

FairSpec == Spec /\ Fairness

-----------------------------------------------------------------------------
(* Properties.                                                             *)

\* A recorded version is complete, and migration 3 is there altogether or not at
\* all (test_migration_failure_rolls_back_both_tables_and_can_retry).
RecordedIsMade ==
  /\ \A v \in Versions : v \in db.versions => Parts(v) \subseteq db.made
  /\ 3 \notin db.versions => Parts(3) \cap db.made = {}

\* A launcher that is up has the whole schema, whoever migrated.  Proved only: it
\* follows from what each line of migrate has behind it.
UpIsReady ==
  \A l \in Launchers : pc[l] = Up => db.versions = Versions

\* "Each migration runs once" (docs/rfc.md): a launcher about to record a version
\* has made it itself, all of it, and nobody else has recorded it.
RunsOnce ==
  \A l \in Launchers :
    At(l, {"record"}) =>
      Migration(pc[l]) \notin draft.versions /\ Parts(Migration(pc[l])) \subseteq draft.made

\* The upgrade of a database with migrations 1 and 2 is safe to run by several
\* launchers at once: none of them fails but by a fault of its own.
UpgradeNeverCollides ==
  [][\A l \in Launchers :
       Migration(pc[l]) = 3 /\ pc[l] # Up /\ pc'[l] = Off =>
         faults' = faults + 1]_vars

\* The lines between the first CREATE of migration v and its commit.
Unfinished(v) == IF v = 1 THEN 4 .. 6 ELSE 8 .. 11

\* A fault has left a part of migration 1 or 2 behind, nobody is at work on it, and
\* its version is not recorded: what the file is then it stays.
CutOff ==
  /\ faults > 0
  /\ \E v \in {1, 2} :
       /\ v \notin db.versions /\ Parts(v) \cap db.made # {}
       /\ \A l \in Launchers : pc[l] \notin Unfinished(v)

\* "so future launcher versions can upgrade older database files predictably"
\* (docs/rfc.md): every launcher gets up in the end, whatever failed before, unless
\* a fault has cut the file off in the middle of migration 1 or 2.  A launcher that
\* loses the race for one of these migrations fails, but not for ever.
GetsUp == \A l \in Launchers : pc[l] = Off ~> pc[l] = Up \/ CutOff

=============================================================================
