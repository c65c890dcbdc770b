------------------------ MODULE SchemaMigrationProofs ------------------------
(***************************************************************************)
(* What holds of SchemaMigration for any number of launchers on one file   *)
(* and any number of faults.                                               *)
(***************************************************************************)
EXTENDS SchemaMigration, TLAPS

\* The lines at which a launcher has a write transaction open.
Writing == {6, 11} \cup 13 .. 17

\* The transaction of a launcher at line i.
Drafted(i) ==
  /\ i = 6 => draft.made = db.made /\ draft.versions = db.versions \cup {1}
  /\ i = 11 => draft.made = db.made /\ draft.versions = db.versions \cup {2}
  /\ i = 13 => draft = db
  /\ i \in 14 .. 16 => 3 \notin db.versions /\ draft.versions = db.versions
  /\ i = 14 => draft.made = db.made
  /\ i = 15 => draft.made = db.made \cup {"scheduled_jobs.diagnose"}
  /\ i = 16 => draft.made = db.made \cup Parts(3)
  /\ i = 17 => \/ draft = db /\ 3 \in db.versions
               \/ /\ draft.versions = db.versions \cup {3}
                  /\ draft.made = db.made \cup Parts(3)

\* What a launcher at line i has made.
Made(i) ==
  /\ i \in 4 .. 6 => 1 \notin db.versions /\ "scheduled_jobs" \in db.made
  /\ i \in 5 .. 6 => "idx_status_run_at" \in db.made
  /\ i \in 8 .. 11 => 2 \notin db.versions /\ "periodic_runs" \in db.made
  /\ i \in 9 .. 11 => "idx_label_scheduled_for" \in db.made
  /\ i \in 10 .. 11 => "idx_status" \in db.made

\* What a launcher that got to line i has passed.
Passed(i) ==
  /\ i >= 7 => 1 \in db.versions
  /\ i >= 12 => 2 \in db.versions
  /\ i = Up => 3 \in db.versions

Transaction ==
  /\ lock = NoLauncher => draft = db
  /\ \A l \in Launchers : lock = l <=> pc[l] \in Writing
  /\ \A l \in Launchers : Drafted(pc[l])

\* One launcher makes a table, the others fail.
Alone ==
  \A k, l \in Launchers :
    \/ pc[k] \in 4 .. 6 /\ pc[l] \in 4 .. 6
    \/ pc[k] \in 8 .. 11 /\ pc[l] \in 8 .. 11
    => k = l

Progress ==
  \A l \in Launchers : Made(pc[l]) /\ Passed(pc[l]) /\ applied[l] \subseteq db.versions

MInv == TypeOK /\ Transaction /\ Alone /\ Progress /\ RecordedIsMade

-----------------------------------------------------------------------------
(* The lines and the migrations.                                           *)

LEMMA LineOf ==
  ASSUME NEW l \in Launchers, pc[l] \in Lines
  PROVE  /\ At(l, {"schema_migrations"}) <=> pc[l] = 1
         /\ At(l, {"select"}) <=> pc[l] = 2
         /\ At(l, {"record"}) <=> pc[l] \in {5, 10, 16}
         /\ At(l, {"commit"}) <=> pc[l] \in {6, 11, 17}
         /\ At(l, {"begin"}) <=> pc[l] = 12
         /\ At(l, {"recheck"}) <=> pc[l] = 13
         /\ At(l, Parts(1) \cup Parts(2)) <=> pc[l] \in {3, 4, 7, 8, 9}
         /\ At(l, Parts(3)) <=> pc[l] \in {14, 15}
<1> DEFINE i == pc[l]
<1>1. i \in 1 .. Up - 1 =>
        \/ i = 1 \/ i = 2 \/ i = 3 \/ i = 4 \/ i = 5 \/ i = 6 \/ i = 7 \/ i = 8 \/ i = 9
        \/ i = 10 \/ i = 11 \/ i = 12 \/ i = 13 \/ i = 14 \/ i = 15 \/ i = 16 \/ i = 17
  BY DEF Up, Lines, Off
<1>2. QED
  BY <1>1 DEF At, Statements, Parts, Up, Off, Lines

LEMMA Named ==
  /\ Statements[3] = "scheduled_jobs" /\ Statements[4] = "idx_status_run_at"
  /\ Statements[7] = "periodic_runs" /\ Statements[8] = "idx_label_scheduled_for"
  /\ Statements[9] = "idx_status"
  /\ Statements[14] = "scheduled_jobs.diagnose"
  /\ Statements[15] = "periodic_runs.diagnose"
BY DEF Statements

LEMMA PartsOf ==
  /\ Parts(1) = {"scheduled_jobs", "idx_status_run_at"}
  /\ Parts(2) = {"periodic_runs", "idx_label_scheduled_for", "idx_status"}
  /\ Parts(3) = {"scheduled_jobs.diagnose", "periodic_runs.diagnose"}
BY DEF Parts

LEMMA DatabaseIs ==
  ASSUME NEW d
  PROVE  d \in Database <=>
           /\ d = [made |-> d.made, versions |-> d.versions]
           /\ d.made \subseteq {"schema_migrations"} \cup Parts(1) \cup Parts(2) \cup Parts(3)
           /\ d.versions \subseteq Versions
<1>1. UNION {Parts(v) : v \in Versions} = Parts(1) \cup Parts(2) \cup Parts(3)
  BY DEF Versions
<1>2. QED
  BY <1>1 DEF Database

LEMMA MigrationOf ==
  /\ Migration(5) = 1 /\ Migration(6) = 1
  /\ Migration(10) = 2 /\ Migration(11) = 2
  /\ Migration(16) = 3 /\ Migration(17) = 3
BY DEF Migration

\* Where the next migration begins, and what that says of those before it.
LEMMA EntryOf ==
  ASSUME NEW v \in 1 .. 4, NEW S
  PROVE  /\ Entry(v, S) \in {3, 7, 12, Up}
         /\ Entry(v, S) = 3 => v = 1
         /\ Entry(v, S) >= 7 => v >= 2 \/ 1 \in S
         /\ Entry(v, S) >= 12 => v >= 3 \/ 2 \in S
         /\ Entry(v, S) = Up => v = 4 \/ 3 \in S
BY DEF Entry, Up

\* What a CREATE, an ALTER and an INSERT do to a database.
LEMMA Grown ==
  ASSUME NEW d \in Database,
         NEW x \in {"schema_migrations"} \cup Parts(1) \cup Parts(2) \cup Parts(3)
  PROVE  LET e == [d EXCEPT !.made = @ \cup {x}] IN
         e \in Database /\ e.made = d.made \cup {x} /\ e.versions = d.versions
<1>1. UNION {Parts(v) : v \in Versions} = Parts(1) \cup Parts(2) \cup Parts(3)
  BY DEF Versions
<1>2. QED
  BY <1>1 DEF Database

LEMMA Recorded ==
  ASSUME NEW d \in Database, NEW v \in Versions
  PROVE  LET e == [d EXCEPT !.versions = @ \cup {v}] IN
         e \in Database /\ e.made = d.made /\ e.versions = d.versions \cup {v}
BY DEF Database

\* Two databases with the same content are the same.
LEMMA SameDatabase ==
  ASSUME NEW d \in Database, NEW e \in Database, d.made = e.made, d.versions = e.versions
  PROVE  d = e
BY DEF Database

-----------------------------------------------------------------------------
(* The invariant, action by action.                                        *)

LEMMA InitMInv == Init => MInv
<1> SUFFICES ASSUME Init PROVE MInv
  OBVIOUS
<1> USE SchemaAssumption
<1>1. PICK versions \in Files : db = FileWith(versions)
  BY DEF Init
<1>2. versions \in {{}, {1}, {1, 2}, {1, 2, 3}}
  OBVIOUS
<1>3. /\ db.versions = versions
      /\ db.made = (UNION {Parts(v) : v \in versions}) \cup
                     IF versions = {} THEN {} ELSE {"schema_migrations"}
  BY <1>1 DEF FileWith
<1>4. db \in Database
  <2>1. UNION {Parts(v) : v \in versions} \subseteq UNION {Parts(v) : v \in Versions}
    BY <1>2 DEF Versions
  <2>2. db.made \subseteq {"schema_migrations"} \cup UNION {Parts(v) : v \in Versions}
    BY <1>3, <2>1
  <2>3. versions \subseteq Versions
    BY <1>2 DEF Versions
  <2>4. QED
    BY <1>1, <1>3, <2>2, <2>3 DEF FileWith, Database
<1>5. TypeOK
  BY <1>4 DEF Init, TypeOK, Lines, Off, Up
<1>6. Transaction
  BY DEF Init, Transaction, Drafted, Writing, Off
<1>7. Alone /\ Progress
  BY <1>3 DEF Init, Alone, Progress, Made, Passed, Off, Up
<1>8. RecordedIsMade
  <2>1. \A v \in Versions : v \in versions => Parts(v) \subseteq db.made
    BY <1>3
  <2>2. 3 \notin versions => Parts(3) \cap db.made = {}
    <3>1. ASSUME 3 \notin versions, NEW v \in versions PROVE Parts(3) \cap Parts(v) = {}
      <4>1. v \in {1, 2}
        BY <3>1, <1>2
      <4>2. QED
        BY <4>1, PartsOf
    <3>2. "schema_migrations" \notin Parts(3)
      BY PartsOf
    <3>3. QED
      BY <1>3, <3>1, <3>2
  <2>3. QED
    BY <1>3, <2>1, <2>2 DEF RecordedIsMade
<1>9. QED
  BY <1>5, <1>6, <1>7, <1>8 DEF MInv

\* Moving a launcher that neither has nor takes a transaction, without a change
\* of the file.
LEMMA Moved ==
  ASSUME MInv, NEW l \in Launchers, NEW i \in Lines, Goto(l, i),
         db' = db, draft' = draft, lock' = lock,
         pc[l] \notin Writing, i \notin Writing,
         i \notin 4 .. 6, i \notin 8 .. 11, Passed(i),
         applied' \in [Launchers -> SUBSET Versions],
         applied'[l] \subseteq db.versions,
         \A k \in Launchers \ {l} : applied'[k] = applied[k],
         faults' \in 0 .. MaxFaults
  PROVE  MInv'
<1>1. TypeOK'
  BY DEF MInv, TypeOK, Goto
<1>2. Transaction'
  BY DEF MInv, TypeOK, Transaction, Drafted, Writing, Goto
<1>3. Alone'
  BY DEF MInv, TypeOK, Alone, Goto
<1>4. Progress'
  BY DEF MInv, TypeOK, Progress, Made, Passed, Goto, Up
<1>5. RecordedIsMade'
  BY DEF MInv, RecordedIsMade
<1>6. QED
  BY <1>1, <1>2, <1>3, <1>4, <1>5 DEF MInv

LEMMA DownMInv ==
  ASSUME MInv, NEW l \in Launchers, Down(l), faults' \in 0 .. MaxFaults
  PROVE  MInv'
<1> USE SchemaAssumption
<1>1. TypeOK'
  BY DEF MInv, TypeOK, Down, Goto, Lines, Off, Up
<1>2. /\ pc' = [pc EXCEPT ![l] = Off] /\ db' = db
      /\ applied' = [applied EXCEPT ![l] = {}]
      /\ IF lock = l THEN lock' = NoLauncher /\ draft' = db ELSE UNCHANGED <<lock, draft>>
  BY DEF Down, Goto
<1>3. Transaction'
  BY <1>2 DEF MInv, TypeOK, Transaction, Drafted, Writing, Off
<1>4. Alone'
  BY <1>2 DEF MInv, TypeOK, Alone, Off
<1>5. Progress'
  BY <1>2 DEF MInv, TypeOK, Progress, Made, Passed, Off, Up
<1>6. RecordedIsMade'
  BY <1>2 DEF MInv, RecordedIsMade
<1>7. QED
  BY <1>1, <1>3, <1>4, <1>5, <1>6 DEF MInv

LEMMA CreateLogMInv ==
  ASSUME MInv, NEW l \in Launchers, CreateLog(l) PROVE MInv'
<1> USE SchemaAssumption
<1>0. pc[l] \in Lines
  BY DEF MInv, TypeOK
<1>1. pc[l] = 1 /\ pc' = [pc EXCEPT ![l] = 2]
  <2>1. pc[l] = 1
    BY <1>0, LineOf DEF CreateLog
  <2>2. pc' = [pc EXCEPT ![l] = pc[l] + 1]
    BY DEF CreateLog, Goto
  <2>3. QED
    BY <2>1, <2>2
<1>2. /\ db' \in Database /\ db'.made = db.made \cup {"schema_migrations"}
      /\ db'.versions = db.versions
  BY Grown DEF MInv, TypeOK, CreateLog
<1>3. lock # NoLauncher => db' = db
  <2>1. lock # NoLauncher => db'.made = db.made
    BY <1>2 DEF CreateLog
  <2>2. db \in Database
    BY DEF MInv, TypeOK
  <2>3. QED
    BY <1>2, <2>1, <2>2, SameDatabase
<1>4. /\ lock' = lock /\ applied' = applied /\ faults' = faults
      /\ draft' = IF lock = NoLauncher THEN db' ELSE draft
  BY DEF CreateLog
<1>5. TypeOK'
  BY <1>1, <1>2, <1>4 DEF MInv, TypeOK, Lines, Off, Up
<1>6. Transaction'
  <2>1. CASE lock = NoLauncher
    <3>1. \A k \in Launchers : pc'[k] \notin Writing
      BY <1>1, <2>1 DEF MInv, TypeOK, Transaction, Writing
    <3>2. QED
      BY <1>1, <1>4, <2>1, <3>1 DEF MInv, TypeOK, Transaction, Writing, Drafted
  <2>2. CASE lock # NoLauncher
    BY <1>1, <1>3, <1>4, <2>2 DEF MInv, TypeOK, Transaction, Writing, Drafted
  <2>3. QED
    BY <2>1, <2>2
<1>7. Alone'
  BY <1>1 DEF MInv, TypeOK, Alone
<1>8. Progress'
  BY <1>1, <1>2, <1>4 DEF MInv, TypeOK, Progress, Made, Passed, Up
<1>9. RecordedIsMade'
  BY <1>2, PartsOf DEF MInv, RecordedIsMade
<1>10. QED
  BY <1>5, <1>6, <1>7, <1>8, <1>9 DEF MInv

LEMMA SelectMInv ==
  ASSUME MInv, NEW l \in Launchers, Select(l) PROVE MInv'
<1> DEFINE i == Entry(1, db.versions)
<1>0. pc[l] \in Lines
  BY DEF MInv, TypeOK
<1>1. pc[l] = 2
  BY <1>0, LineOf DEF Select
<1>2. /\ i \in {3, 7, 12, Up}
      /\ i >= 7 => 1 \in db.versions
      /\ i >= 12 => 2 \in db.versions
      /\ i = Up => 3 \in db.versions
  BY EntryOf
<1>3. db.versions \subseteq Versions
  BY DatabaseIs DEF MInv, TypeOK
<1>4. /\ Goto(l, i) /\ applied' = [applied EXCEPT ![l] = db.versions]
      /\ UNCHANGED <<db, draft, lock, faults>>
  BY DEF Select
<1>5. i \in Lines /\ i \notin Writing /\ i \notin 4 .. 6 /\ i \notin 8 .. 11 /\ Passed(i)
  BY <1>2 DEF Lines, Off, Up, Writing, Passed
<1>6. pc[l] \notin Writing
  BY <1>1 DEF Writing
<1> HIDE DEF i
<1>7. /\ applied' \in [Launchers -> SUBSET Versions]
      /\ applied'[l] \subseteq db.versions
      /\ \A k \in Launchers \ {l} : applied'[k] = applied[k]
  BY <1>3, <1>4 DEF MInv, TypeOK
<1>8. faults' \in 0 .. MaxFaults
  BY <1>4 DEF MInv, TypeOK
<1>9. QED
  BY <1>4, <1>5, <1>6, <1>7, <1>8, Moved

LEMMA CreateMInv ==
  ASSUME MInv, NEW l \in Launchers, Create(l) PROVE MInv'
<1> USE SchemaAssumption
<1> DEFINE part == Statements[pc[l]]
<1>0. pc[l] \in Lines
  BY DEF MInv, TypeOK
<1>1. pc[l] \in {3, 4, 7, 8, 9}
  BY <1>0, LineOf DEF Create
<1>2. faults' = faults /\ faults' \in 0 .. MaxFaults
  BY DEF MInv, TypeOK, Create
<1>3. CASE part \in db.made
  BY <1>2, <1>3, DownMInv DEF Create
<1>4. CASE part \notin db.made
  <2>1. /\ lock = NoLauncher /\ lock' = lock /\ applied' = applied
        /\ db' = [db EXCEPT !.made = @ \cup {part}] /\ draft' = db'
        /\ pc' = [pc EXCEPT ![l] = pc[l] + 1]
    BY <1>4 DEF Create, Goto
  <2>2. /\ pc[l] = 3 => part = "scheduled_jobs"
        /\ pc[l] = 4 => part = "idx_status_run_at"
        /\ pc[l] = 7 => part = "periodic_runs"
        /\ pc[l] = 8 => part = "idx_label_scheduled_for"
        /\ pc[l] = 9 => part = "idx_status"
    BY Named
  <2> HIDE DEF part
  <2>3. part \in Parts(1) \cup Parts(2)
    BY <1>1, <2>2, PartsOf
  <2>4. /\ db' \in Database /\ db'.made = db.made \cup {part}
        /\ db'.versions = db.versions
    BY <2>1, <2>3, Grown DEF MInv, TypeOK
  <2>5. /\ pc[l] \in {3, 4} => 1 \notin db.versions
        /\ pc[l] \in {7, 8, 9} => 2 \notin db.versions
    <3>1. Parts(1) \subseteq db.made \/ 1 \notin db.versions
      BY DEF MInv, RecordedIsMade, Versions
    <3>2. Parts(2) \subseteq db.made \/ 2 \notin db.versions
      BY DEF MInv, RecordedIsMade, Versions
    <3>3. QED
      BY <1>1, <1>4, <2>2, <3>1, <3>2, PartsOf DEF part
  <2>6. TypeOK'
    BY <1>1, <1>2, <2>1, <2>4 DEF MInv, TypeOK, Lines, Off, Up
  <2>7. \A k \in Launchers : pc[k] \notin Writing
    BY <2>1 DEF MInv, Transaction
  <2>8. Transaction'
    BY <1>1, <2>1, <2>7 DEF MInv, TypeOK, Transaction, Drafted, Writing
  <2>9. Alone'
    <3>1. ASSUME pc[l] = 3, NEW k \in Launchers PROVE pc[k] \notin 4 .. 6
      BY <1>4, <2>2, <3>1 DEF MInv, Progress, Made, part
    <3>2. ASSUME pc[l] = 7, NEW k \in Launchers PROVE pc[k] \notin 8 .. 11
      BY <1>4, <2>2, <3>2 DEF MInv, Progress, Made, part
    <3>3. QED
      BY <1>1, <2>1, <3>1, <3>2 DEF MInv, TypeOK, Alone
  <2>10. Progress'
    <3>1. ASSUME NEW k \in Launchers PROVE Made(pc[k])' /\ Passed(pc[k])'
      <4>1. CASE k = l
        BY <1>1, <2>1, <2>2, <2>4, <2>5, <4>1 DEF MInv, TypeOK, Progress, Made, Passed, Up
      <4>2. CASE k # l
        BY <2>1, <2>4, <4>2 DEF MInv, TypeOK, Progress, Made, Passed
      <4>3. QED
        BY <4>1, <4>2
    <3>2. QED
      BY <2>1, <2>4, <3>1 DEF MInv, Progress
  <2>11. RecordedIsMade'
    BY <2>3, <2>4, PartsOf DEF MInv, RecordedIsMade
  <2>12. QED
    BY <2>6, <2>8, <2>9, <2>10, <2>11 DEF MInv
<1>5. QED
  BY <1>3, <1>4

LEMMA RecordMInv ==
  ASSUME MInv, NEW l \in Launchers, Record(l) PROVE MInv'
<1> USE SchemaAssumption
<1> DEFINE v == Migration(pc[l])
<1>0. pc[l] \in Lines
  BY DEF MInv, TypeOK
<1>1. pc[l] \in {5, 10, 16}
  BY <1>0, LineOf DEF Record
<1>2. /\ lock \in {l, NoLauncher} /\ lock' = l
      /\ draft' = [draft EXCEPT !.versions = @ \cup {v}]
      /\ pc' = [pc EXCEPT ![l] = pc[l] + 1]
      /\ UNCHANGED <<db, applied, faults>>
  BY DEF Record, Goto
<1>3. /\ pc[l] = 5 => v = 1
      /\ pc[l] = 10 => v = 2
      /\ pc[l] = 16 => v = 3
  BY MigrationOf
<1> HIDE DEF v
<1>4. v \in Versions
  BY <1>1, <1>3 DEF Versions
<1>5. draft' \in Database /\ draft'.made = draft.made /\ draft'.versions = draft.versions \cup {v}
  BY <1>2, <1>4, Recorded DEF MInv, TypeOK
<1>6. TypeOK'
  BY <1>1, <1>2, <1>5 DEF MInv, TypeOK, Lines, Off, Up
<1>7. lock = l <=> pc[l] = 16
  BY <1>1 DEF MInv, Transaction, Writing
<1>8. \A k \in Launchers \ {l} : pc[k] \notin Writing
  BY <1>2 DEF MInv, Transaction
<1>9. Transaction'
  <2>1. lock' # NoLauncher
    BY <1>2
  <2>2. ASSUME NEW k \in Launchers PROVE lock' = k <=> pc'[k] \in Writing
    BY <1>1, <1>2, <1>8 DEF MInv, TypeOK, Writing
  <2>3. Drafted(pc[l])'
    <3>1. CASE pc[l] \in {5, 10}
      <4>1. draft = db
        BY <1>2, <1>7, <3>1 DEF MInv, Transaction
      <4>2. QED
        BY <1>2, <1>3, <1>5, <3>1, <4>1 DEF MInv, TypeOK, Drafted
    <3>2. CASE pc[l] = 16
      BY <1>2, <1>3, <1>5, <3>2 DEF MInv, TypeOK, Transaction, Drafted
    <3>3. QED
      BY <1>1, <3>1, <3>2
  <2>4. ASSUME NEW k \in Launchers \ {l} PROVE Drafted(pc[k])'
    BY <1>2, <1>8, <2>4 DEF MInv, TypeOK, Drafted, Writing
  <2>5. QED
    BY <2>1, <2>2, <2>3, <2>4 DEF Transaction
<1>10. Alone'
  BY <1>1, <1>2 DEF MInv, TypeOK, Alone
<1>11. Progress'
  BY <1>1, <1>2 DEF MInv, TypeOK, Progress, Made, Passed, Up
<1>12. RecordedIsMade'
  BY <1>2 DEF MInv, RecordedIsMade
<1>13. QED
  BY <1>6, <1>9, <1>10, <1>11, <1>12 DEF MInv

LEMMA CommitMInv ==
  ASSUME MInv, NEW l \in Launchers, Commit(l) PROVE MInv'
<1> USE SchemaAssumption
<1> DEFINE i == Entry(Migration(pc[l]) + 1, applied[l])
<1>0. pc[l] \in Lines
  BY DEF MInv, TypeOK
<1>1. pc[l] \in {6, 11, 17}
  BY <1>0, LineOf DEF Commit
<1>2. /\ db' = draft /\ lock' = NoLauncher
      /\ pc' = [pc EXCEPT ![l] = i]
      /\ UNCHANGED <<draft, applied, faults>>
  BY DEF Commit, Goto
<1>3. /\ i \in {3, 7, 12, Up}
      /\ pc[l] = 6 => i >= 7
      /\ pc[l] = 11 => i >= 12
      /\ pc[l] = 17 => i = Up
      /\ i >= 12 => pc[l] \in {11, 17} \/ 2 \in applied[l]
      /\ i = Up => pc[l] = 17 \/ 3 \in applied[l]
  BY <1>1, MigrationOf DEF Entry, Up
<1> HIDE DEF i
<1>4. lock = l /\ \A k \in Launchers \ {l} : pc[k] \notin Writing
  BY <1>1 DEF MInv, Transaction, Writing
<1>5. Drafted(pc[l]) /\ Passed(pc[l]) /\ Made(pc[l]) /\ applied[l] \subseteq db.versions
  BY DEF MInv, Transaction, Progress
<1>6. /\ db.versions \subseteq draft.versions
      /\ db.made \subseteq draft.made
      /\ pc[l] = 6 => 1 \in draft.versions
      /\ pc[l] = 11 => 2 \in draft.versions
      /\ pc[l] = 17 => 3 \in draft.versions
  BY <1>1, <1>5 DEF Drafted
<1>7. /\ i \notin Writing /\ i \notin 4 .. 6 /\ i \notin 8 .. 11 /\ i \in Lines
  BY <1>3 DEF Writing, Lines, Off, Up
<1>8. TypeOK'
  BY <1>2, <1>7 DEF MInv, TypeOK
<1>9. Transaction'
  <2>1. draft' = db'
    BY <1>2
  <2>2. ASSUME NEW k \in Launchers PROVE pc'[k] \notin Writing
    BY <1>2, <1>4, <1>7 DEF MInv, TypeOK
  <2>3. ASSUME NEW k \in Launchers PROVE Drafted(pc[k])'
    BY <2>2 DEF Drafted, Writing
  <2>4. QED
    BY <1>2, <2>1, <2>2, <2>3 DEF Transaction
<1>10. Alone'
  BY <1>2, <1>7 DEF MInv, TypeOK, Alone
<1>11. Progress'
  <2>1. Made(pc[l])' /\ Passed(pc[l])'
    <3>1. pc'[l] = i
      BY <1>2 DEF MInv, TypeOK
    <3>2. Made(pc[l])'
      BY <1>3, <3>1 DEF Made, Up
    <3>3. Passed(pc[l])'
      BY <1>1, <1>2, <1>3, <1>5, <1>6, <3>1 DEF Passed, Up
    <3>4. QED
      BY <3>2, <3>3
  <2>2. ASSUME NEW k \in Launchers \ {l} PROVE Made(pc[k])' /\ Passed(pc[k])'
    <3>1. pc'[k] = pc[k]
      BY <1>2 DEF MInv, TypeOK
    <3>2. Made(pc[k]) /\ Passed(pc[k])
      BY DEF MInv, Progress
    <3>3. pc[k] \in 4 .. 6 => 1 \notin draft.versions
      <4>1. pc[l] = 11 => (pc[k] \in 4 .. 6 => 1 \notin db.versions)
        BY <3>2 DEF Made
      <4>2. pc[l] \in {6, 17} => 1 \in draft.versions /\ pc[k] \notin 4 .. 6
        <5>1. pc[l] = 6 => pc[k] \notin 4 .. 6
          BY DEF MInv, Alone
        <5>2. pc[l] = 17 => pc[k] \notin 4 .. 6
          BY <1>5, <3>2 DEF Passed, Made
        <5>3. QED
          BY <1>5, <1>6, <5>1, <5>2 DEF Passed
      <4>3. QED
        BY <1>1, <1>5, <4>1, <4>2 DEF Drafted
    <3>4. pc[k] \in 8 .. 11 => 2 \notin draft.versions
      <4>1. pc[l] = 6 => (pc[k] \in 8 .. 11 => 2 \notin db.versions)
        BY <3>2 DEF Made
      <4>2. pc[l] \in {11, 17} => pc[k] \notin 8 .. 11
        <5>1. pc[l] = 11 => pc[k] \notin 8 .. 11
          BY DEF MInv, Alone
        <5>2. pc[l] = 17 => pc[k] \notin 8 .. 11
          BY <1>5, <3>2 DEF Passed, Made
        <5>3. QED
          BY <5>1, <5>2
      <4>3. QED
        BY <1>1, <1>5, <4>1, <4>2 DEF Drafted
    <3>5. Made(pc[k])'
      BY <1>2, <1>6, <3>1, <3>2, <3>3, <3>4 DEF Made
    <3>6. Passed(pc[k])'
      BY <1>2, <1>6, <3>1, <3>2 DEF Passed
    <3>7. QED
      BY <3>5, <3>6
  <2>3. ASSUME NEW k \in Launchers PROVE applied'[k] \subseteq db'.versions
    BY <1>2, <1>6 DEF MInv, Progress
  <2>4. QED
    BY <2>1, <2>2, <2>3 DEF Progress
<1>12. RecordedIsMade'
  <2>1. /\ \A v \in Versions : v \in db.versions => Parts(v) \subseteq db.made
        /\ 3 \notin db.versions => Parts(3) \cap db.made = {}
    BY DEF MInv, RecordedIsMade
  <2>2. CASE pc[l] = 6
    <3>1. draft.versions = db.versions \cup {1} /\ draft.made = db.made
      BY <1>5, <2>2 DEF Drafted
    <3>2. Parts(1) \subseteq db.made
      BY <1>5, <2>2, PartsOf DEF Made
    <3>3. QED
      BY <1>2, <2>1, <3>1, <3>2 DEF RecordedIsMade
  <2>3. CASE pc[l] = 11
    <3>1. draft.versions = db.versions \cup {2} /\ draft.made = db.made
      BY <1>5, <2>3 DEF Drafted
    <3>2. Parts(2) \subseteq db.made
      BY <1>5, <2>3, PartsOf DEF Made
    <3>3. QED
      BY <1>2, <2>1, <3>1, <3>2 DEF RecordedIsMade
  <2>4. CASE pc[l] = 17
    <3>1. \/ draft = db
          \/ draft.versions = db.versions \cup {3} /\ draft.made = db.made \cup Parts(3)
      BY <1>5, <2>4 DEF Drafted
    <3>2. QED
      BY <1>2, <2>1, <3>1 DEF RecordedIsMade
  <2>5. QED
    BY <1>1, <2>2, <2>3, <2>4
<1>13. QED
  BY <1>8, <1>9, <1>10, <1>11, <1>12 DEF MInv

LEMMA BeginMInv ==
  ASSUME MInv, NEW l \in Launchers, Begin(l) PROVE MInv'
<1> USE SchemaAssumption
<1>0. pc[l] \in Lines
  BY DEF MInv, TypeOK
<1>1. pc[l] = 12
  BY <1>0, LineOf DEF Begin
<1>2. /\ lock = NoLauncher /\ lock' = l
      /\ pc' = [pc EXCEPT ![l] = pc[l] + 1]
      /\ UNCHANGED <<db, draft, applied, faults>>
  BY DEF Begin, Goto
<1>3. TypeOK'
  BY <1>1, <1>2 DEF MInv, TypeOK, Lines, Off, Up
<1>4. \A k \in Launchers : pc[k] \notin Writing
  BY <1>2 DEF MInv, Transaction
<1>5. Transaction'
  BY <1>1, <1>2, <1>4 DEF MInv, TypeOK, Transaction, Drafted, Writing
<1>6. Alone' /\ RecordedIsMade'
  BY <1>1, <1>2 DEF MInv, TypeOK, Alone, RecordedIsMade
<1>7. Progress'
  BY <1>1, <1>2 DEF MInv, TypeOK, Progress, Made, Passed, Up
<1>8. QED
  BY <1>3, <1>5, <1>6, <1>7 DEF MInv

LEMMA RecheckMInv ==
  ASSUME MInv, NEW l \in Launchers, Recheck(l) PROVE MInv'
<1> USE SchemaAssumption
<1>0. pc[l] \in Lines
  BY DEF MInv, TypeOK
<1>1. pc[l] = 13
  BY <1>0, LineOf DEF Recheck
<1>2. /\ pc' = [pc EXCEPT ![l] = IF 3 \in draft.versions THEN pc[l] + 4 ELSE pc[l] + 1]
      /\ UNCHANGED <<db, draft, lock, applied, faults>>
  BY DEF Recheck, Goto
<1>3. TypeOK'
  BY <1>1, <1>2 DEF MInv, TypeOK, Lines, Off, Up
<1>4. draft = db
  BY <1>1 DEF MInv, Transaction, Drafted
<1>5. Transaction'
  BY <1>1, <1>2, <1>4 DEF MInv, TypeOK, Transaction, Drafted, Writing
<1>6. Alone' /\ RecordedIsMade'
  BY <1>1, <1>2 DEF MInv, TypeOK, Alone, RecordedIsMade
<1>7. Progress'
  BY <1>1, <1>2 DEF MInv, TypeOK, Progress, Made, Passed, Up
<1>8. QED
  BY <1>3, <1>5, <1>6, <1>7 DEF MInv

\* A transaction adds to the file, and versions 1 and 2 only before its commit.
LEMMA DraftExtends ==
  ASSUME MInv
  PROVE  /\ db.made \subseteq draft.made
         /\ 1 \in draft.versions \ db.versions => \E k \in Launchers : pc[k] = 6
         /\ 2 \in draft.versions \ db.versions => \E k \in Launchers : pc[k] = 11
<1>1. CASE lock = NoLauncher
  BY <1>1 DEF MInv, Transaction
<1>2. CASE lock # NoLauncher
  <2>1. lock \in Launchers /\ pc[lock] \in Writing /\ Drafted(pc[lock])
    BY <1>2 DEF MInv, TypeOK, Transaction
  <2>2. QED
    BY <2>1 DEF Drafted, Writing
<1>3. QED
  BY <1>1, <1>2

\* The transaction a launcher is about to alter in has none of migration 3's
\* columns but those it has made itself.
LEMMA Alterable ==
  ASSUME MInv, NEW l \in Launchers, pc[l] \in {14, 15}
  PROVE  Statements[pc[l]] \notin draft.made
<1>1. Drafted(pc[l])
  BY DEF MInv, Transaction
<1>2. Parts(3) \cap db.made = {}
  BY <1>1 DEF MInv, RecordedIsMade, Drafted
<1>3. QED
  BY <1>1, <1>2, Named, PartsOf DEF Drafted

LEMMA AlterMInv ==
  ASSUME MInv, NEW l \in Launchers, Alter(l) PROVE MInv'
<1> USE SchemaAssumption
<1> DEFINE part == Statements[pc[l]]
<1>0. pc[l] \in Lines
  BY DEF MInv, TypeOK
<1>1. pc[l] \in {14, 15}
  BY <1>0, LineOf DEF Alter
<1>2. /\ draft' = [draft EXCEPT !.made = @ \cup {part}]
      /\ pc' = [pc EXCEPT ![l] = pc[l] + 1]
      /\ UNCHANGED <<db, lock, applied, faults>>
  BY <1>1, Alterable DEF Alter, Goto
<1>3. /\ pc[l] = 14 => part = "scheduled_jobs.diagnose"
      /\ pc[l] = 15 => part = "periodic_runs.diagnose"
  BY Named
<1> HIDE DEF part
<1>4. part \in Parts(3)
  BY <1>1, <1>3, PartsOf
<1>5. draft' \in Database /\ draft'.made = draft.made \cup {part} /\ draft'.versions = draft.versions
  BY <1>2, <1>4, Grown DEF MInv, TypeOK
<1>6. TypeOK'
  BY <1>1, <1>2, <1>5 DEF MInv, TypeOK, Lines, Off, Up
<1>7. lock = l /\ \A k \in Launchers \ {l} : pc[k] \notin Writing
  BY <1>1 DEF MInv, Transaction, Writing
<1>8. Transaction'
  <2>1. lock' # NoLauncher
    BY <1>2, <1>7
  <2>2. ASSUME NEW k \in Launchers PROVE lock' = k <=> pc'[k] \in Writing
    BY <1>1, <1>2, <1>7 DEF MInv, TypeOK, Writing
  <2>3. Drafted(pc[l])'
    <3>1. Drafted(pc[l])
      BY DEF MInv, Transaction
    <3>2. pc'[l] = pc[l] + 1
      BY <1>2 DEF MInv, TypeOK
    <3>3. QED
      BY <1>1, <1>2, <1>3, <1>5, <3>1, <3>2, PartsOf DEF Drafted
  <2>4. ASSUME NEW k \in Launchers \ {l} PROVE Drafted(pc[k])'
    BY <1>2, <1>7, <2>4 DEF MInv, TypeOK, Drafted, Writing
  <2>5. QED
    BY <2>1, <2>2, <2>3, <2>4 DEF Transaction
<1>9. Alone' /\ RecordedIsMade'
  BY <1>1, <1>2 DEF MInv, TypeOK, Alone, RecordedIsMade
<1>10. Progress'
  BY <1>1, <1>2 DEF MInv, TypeOK, Progress, Made, Passed, Up
<1>11. QED
  BY <1>6, <1>8, <1>9, <1>10 DEF MInv

LEMMA OpenMInv ==
  ASSUME MInv, NEW l \in Launchers, Open(l) PROVE MInv'
<1>1. pc[l] = Off /\ Goto(l, 1) /\ UNCHANGED <<db, draft, lock, applied, faults>>
  BY DEF Open
<1>2. /\ pc[l] \notin Writing /\ 1 \notin Writing /\ 1 \in Lines
      /\ 1 \notin 4 .. 6 /\ 1 \notin 8 .. 11 /\ Passed(1)
  BY <1>1 DEF Writing, Lines, Off, Up, Passed
<1>3. /\ applied' \in [Launchers -> SUBSET Versions]
      /\ applied'[l] \subseteq db.versions
      /\ \A k \in Launchers \ {l} : applied'[k] = applied[k]
      /\ faults' \in 0 .. MaxFaults
  BY <1>1 DEF MInv, TypeOK, Progress
<1>4. QED
  BY <1>1, <1>2, <1>3, Moved

LEMMA NextMInv ==
  ASSUME MInv, [Next]_vars PROVE MInv'
<1> USE SchemaAssumption
<1>1. ASSUME NEW l \in Launchers, Step(l) PROVE MInv'
  <2>1. \/ Open(l) \/ CreateLog(l) \/ Select(l) \/ Create(l) \/ Record(l) \/ Commit(l)
        \/ Begin(l) \/ Recheck(l) \/ Alter(l)
    BY <1>1 DEF Step
  <2>2. QED
    BY <2>1, OpenMInv, CreateLogMInv, SelectMInv, CreateMInv, RecordMInv, CommitMInv,
       BeginMInv, RecheckMInv, AlterMInv
<1>2. ASSUME NEW l \in Launchers, Fault(l) PROVE MInv'
  <2>1. Down(l) /\ faults' \in 0 .. MaxFaults
    BY <1>2 DEF Fault, MInv, TypeOK
  <2>2. QED
    BY <2>1, DownMInv
<1>3. ASSUME NEW l \in Launchers, Close(l) PROVE MInv'
  <2>1. Down(l) /\ faults' \in 0 .. MaxFaults
    BY <1>3 DEF Close, MInv, TypeOK
  <2>2. QED
    BY <2>1, DownMInv
<1>4. ASSUME UNCHANGED vars PROVE MInv'
  BY <1>4 DEF vars, MInv, TypeOK, Transaction, Drafted, Alone, Progress, Made, Passed,
              RecordedIsMade
<1>5. QED
  BY <1>1, <1>2, <1>3, <1>4 DEF Next

-----------------------------------------------------------------------------
(* Theorems.                                                               *)

\* The invariant of migrate: who holds the write lock, what its transaction has
\* more than the file, and which parts a launcher at a line has made or passed.
THEOREM MigrationInvariant == Spec => []MInv
<1>1. MInv /\ [Next]_vars => MInv'
  BY NextMInv
<1>2. QED
  BY InitMInv, <1>1, PTL DEF Spec

\* The file, the transaction and the launchers stay what they are meant to be.
THEOREM MigrationTypes == Spec => []TypeOK
<1>1. MInv => TypeOK
  BY DEF MInv
<1>2. QED
  BY MigrationInvariant, <1>1, PTL

\* A version in schema_migrations is complete and migration 3 is atomic, whoever
\* crashes where.
THEOREM RecordedVersionsAreMade == Spec => []RecordedIsMade
<1>1. MInv => RecordedIsMade
  BY DEF MInv
<1>2. QED
  BY MigrationInvariant, <1>1, PTL

\* A launcher whose migrate returned works on the whole schema.
THEOREM LaunchersUpAreReady == Spec => []UpIsReady
<1>1. ASSUME MInv, NEW l \in Launchers, pc[l] = Up PROVE db.versions = Versions
  <2>1. Passed(pc[l])
    BY <1>1 DEF MInv, Progress
  <2>2. 1 \in db.versions /\ 2 \in db.versions /\ 3 \in db.versions
    BY <1>1, <2>1 DEF Passed, Up
  <2>3. db.versions \subseteq Versions
    BY <1>1, DatabaseIs DEF MInv, TypeOK
  <2>4. QED
    BY <2>2, <2>3 DEF Versions
<1>2. MInv => UpIsReady
  BY <1>1 DEF UpIsReady
<1>3. QED
  BY MigrationInvariant, <1>2, PTL

\* "Each migration runs once": who records a version has made all of it and is the
\* first to record it.
THEOREM MigrationsRunOnce == Spec => []RunsOnce
<1>1. ASSUME MInv, NEW l \in Launchers, At(l, {"record"})
      PROVE  Migration(pc[l]) \notin draft.versions /\ Parts(Migration(pc[l])) \subseteq draft.made
  <2>0. pc[l] \in Lines
    BY <1>1 DEF MInv, TypeOK
  <2>1. pc[l] \in {5, 10, 16}
    BY <1>1, <2>0, LineOf
  <2>2. Made(pc[l]) /\ Drafted(pc[l])
    BY <1>1 DEF MInv, Progress, Transaction
  <2>3. CASE pc[l] \in {5, 10}
    BY <1>1, <2>2, <2>3, DraftExtends, MigrationOf, PartsOf DEF MInv, Alone, Made
  <2>4. CASE pc[l] = 16
    BY <2>2, <2>4, MigrationOf DEF Drafted
  <2>5. QED
    BY <2>1, <2>3, <2>4
<1>2. MInv => RunsOnce
  BY <1>1 DEF RunsOnce
<1>3. QED
  BY MigrationInvariant, <1>2, PTL

\* Launchers that upgrade a file with migrations 1 and 2 at once do not make each
\* other fail.
THEOREM UpgradesNeverCollide == Spec => UpgradeNeverCollides
<1>1. ASSUME MInv, [Next]_vars, NEW l \in Launchers,
             Migration(pc[l]) = 3, pc[l] # Up, pc'[l] = Off
      PROVE  faults' = faults + 1
  <2>1. pc[l] \in 12 .. 17
    BY <1>1 DEF MInv, TypeOK, Migration, Lines, Off, Up
  <2>2. ASSUME NEW k \in Launchers, Step(k) PROVE FALSE
    <3>1. k = l
      <4>1. \E i : pc' = [pc EXCEPT ![k] = i]
        BY <2>2, Alterable DEF Step, Open, CreateLog, Select, Create, Record, Commit, Begin,
                               Recheck, Alter, Down, Goto
      <4>2. QED
        BY <1>1, <2>1, <4>1 DEF MInv, TypeOK, Off
    <3>2. pc[l] \in Lines
      BY <2>1 DEF Lines, Off, Up
    <3>3. \/ Record(l) \/ Commit(l) \/ Begin(l) \/ Recheck(l) \/ Alter(l)
      <4>1. Step(l)
        BY <2>2, <3>1
      <4>2. ~Open(l)
        BY <2>1 DEF Open, Off
      <4>3. ~CreateLog(l) /\ ~Select(l) /\ ~Create(l)
        <5>1. /\ ~At(l, {"schema_migrations"}) /\ ~At(l, {"select"})
              /\ ~At(l, Parts(1) \cup Parts(2))
          <6>1. pc[l] # 1 /\ pc[l] # 2 /\ pc[l] \notin {3, 4, 7, 8, 9}
            BY <2>1
          <6>2. /\ At(l, {"schema_migrations"}) <=> pc[l] = 1
                /\ At(l, {"select"}) <=> pc[l] = 2
                /\ At(l, Parts(1) \cup Parts(2)) <=> pc[l] \in {3, 4, 7, 8, 9}
            BY <3>2, LineOf
          <6>3. QED
            BY <6>1, <6>2
        <5>2. QED
          BY <5>1 DEF CreateLog, Select, Create
      <4>4. QED
        BY <4>1, <4>2, <4>3 DEF Step
    <3>4. CASE Record(l) \/ Begin(l) \/ Recheck(l)
      <4>1. pc'[l] \in {pc[l] + 1, pc[l] + 4}
        BY <1>1, <3>4 DEF Record, Begin, Recheck, Goto, MInv, TypeOK
      <4>2. QED
        BY <1>1, <2>1, <4>1 DEF Off
    <3>5. CASE Commit(l)
      <4>1. pc'[l] = Entry(Migration(pc[l]) + 1, applied[l])
        BY <1>1, <3>5 DEF Commit, Goto, MInv, TypeOK
      <4>2. QED
        BY <1>1, <4>1 DEF Entry, Off, Up
    <3>6. CASE Alter(l)
      <4>1. pc[l] \in {14, 15}
        BY <3>2, <3>6, LineOf DEF Alter
      <4>2. pc'[l] = pc[l] + 1
        BY <1>1, <3>6, <4>1, Alterable DEF Alter, Goto, MInv, TypeOK
      <4>3. QED
        BY <1>1, <2>1, <4>2 DEF Off
    <3>7. QED
      BY <3>3, <3>4, <3>5, <3>6
  <2>3. ASSUME NEW k \in Launchers, Fault(k) PROVE faults' = faults + 1
    BY <2>3 DEF Fault
  <2>4. ASSUME NEW k \in Launchers, Close(k) PROVE FALSE
    <3>1. pc[k] = Up /\ pc' = [pc EXCEPT ![k] = Off]
      BY <2>4 DEF Close, Down, Goto
    <3>2. k # l
      BY <1>1, <3>1
    <3>3. pc'[l] = pc[l]
      BY <1>1, <3>1, <3>2 DEF MInv, TypeOK
    <3>4. QED
      BY <1>1, <2>1, <3>3 DEF Off
  <2>5. ASSUME UNCHANGED vars PROVE FALSE
    BY <1>1, <2>1, <2>5 DEF vars, Off
  <2>6. QED
    BY <1>1, <2>2, <2>3, <2>4, <2>5 DEF Next
<1>2. MInv /\ [Next]_vars =>
        [\A l \in Launchers :
           Migration(pc[l]) = 3 /\ pc[l] # Up /\ pc'[l] = Off => faults' = faults + 1]_vars
  BY <1>1
<1>3. QED
  BY MigrationInvariant, <1>2, PTL DEF Spec, UpgradeNeverCollides

=============================================================================
