----------------------------- MODULE JobHistory -----------------------------
(***************************************************************************)
(* What the database remembers of one-shot jobs (src/process_launcher/     *)
(* scheduled.py, storage.py), whatever fails and however often the         *)
(* launcher is restarted.                                                  *)
(*                                                                         *)
(* The committed status of a job only moves on: it waits, it is claimed,   *)
(* it ends, or it ends without having been claimed.  A child is started    *)
(* for a claimed job, and for each job once.  What the launcher lists      *)
(* while it runs may differ from this after a write that raised.           *)
(*                                                                         *)
(* ScheduledManager.tla implements this specification (PROPERTY            *)
(* HistorySpec there).                                                     *)
(***************************************************************************)

CONSTANT Jobs           \* job ids

VARIABLES
  record,               \* [Jobs]: the committed status; "absent" without a row
  launched              \* jobs for which a child was started

histVars == <<record, launched>>

Statuses == {"absent", "pending", "running", "completed", "failed", "cancelled", "missed"}

HistTypeOK == record \in [Jobs -> Statuses] /\ launched \subseteq Jobs

HistInit ==
  /\ record = [j \in Jobs |-> "absent"]
  /\ launched = {}

\* What a commit may make of a job that is recorded as s.  A job whose first row
\* could not be written may be cancelled.  A child whose pid could not be recorded
\* is told of after its job has been marked failed.
After(s) ==
  CASE s = "absent" -> {"pending", "cancelled"}
    [] s = "pending" -> {"running", "cancelled", "missed", "failed"}
    [] s = "running" -> {"completed", "failed"}
    [] s = "failed" -> {"completed"}
    [] OTHER -> {}

\* A commit takes along what earlier commits that failed left behind, and a restart
\* fails all running jobs at once.  Only a job with a child is completed.
Commit ==
  /\ record' \in [Jobs -> Statuses]
  /\ \A j \in Jobs :
       record'[j] # record[j] =>
         /\ record'[j] \in After(record[j])
         /\ record'[j] = "completed" => j \in launched
  /\ UNCHANGED launched

\* start_process for job j.
Launch(j) ==
  /\ record[j] = "running" /\ j \notin launched
  /\ launched' = launched \cup {j}
  /\ UNCHANGED record

HistNext == Commit \/ \E j \in Jobs : Launch(j)

Spec == HistInit /\ [][HistNext]_histVars

=============================================================================
