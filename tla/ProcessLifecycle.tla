-------------------------- MODULE ProcessLifecycle --------------------------
(***************************************************************************)
(* What ProcessManager (src/process_launcher/process.py) promises to the   *)
(* code that launches children through it: ServiceMonitor,                 *)
(* ScheduledManager, PeriodicManager and the HTTP handlers.                *)
(*                                                                         *)
(* A child is one call of start_process.  It lives, its process group      *)
(* ends, a verdict "exited" or "killed" is reached once and never changed, *)
(* the verdict is published in its ProcessInfo, and only then may its exit *)
(* callback run, at most once.  The verdict is "killed" exactly when a     *)
(* stop was requested before it was reached; a stop requested later, even  *)
(* after its publication, comes too late to change it.                     *)
(*                                                                         *)
(* ProcessManager.tla implements this specification (PROPERTY              *)
(* LifecycleSpec there); the modules of the callers build on it.           *)
(***************************************************************************)

CONSTANT Children       \* calls of start_process

VARIABLES
  child,                \* where each child is in its life
  stopping,             \* children some stop_process call has claimed
  known,                \* children whose verdict is published
  told                  \* children whose exit callback has run

lifeVars == <<child, stopping, known, told>>

Verdicts == {"exited", "killed"}

\* A callback has run only for a published verdict.
LifeTypeOK ==
  /\ child \in [Children -> {"absent", "live", "gone"} \cup Verdicts]
  /\ stopping \subseteq Children
  /\ known \subseteq {c \in Children : child[c] \in Verdicts}
  /\ told \subseteq known

LifeInit ==
  /\ child = [c \in Children |-> "absent"]
  /\ stopping = {}
  /\ known = {}
  /\ told = {}

-----------------------------------------------------------------------------

\* start_process: the operating system has created the child.
Launch(c) ==
  /\ child[c] = "absent"
  /\ child' = [child EXCEPT ![c] = "live"]
  /\ UNCHANGED <<stopping, known, told>>

\* stop_process marks a child, perhaps one marked before.  It looks whether the child
\* is still published as running, but the end may be published before it marks.
RequestStop(c) ==
  /\ child[c] # "absent"
  /\ stopping' = stopping \cup {c}
  /\ UNCHANGED <<child, known, told>>

\* The last member of the child's process group is gone and its leader reaped.
Die(c) ==
  /\ child[c] = "live"
  /\ child' = [child EXCEPT ![c] = "gone"]
  /\ UNCHANGED <<stopping, known, told>>

\* _wait_for_exit decides between the two final statuses.
Judge(c) ==
  /\ child[c] = "gone"
  /\ child' = [child EXCEPT ![c] = IF c \in stopping THEN "killed" ELSE "exited"]
  /\ UNCHANGED <<stopping, known, told>>

\* _wait_for_exit replaces the ProcessInfo every reader sees.
Publish(c) ==
  /\ child[c] \in Verdicts
  /\ known' = known \cup {c}
  /\ UNCHANGED <<child, stopping, told>>

\* _deliver_exit runs the exit callback on the event loop.
Tell(c) ==
  /\ c \in known \ told
  /\ told' = told \cup {c}
  /\ UNCHANGED <<child, stopping, known>>

LifeNext ==
  \E c \in Children :
    Launch(c) \/ RequestStop(c) \/ Die(c) \/ Judge(c) \/ Publish(c) \/ Tell(c)

Spec == LifeInit /\ [][LifeNext]_lifeVars

=============================================================================
