------------------------------ MODULE LogFiles ------------------------------
(***************************************************************************)
(* What is written and how long it stays: HeartbeatLogger and OutputLogger *)
(* (src/process_launcher/log.py) as ProcessManager (process.py) uses them. *)
(*                                                                         *)
(* A child prints into a pipe, which holds a few lines.  An output thread  *)
(* copies them to the output file of the start, a watcher thread waits for *)
(* the end of the child and then for that thread, but not for ever.  Both  *)
(* kinds of files are deleted when nothing was written to them for longer  *)
(* than the retention.                                                     *)
(***************************************************************************)
EXTENDS Integers

CONSTANTS
  Children,       \* start_process calls
  Labels,
  DayLength,      \* instants of a day
  Retention,      \* retention_days, in instants
  PipeSize,       \* lines a pipe holds
  MaxLines,       \* bound on the lines of a child
  MaxTime,        \* bound on the clock
  LogMayFail      \* may heartbeat_logger.write_event raise?

ASSUME LogAssumption ==
  /\ DayLength \in Nat \ {0} /\ Retention \in Nat
  /\ PipeSize \in Nat \ {0} /\ MaxLines \in Nat /\ MaxTime \in Nat
  /\ LogMayFail \in BOOLEAN

VARIABLES
  now,
  life,       \* [Children]: "absent", "live", "gone", "known" to be gone
  output,     \* [Children]: its output file
  pump,       \* [Children]: its output thread
  pipe,       \* [Children]: lines in the pipe
  said,       \* [Children]: lines printed
  shown,      \* [Children]: lines written to the output file
  stamped,    \* [Children]: timestamp of an exit event still to be written
  disk,       \* the files there are, each with the time of its last write
  events,     \* the events in the heartbeat files
  written,    \* history: all events ever written
  wrote,      \* [Children]: history: when a line was last written to the file
  late        \* history: children published before the output thread was done

streams == <<output, pump, pipe, said, shown, wrote>>
heartbeat == <<stamped, events, written>>
vars == <<now, life, streams, heartbeat, disk, late>>

None == -1
Instants == 0 .. MaxTime
Day(t) == t \div DayLength

Heartbeats == {"heartbeat"} \X {Day(t) : t \in Instants}
Outputs == Labels \X Instants
NoFile == <<"none", None>>
Event == [child : Children, kind : {"started", "exited"}, ts : Instants]

TypeOK ==
  /\ now \in Instants
  /\ life \in [Children -> {"absent", "live", "gone", "known"}]
  /\ output \in [Children -> Outputs \cup {NoFile}]
  /\ pump \in [Children -> {"none", "reading", "done", "dead"}]
  /\ pipe \in [Children -> 0 .. PipeSize]
  /\ said \in [Children -> 0 .. MaxLines]
  /\ \A c \in Children : shown[c] + pipe[c] \in 0 .. said[c]
  /\ stamped \in [Children -> Instants \cup {None}]
  /\ DOMAIN disk \subseteq Heartbeats \cup Outputs
  /\ \A f \in DOMAIN disk : disk[f] \in 0 .. now
  /\ events \subseteq written /\ written \subseteq Event
  /\ wrote \in [Children -> Instants \cup {None}]
  /\ late \subseteq Children

Init ==
  /\ now = 0
  /\ life = [c \in Children |-> "absent"]
  /\ output = [c \in Children |-> NoFile]
  /\ pump = [c \in Children |-> "none"]
  /\ pipe = [c \in Children |-> 0] /\ said = pipe /\ shown = pipe
  /\ stamped = [c \in Children |-> None] /\ wrote = stamped
  /\ disk = [f \in {} |-> 0]
  /\ events = {} /\ written = {}
  /\ late = {}

-----------------------------------------------------------------------------
(* Files.                                                                  *)

\* Mutant: the day or second in the name counts, not the last write.
Expired_byName(f, d) ==
  (IF f \in Heartbeats THEN f[2] * DayLength ELSE f[2]) < now - Retention

Expired(f, d) == d[f] < now - Retention

\* cleanup, of either logger, on the files d.
Cleaned(d, files) ==
  [f \in {g \in DOMAIN d : ~(g \in files /\ Expired(g, d))} |-> d[f]]

\* File f is created or written to.
Touched(d, f) == [g \in DOMAIN d \cup {f} |-> IF g = f THEN now ELSE d[g]]

FileForDate(ts) == <<"heartbeat", Day(ts)>>

\* write_event under its lock, with a timestamp taken before, on the files d.
WriteEvent(e, d) ==
  LET kept == Cleaned(d, Heartbeats) IN
  /\ disk' = Touched(kept, FileForDate(e.ts))
  /\ events' = {f \in events : FileForDate(f.ts) \in DOMAIN kept} \cup {e}
  /\ written' = written \cup {e}

-----------------------------------------------------------------------------
(* Children and their threads.                                             *)

\* create_output_file, Popen, and then the event and the threads.
Start(c, label) ==
  LET file == <<label, now>>
      d == Touched(Cleaned(disk, Outputs), file) IN
  /\ life[c] = "absent"
  /\ life' = [life EXCEPT ![c] = "live"]
  /\ output' = [output EXCEPT ![c] = file]
  /\ wrote' = [wrote EXCEPT ![c] = now]
  /\ \/ /\ WriteEvent([child |-> c, kind |-> "started", ts |-> now], d)
        /\ pump' = [pump EXCEPT ![c] = "reading"]
     \/ /\ LogMayFail
        /\ disk' = d
        /\ UNCHANGED <<events, written, pump>>
  /\ UNCHANGED <<now, pipe, said, shown, stamped, late>>

\* The child prints a line; it waits while the pipe is full.
Say(c) ==
  /\ life[c] = "live" /\ said[c] < MaxLines /\ pipe[c] < PipeSize
  /\ said' = [said EXCEPT ![c] = @ + 1]
  /\ pipe' = [pipe EXCEPT ![c] = @ + 1]
  /\ UNCHANGED <<now, life, output, pump, shown, wrote, heartbeat, disk, late>>

\* Mutant: output is read when the child has ended.
Readable_atEnd(c) == pump[c] = "reading" /\ pipe[c] > 0 /\ life[c] # "live"

Readable(c) == pump[c] = "reading" /\ pipe[c] > 0

\* The output thread copies a line.  If the file was deleted the line goes where
\* nobody finds it.
Copy(c) ==
  /\ Readable(c)
  /\ pipe' = [pipe EXCEPT ![c] = @ - 1]
  /\ shown' = [shown EXCEPT ![c] = @ + 1]
  /\ IF output[c] \in DOMAIN disk
       THEN disk' = Touched(disk, output[c]) /\ wrote' = [wrote EXCEPT ![c] = now]
       ELSE UNCHANGED <<disk, wrote>>
  /\ UNCHANGED <<now, life, output, pump, said, heartbeat, late>>

\* A line that is not text in the expected encoding, or a disk that is full, ends
\* the output thread.
CopyFails(c) ==
  /\ Readable(c)
  /\ pipe' = [pipe EXCEPT ![c] = @ - 1]
  /\ pump' = [pump EXCEPT ![c] = "dead"]
  /\ UNCHANGED <<now, life, output, said, shown, wrote, heartbeat, disk, late>>

\* Nothing of the child's group is left.
End(c) ==
  /\ life[c] = "live"
  /\ life' = [life EXCEPT ![c] = "gone"]
  /\ UNCHANGED <<now, streams, heartbeat, disk, late>>

CopyEnds(c) ==
  /\ pump[c] = "reading" /\ pipe[c] = 0 /\ life[c] # "live"
  /\ pump' = [pump EXCEPT ![c] = "done"]
  /\ UNCHANGED <<now, life, output, pipe, said, shown, wrote, heartbeat, disk, late>>

\* Mutant: the output thread is not waited for.
Joined_never(c) == TRUE /\ UNCHANGED late

\* join(timeout=5.0)
Joined(c) ==
  \/ pump[c] # "reading" /\ UNCHANGED late
  \/ pump[c] = "reading" /\ late' = late \cup {c}

\* The watcher, if there is one, publishes the end and takes the timestamp of its
\* event.
Publish(c) ==
  /\ life[c] = "gone" /\ pump[c] # "none"
  /\ Joined(c)
  /\ life' = [life EXCEPT ![c] = "known"]
  /\ stamped' = [stamped EXCEPT ![c] = now]
  /\ UNCHANGED <<now, streams, events, written, disk>>

\* The event gets the lock, maybe much later, or raises.
LogExit(c) ==
  /\ stamped[c] # None
  /\ stamped' = [stamped EXCEPT ![c] = None]
  /\ \/ WriteEvent([child |-> c, kind |-> "exited", ts |-> stamped[c]], disk)
     \/ LogMayFail /\ UNCHANGED <<events, written, disk>>
  /\ UNCHANGED <<now, life, streams, late>>

Tick ==
  /\ now < MaxTime /\ now' = now + 1
  /\ UNCHANGED <<life, streams, heartbeat, disk, late>>

-----------------------------------------------------------------------------

OutputThread(c) == Copy(c) \/ CopyFails(c) \/ CopyEnds(c)

Next ==
  \/ \E c \in Children :
       \/ \E label \in Labels : Start(c, label)
       \/ Say(c) \/ End(c) \/ OutputThread(c) \/ Publish(c) \/ LogExit(c)
  \/ Tick

Spec == Init /\ [][Next]_vars

\* Threads run.
FairSpec ==
  /\ Spec
  /\ \A c \in Children : WF_vars(OutputThread(c)) /\ WF_vars(Publish(c))

-----------------------------------------------------------------------------
(* Properties.                                                             *)

\* An event stays as long as the retention says, though files are deleted as a
\* whole and threads write events later than their timestamps.
EventsKept ==
  \A e \in written : e.ts >= now - Retention => e \in events

\* An output file stays as long after the last line written to it, so the file of a
\* child that prints is there.  A child that is quiet for longer loses its file.
OutputKept ==
  \A c \in Children :
    wrote[c] # None /\ wrote[c] >= now - Retention => output[c] \in DOMAIN disk

\* A process published as ended has written all its output, unless the output
\* thread died or was given up.
OutputComplete ==
  \A c \in Children :
    life[c] = "known" /\ c \notin late /\ pump[c] # "dead" => shown[c] = said[c]

\* A child that waits for room in its pipe gets it, unless its output thread died
\* or was never started.
OutputDrains ==
  \A c \in Children :
    pipe[c] = PipeSize ~> pipe[c] < PipeSize \/ pump[c] \in {"none", "dead"}

=============================================================================
