--------------------------- MODULE LogFilesProofs ---------------------------
(***************************************************************************)
(* What holds of LogFiles for any number of children, labels and lines,    *)
(* any length of a day and any retention.                                  *)
(***************************************************************************)
EXTENDS LogFiles, TLAPS

Recent(t) == t >= now - Retention

\* What every file system the loggers leave behind looks like.
Dated(d) ==
  /\ DOMAIN d \subseteq Heartbeats \cup Outputs
  /\ \A f \in DOMAIN d : d[f] \in 0 .. now

\* No file written to recently is missing from e, or older there.
Spares(d, e) ==
  \A f \in DOMAIN d : Recent(d[f]) => f \in DOMAIN e /\ e[f] >= d[f]

\* A recent event is in its file, which is as young as the event: a thread may
\* write an event long after the time it bears, never before.
Filed(d) ==
  \A e \in written :
    Recent(e.ts) =>
      /\ e \in events
      /\ FileForDate(e.ts) \in DOMAIN d
      /\ d[FileForDate(e.ts)] >= e.ts

\* So is the last line of a child.
Held(c) ==
  wrote[c] # None =>
    /\ wrote[c] <= now
    /\ Recent(wrote[c]) => output[c] \in DOMAIN disk /\ disk[output[c]] >= wrote[c]

\* Where the lines of a child are.
Flow(c) ==
  /\ shown[c] + pipe[c] <= said[c]
  /\ pump[c] # "dead" => shown[c] + pipe[c] = said[c]
  /\ pump[c] = "done" => pipe[c] = 0 /\ life[c] # "live"
  /\ life[c] = "absent" => pump[c] = "none"
  /\ life[c] = "known" => pump[c] # "none" /\ (pump[c] = "reading" => c \in late)

LInv ==
  /\ TypeOK
  /\ shown \in [Children -> Nat]
  /\ Filed(disk)
  /\ \A c \in Children : stamped[c] <= now /\ Held(c) /\ Flow(c)

-----------------------------------------------------------------------------
(* Files.                                                                  *)

\* Writing to a file takes it to the present and leaves the others alone.
LEMMA TouchedIs ==
  ASSUME NEW d, NEW f
  PROVE  /\ DOMAIN Touched(d, f) = DOMAIN d \cup {f}
         /\ Touched(d, f)[f] = now
         /\ \A g \in DOMAIN d : g # f => Touched(d, f)[g] = d[g]
BY DEF Touched

LEMMA TouchedDated ==
  ASSUME NEW d, Dated(d), NEW f \in Heartbeats \cup Outputs, now \in Nat
  PROVE  Dated(Touched(d, f)) /\ Spares(d, Touched(d, f))
<1>1. PICK e : e = Touched(d, f)
  OBVIOUS
<1>2. /\ DOMAIN e = DOMAIN d \cup {f} /\ e[f] = now
      /\ \A g \in DOMAIN d : g # f => e[g] = d[g]
  BY <1>1, TouchedIs
<1>3. Dated(e)
  BY <1>2 DEF Dated
<1>4. \A g \in DOMAIN d : g \in DOMAIN e /\ e[g] >= d[g]
  BY <1>2 DEF Dated
<1>5. Spares(d, e)
  BY <1>4 DEF Spares
<1>. QED  BY <1>1, <1>3, <1>5

\* A cleanup deletes nothing that is recent, of whichever kind.
LEMMA CleanedDated ==
  ASSUME NEW d, Dated(d), NEW files, now \in Nat, Retention \in Nat
  PROVE  Dated(Cleaned(d, files)) /\ Spares(d, Cleaned(d, files))
<1>1. /\ \A g \in DOMAIN Cleaned(d, files) : g \in DOMAIN d /\ Cleaned(d, files)[g] = d[g]
      /\ \A g \in DOMAIN d : ~Expired(g, d) =>
           g \in DOMAIN Cleaned(d, files) /\ Cleaned(d, files)[g] = d[g]
  BY DEF Cleaned
<1>2. \A g \in DOMAIN d : Recent(d[g]) => ~Expired(g, d) /\ d[g] \in Int
  BY DEF Recent, Expired, Dated
<1>. QED  BY <1>1, <1>2 DEF Dated, Spares

LEMMA SparesTwice ==
  ASSUME NEW d, NEW e, NEW f, Dated(d), Dated(e), Dated(f), now \in Nat, Retention \in Nat,
         Spares(d, e), Spares(e, f)
  PROVE  Spares(d, f)
<1> SUFFICES ASSUME NEW g \in DOMAIN d, Recent(d[g])
             PROVE  g \in DOMAIN f /\ f[g] >= d[g]
  BY DEF Spares
<1>1. g \in DOMAIN e /\ e[g] >= d[g] /\ d[g] \in Int /\ e[g] \in Int
  BY DEF Spares, Dated
<1>2. Recent(e[g])
  BY <1>1 DEF Recent
<1>3. g \in DOMAIN f /\ f[g] >= e[g] /\ f[g] \in Int
  BY <1>1, <1>2 DEF Spares, Dated
<1>. QED  BY <1>1, <1>3

\* What is filed in d is filed in a file system that spares what is recent.
LEMMA FiledSpared ==
  ASSUME NEW d, NEW e, Dated(d), Dated(e), Spares(d, e), Filed(d), now \in Nat, Retention \in Nat,
         written \subseteq Event
  PROVE  Filed(e)
<1> SUFFICES ASSUME NEW x \in written, Recent(x.ts)
             PROVE  /\ x \in events /\ FileForDate(x.ts) \in DOMAIN e
                    /\ e[FileForDate(x.ts)] >= x.ts
  BY DEF Filed
<1> DEFINE g == FileForDate(x.ts)
<1>0. x.ts \in Int
  BY DEF Event, Instants
<1>1. x \in events /\ g \in DOMAIN d /\ d[g] >= x.ts /\ d[g] \in Int
  BY DEF Filed, Dated
<1>2. Recent(d[g])
  BY <1>0, <1>1 DEF Recent
<1>3. g \in DOMAIN e /\ e[g] >= d[g] /\ e[g] \in Int
  BY <1>1, <1>2 DEF Spares, Dated
<1>. QED  BY <1>0, <1>1, <1>3

LEMMA FileIsHeartbeat ==
  ASSUME NEW t \in Instants
  PROVE  FileForDate(t) \in Heartbeats
BY DEF FileForDate, Heartbeats

\* write_event: the events of the files it deletes are old, and the new event is
\* in a file that was just written to.
LEMMA EventFiled ==
  ASSUME now \in Nat, now' = now, written \subseteq Event, events \subseteq written,
         NEW d, Dated(d), Filed(d), NEW e \in Event, e.ts <= now, WriteEvent(e, d)
  PROVE  /\ Dated(disk') /\ Spares(d, disk') /\ Filed(disk)'
         /\ written' \subseteq Event /\ events' \subseteq written'
<1> USE LogAssumption
<1>1. PICK kept : /\ kept = Cleaned(d, Heartbeats)
                  /\ disk' = Touched(kept, FileForDate(e.ts))
                  /\ events' = {f \in events : FileForDate(f.ts) \in DOMAIN kept} \cup {e}
                  /\ written' = written \cup {e}
  BY DEF WriteEvent
<1>2. Dated(kept) /\ Spares(d, kept)
  BY <1>1, CleanedDated
<1>3. FileForDate(e.ts) \in Heartbeats /\ e.ts \in Int
  BY FileIsHeartbeat DEF Event, Instants
<1>4. Dated(disk') /\ Spares(kept, disk')
  BY <1>1, <1>2, <1>3, TouchedDated
<1>5. Spares(d, disk')
  BY <1>2, <1>4, SparesTwice
<1>6. Filed(kept)
  BY <1>2, FiledSpared
<1>7. ASSUME NEW x \in written', x.ts >= now - Retention
      PROVE  /\ x \in events' /\ FileForDate(x.ts) \in DOMAIN disk'
             /\ disk'[FileForDate(x.ts)] >= x.ts
  <2>1. CASE x = e
    <3>1. FileForDate(e.ts) \in DOMAIN disk' /\ disk'[FileForDate(e.ts)] = now
      BY <1>1 DEF Touched
    <3>. QED  BY <1>1, <1>3, <2>1, <3>1
  <2>2. CASE x # e
    <3> DEFINE g == FileForDate(x.ts)
    <3>1. x \in written /\ x.ts \in Int
      BY <1>1, <1>7, <2>2 DEF Event, Instants
    <3>2. x \in events /\ g \in DOMAIN kept /\ kept[g] >= x.ts /\ kept[g] \in Int
      BY <1>2, <1>6, <1>7, <3>1 DEF Filed, Recent, Dated
    <3>3. g \in DOMAIN disk' /\ disk'[g] >= kept[g] /\ disk'[g] \in Int
      BY <1>4, <1>7, <3>1, <3>2 DEF Spares, Recent, Dated
    <3>. QED  BY <1>1, <3>1, <3>2, <3>3
  <2>. QED  BY <2>1, <2>2
<1>8. Filed(disk)'
  BY <1>7 DEF Filed, Recent, FileForDate, Day
<1>. QED  BY <1>1, <1>4, <1>5, <1>8

\* A line or an event later still finds what was recent.
LEMMA HeldSpared ==
  ASSUME now \in Nat, now' = now, NEW c \in Children, Held(c), wrote[c] \in Int,
         Dated(disk), Dated(disk'), Spares(disk, disk'),
         wrote'[c] = wrote[c], output'[c] = output[c]
  PROVE  Held(c)'
<1> USE LogAssumption
<1>1. CASE wrote[c] = None \/ ~Recent(wrote[c])
  BY <1>1 DEF Held, Recent
<1>2. CASE wrote[c] # None /\ Recent(wrote[c])
  <2> DEFINE f == output[c]
  <2>1. wrote[c] <= now /\ f \in DOMAIN disk /\ disk[f] >= wrote[c] /\ disk[f] \in Int
    BY <1>2 DEF Held, Dated
  <2>2. Recent(disk[f])
    BY <1>2, <2>1 DEF Recent
  <2>3. f \in DOMAIN disk' /\ disk'[f] >= disk[f] /\ disk'[f] \in Int
    BY <2>1, <2>2 DEF Spares, Dated
  <2>. QED  BY <2>1, <2>3 DEF Held
<1>. QED  BY <1>1, <1>2

LEMMA FlowKept ==
  ASSUME NEW c \in Children, Flow(c),
         shown'[c] = shown[c], pipe'[c] = pipe[c], said'[c] = said[c],
         pump'[c] = pump[c], life'[c] = life[c], c \in late => c \in late'
  PROVE  Flow(c)'
BY DEF Flow

\* What TypeOK and the counts of Flow come to.
LEMMA Types ==
  ASSUME LInv
  PROVE  /\ now \in Nat /\ now <= MaxTime /\ Dated(disk)
         /\ written \subseteq Event /\ events \subseteq written
         /\ \A c \in Children :
              /\ pipe[c] \in Nat /\ said[c] \in Nat /\ shown[c] \in Nat
              /\ wrote[c] \in Int /\ stamped[c] \in Int
BY LogAssumption DEF LInv, TypeOK, Dated, Flow, Instants, None

-----------------------------------------------------------------------------
(* The invariant, action by action.                                        *)

LEMMA InitLInv == Init => LInv
<1> USE LogAssumption
<1> SUFFICES ASSUME Init PROVE LInv
  OBVIOUS
<1>1. DOMAIN disk = {}
  BY DEF Init
<1>2. TypeOK
  BY <1>1 DEF Init, TypeOK, Instants, None
<1>3. Filed(disk)
  BY DEF Init, Filed
<1>4. ASSUME NEW c \in Children
      PROVE  stamped[c] <= now /\ Held(c) /\ Flow(c)
  <2>1. /\ now = 0 /\ stamped[c] = -1 /\ wrote[c] = None /\ life[c] = "absent"
        /\ pump[c] = "none" /\ pipe[c] = 0 /\ said[c] = 0 /\ shown[c] = 0
    BY DEF Init, None
  <2>. QED  BY <2>1 DEF Held, Flow
<1>5. shown \in [Children -> Nat]
  BY DEF Init
<1>. QED  BY <1>2, <1>3, <1>4, <1>5 DEF LInv

\* Start: both cleanups, the new output file and perhaps the event.
LEMMA StartFiles ==
  ASSUME LInv, NEW c \in Children, NEW label \in Labels, Start(c, label)
  PROVE  /\ Dated(disk') /\ Spares(disk, disk') /\ Filed(disk)'
         /\ written' \subseteq Event /\ events' \subseteq written'
         /\ output'[c] \in DOMAIN disk' /\ disk'[output'[c]] >= now
         /\ output' \in [Children -> Outputs \cup {NoFile}]
<1> USE LogAssumption
<1>0. now \in Nat /\ now \in Instants /\ now' = now /\ output \in [Children -> Outputs \cup {NoFile}]
  BY Types DEF Start, LInv, TypeOK
<1>1. PICK f, k, d :
        /\ f = <<label, now>> /\ k = Cleaned(disk, Outputs) /\ d = Touched(k, f)
        /\ output' = [output EXCEPT ![c] = f]
        /\ \/ WriteEvent([child |-> c, kind |-> "started", ts |-> now], d)
           \/ disk' = d /\ UNCHANGED <<events, written>>
  BY DEF Start
<1>2. f \in Outputs /\ output'[c] = f
  BY <1>0, <1>1 DEF Outputs
<1>3. Dated(k) /\ Spares(disk, k)
  BY <1>1, Types, CleanedDated
<1>4. Dated(d) /\ Spares(k, d) /\ f \in DOMAIN d /\ d[f] = now
  <2>1. Dated(d) /\ Spares(k, d)
    BY <1>0, <1>1, <1>2, <1>3, TouchedDated
  <2>2. f \in DOMAIN d /\ d[f] = now
    BY <1>1 DEF Touched
  <2>. QED  BY <2>1, <2>2
<1>5. Spares(disk, d)
  BY <1>0, <1>3, <1>4, Types, SparesTwice
<1>6. Filed(d)
  BY <1>0, <1>4, <1>5, Types, FiledSpared DEF LInv
<1>7. output' \in [Children -> Outputs \cup {NoFile}]
  BY <1>0, <1>1, <1>2, Zenon
<1>8. CASE WriteEvent([child |-> c, kind |-> "started", ts |-> now], d)
  <2> DEFINE e == [child |-> c, kind |-> "started", ts |-> now]
  <2>1. e \in Event /\ e.ts <= now
    BY <1>0 DEF Event
  <2>2. /\ Dated(disk') /\ Spares(d, disk') /\ Filed(disk)'
        /\ written' \subseteq Event /\ events' \subseteq written'
    BY <1>0, <1>4, <1>6, <1>8, <2>1, Types, EventFiled
  <2>3. Spares(disk, disk')
    BY <1>0, <1>4, <1>5, <2>2, Types, SparesTwice
  <2>4. f \in DOMAIN disk' /\ disk'[f] >= now
    BY <1>0, <1>4, <2>2 DEF Spares, Recent
  <2>. QED  BY <1>2, <1>7, <2>2, <2>3, <2>4
<1>9. CASE disk' = d /\ UNCHANGED <<events, written>>
  <2>1. Filed(disk)'
    BY <1>0, <1>6, <1>9 DEF Filed, Recent, FileForDate, Day
  <2>. QED  BY <1>0, <1>2, <1>4, <1>5, <1>7, <1>9, <2>1, Types
<1>. QED  BY <1>1, <1>8, <1>9

LEMMA StartLInv ==
  ASSUME LInv, NEW c \in Children, NEW label \in Labels, Start(c, label)
  PROVE  LInv'
<1> USE LogAssumption
<1>0. now \in Nat /\ now \in Instants /\ now' = now
  BY Types DEF Start, LInv, TypeOK
<1>1. /\ life[c] = "absent" /\ life' = [life EXCEPT ![c] = "live"]
      /\ wrote' = [wrote EXCEPT ![c] = now]
      /\ pump' = [pump EXCEPT ![c] = "reading"] \/ UNCHANGED pump
      /\ UNCHANGED <<pipe, said, shown, stamped, late>>
      /\ \A b \in Children \ {c} : output'[b] = output[b]
  BY DEF Start, LInv, TypeOK
<1>2. /\ Dated(disk') /\ Spares(disk, disk') /\ Filed(disk)'
      /\ written' \subseteq Event /\ events' \subseteq written'
      /\ output'[c] \in DOMAIN disk' /\ disk'[output'[c]] >= now
      /\ output' \in [Children -> Outputs \cup {NoFile}]
  BY StartFiles
<1>3. /\ life' \in [Children -> {"absent", "live", "gone", "known"}]
      /\ wrote' \in [Children -> Instants \cup {None}]
      /\ pump' \in [Children -> {"none", "reading", "done", "dead"}]
      /\ life'[c] = "live" /\ wrote'[c] = now
      /\ \A b \in Children \ {c} :
           life'[b] = life[b] /\ wrote'[b] = wrote[b] /\ pump'[b] = pump[b]
      /\ pump'[c] \in {"reading", pump[c]}
  BY <1>0, <1>1 DEF LInv, TypeOK
<1>4. TypeOK'
  BY <1>0, <1>1, <1>2, <1>3 DEF LInv, TypeOK, Dated
<1>5. ASSUME NEW b \in Children \ {c}
      PROVE  stamped'[b] <= now' /\ Held(b)' /\ Flow(b)'
  <2>1. stamped[b] <= now /\ Held(b) /\ Flow(b)
    BY DEF LInv
  <2>2. Held(b)'
    BY <1>0, <1>1, <1>2, <1>3, <2>1, Types, HeldSpared
  <2>. QED  BY <1>0, <1>1, <1>3, <2>1, <2>2, FlowKept
<1>6. stamped'[c] <= now' /\ Held(c)' /\ Flow(c)'
  <2>1. stamped[c] <= now /\ Flow(c)
    BY DEF LInv
  <2>2. Held(c)'
    BY <1>0, <1>2, <1>3 DEF Held
  <2>3. Flow(c)'
    BY <1>1, <1>3, <2>1 DEF Flow
  <2>. QED  BY <1>0, <1>1, <2>1, <2>2, <2>3
<1>. QED  BY <1>1, <1>2, <1>4, <1>5, <1>6 DEF LInv

LEMMA CopyLInv ==
  ASSUME LInv, NEW c \in Children, Copy(c)
  PROVE  LInv'
<1> USE LogAssumption
<1>0. now \in Nat /\ now \in Instants /\ now' = now
  BY Types DEF Copy, LInv, TypeOK
<1>1. /\ pump[c] = "reading" /\ pipe[c] > 0
      /\ pipe' = [pipe EXCEPT ![c] = @ - 1] /\ shown' = [shown EXCEPT ![c] = @ + 1]
      /\ UNCHANGED <<life, output, pump, said, stamped, events, written, late>>
  BY DEF Copy, Readable, heartbeat
<1>2. /\ pipe' \in [Children -> 0 .. PipeSize]
      /\ pipe'[c] = pipe[c] - 1
      /\ \A b \in Children \ {c} : pipe'[b] = pipe[b]
  BY <1>1 DEF LInv, TypeOK
<1>3. /\ shown' \in [Children -> Nat]
      /\ shown'[c] = shown[c] + 1
      /\ \A b \in Children \ {c} : shown'[b] = shown[b]
  BY <1>1 DEF LInv
<1>4. \A b \in Children : Flow(b)'
  <2>1. Flow(c)'
    BY <1>1, <1>2, <1>3, Types DEF LInv, Flow
  <2>2. \A b \in Children \ {c} : Flow(b)'
    BY <1>1, <1>2, <1>3, FlowKept DEF LInv
  <2>. QED  BY <2>1, <2>2
<1>5. /\ Dated(disk') /\ Spares(disk, disk')
      /\ wrote' \in [Children -> Instants \cup {None}]
      /\ \A b \in Children : Held(b)'
  <2>1. CASE output[c] \in DOMAIN disk
    <3>1. disk' = Touched(disk, output[c]) /\ wrote' = [wrote EXCEPT ![c] = now]
      BY <2>1 DEF Copy
    <3>2. output[c] \in Heartbeats \cup Outputs
      BY <2>1, Types DEF Dated
    <3>3. Dated(disk') /\ Spares(disk, disk')
      BY <1>0, <3>1, <3>2, Types, TouchedDated
    <3>4. output[c] \in DOMAIN disk' /\ disk'[output[c]] = now
      BY <3>1 DEF Touched
    <3>5. /\ wrote' \in [Children -> Instants \cup {None}] /\ wrote'[c] = now
          /\ \A b \in Children \ {c} : wrote'[b] = wrote[b]
      BY <1>0, <3>1 DEF LInv, TypeOK
    <3>6. Held(c)'
      BY <1>0, <1>1, <3>4, <3>5 DEF Held
    <3>7. \A b \in Children \ {c} : Held(b)'
      BY <1>0, <1>1, <3>3, <3>5, Types, HeldSpared DEF LInv
    <3>. QED  BY <3>3, <3>5, <3>6, <3>7
  <2>2. CASE output[c] \notin DOMAIN disk
    <3>1. UNCHANGED <<disk, wrote>>
      BY <2>2 DEF Copy
    <3>2. Spares(disk, disk)
      BY Types DEF Spares, Dated
    <3>. QED  BY <1>0, <1>1, <3>1, <3>2, Types DEF LInv, TypeOK, Held, Recent
  <2>. QED  BY <2>1, <2>2
<1>6. Filed(disk)'
  <2>1. Filed(disk')
    BY <1>0, <1>5, Types, FiledSpared DEF LInv
  <2>. QED  BY <1>0, <1>1, <2>1 DEF Filed, Recent, FileForDate, Day
<1>7. TypeOK'
  BY <1>0, <1>1, <1>2, <1>3, <1>4, <1>5, Types DEF LInv, TypeOK, Dated, Flow
<1>. QED  BY <1>0, <1>1, <1>3, <1>4, <1>5, <1>6, <1>7 DEF LInv

LEMMA LogExitLInv ==
  ASSUME LInv, NEW c \in Children, LogExit(c)
  PROVE  LInv'
<1> USE LogAssumption
<1>0. now \in Nat /\ now \in Instants /\ now' = now
  BY Types DEF LogExit, LInv, TypeOK
<1>1. /\ stamped[c] # None /\ stamped' = [stamped EXCEPT ![c] = None]
      /\ \/ WriteEvent([child |-> c, kind |-> "exited", ts |-> stamped[c]], disk)
         \/ UNCHANGED <<events, written, disk>>
      /\ UNCHANGED <<life, output, pump, pipe, said, shown, wrote, late>>
  BY DEF LogExit, streams
<1>2. /\ stamped' \in [Children -> Instants \cup {None}]
      /\ \A b \in Children : stamped'[b] <= now
  BY <1>0, <1>1 DEF LInv, TypeOK, None
<1>3. /\ Dated(disk') /\ Spares(disk, disk') /\ Filed(disk)'
      /\ written' \subseteq Event /\ events' \subseteq written'
  <2>1. CASE WriteEvent([child |-> c, kind |-> "exited", ts |-> stamped[c]], disk)
    <3> DEFINE e == [child |-> c, kind |-> "exited", ts |-> stamped[c]]
    <3>1. e \in Event /\ e.ts <= now
      BY <1>1 DEF LInv, TypeOK, Event
    <3>. QED  BY <1>0, <2>1, <3>1, Types, EventFiled DEF LInv
  <2>2. CASE UNCHANGED <<events, written, disk>>
    <3>1. Spares(disk, disk')
      BY <2>2, Types DEF Spares, Dated
    <3>2. Filed(disk)'
      BY <1>0, <2>2 DEF LInv, Filed, Recent, FileForDate, Day
    <3>. QED  BY <2>2, <3>1, <3>2, Types
  <2>. QED  BY <1>1, <2>1, <2>2
<1>4. \A b \in Children : Held(b)' /\ Flow(b)'
  BY <1>0, <1>1, <1>3, Types, HeldSpared, FlowKept DEF LInv
<1>5. TypeOK'
  BY <1>0, <1>1, <1>2, <1>3 DEF LInv, TypeOK, Dated
<1>. QED  BY <1>0, <1>1, <1>2, <1>3, <1>4, <1>5 DEF LInv

\* Steps that write no file: what was filed and held still is.
LEMMA DryStep ==
  ASSUME LInv, UNCHANGED <<now, disk, events, written, output, wrote>>
  PROVE  Filed(disk)' /\ \A c \in Children : Held(c)'
BY DEF LInv, Filed, Held, Recent, FileForDate, Day

LEMMA DryLInv ==
  ASSUME LInv, NEW c \in Children, Say(c) \/ CopyFails(c) \/ End(c) \/ CopyEnds(c) \/ Publish(c)
  PROVE  LInv'
<1> USE LogAssumption
<1>0. UNCHANGED <<now, disk, events, written, output, wrote>>
  BY DEF Say, CopyFails, End, CopyEnds, Publish, streams, heartbeat
<1>1. Filed(disk)' /\ \A b \in Children : Held(b)'
  BY <1>0, DryStep
<1>2. /\ shown' = shown
      /\ said' \in [Children -> 0 .. MaxLines] /\ pipe' \in [Children -> 0 .. PipeSize]
      /\ life' \in [Children -> {"absent", "live", "gone", "known"}]
      /\ pump' \in [Children -> {"none", "reading", "done", "dead"}]
      /\ late' \subseteq Children
      /\ \A b \in Children \ {c} :
           /\ said'[b] = said[b] /\ pipe'[b] = pipe[b] /\ life'[b] = life[b]
           /\ pump'[b] = pump[b] /\ (b \in late => b \in late')
  <2>1. CASE Say(c)
    BY <2>1 DEF Say, LInv, TypeOK
  <2>2. CASE CopyFails(c)
    BY <2>2 DEF CopyFails, Readable, LInv, TypeOK
  <2>3. CASE End(c) \/ CopyEnds(c)
    BY <2>3 DEF End, CopyEnds, LInv, TypeOK, streams
  <2>4. CASE Publish(c)
    BY <2>4 DEF Publish, Joined, LInv, TypeOK, streams
  <2>. QED  BY <2>1, <2>2, <2>3, <2>4
<1>3. Flow(c)'
  <2>0. Flow(c) /\ said[c] \in Nat /\ pipe[c] \in Nat /\ shown[c] \in Nat
    BY Types DEF LInv
  <2>1. CASE Say(c)
    BY <2>0, <2>1 DEF Say, LInv, TypeOK, Flow
  <2>2. CASE CopyFails(c)
    BY <2>0, <2>2 DEF CopyFails, Readable, LInv, TypeOK, Flow
  <2>3. CASE End(c) \/ CopyEnds(c)
    BY <2>0, <2>3 DEF End, CopyEnds, LInv, TypeOK, streams, Flow
  <2>4. CASE Publish(c)
    BY <2>0, <2>4 DEF Publish, Joined, LInv, TypeOK, streams, Flow
  <2>. QED  BY <2>1, <2>2, <2>3, <2>4
<1>4. \A b \in Children : Flow(b)'
  BY <1>2, <1>3, FlowKept DEF LInv
<1>5. /\ stamped' \in [Children -> Instants \cup {None}]
      /\ \A b \in Children : stamped'[b] <= now
  <2>1. UNCHANGED stamped \/ stamped' = [stamped EXCEPT ![c] = now]
    BY DEF Say, CopyFails, End, CopyEnds, Publish, heartbeat
  <2>. QED  BY <2>1, Types DEF LInv, TypeOK
<1>6. TypeOK'
  BY <1>0, <1>2, <1>4, <1>5, Types DEF LInv, TypeOK, Flow
<1>. QED  BY <1>0, <1>1, <1>2, <1>4, <1>5, <1>6 DEF LInv

\* With the clock the cutoff moves on: what is recent then is recent now.
LEMMA TickLInv == ASSUME LInv, Tick PROVE LInv'
<1> USE LogAssumption
<1>1. /\ now' = now + 1 /\ now < MaxTime /\ now \in Nat
      /\ UNCHANGED <<life, output, pump, pipe, said, shown, wrote, stamped, events, written, disk, late>>
  BY Types DEF Tick, streams, heartbeat
<1>2. \A t \in Int : t >= now' - Retention => Recent(t)
  BY <1>1 DEF Recent
<1>3. \A e \in written : e.ts \in Int
  BY Types DEF Event, Instants
<1>4. Filed(disk)'
  BY <1>1, <1>2, <1>3 DEF LInv, Filed, Recent, FileForDate, Day
<1>5. \A c \in Children : stamped'[c] <= now' /\ Held(c)' /\ Flow(c)'
  BY <1>1, <1>2, Types DEF LInv, Held, Recent, Flow
<1>6. TypeOK'
  BY <1>1 DEF LInv, TypeOK, Instants
<1>. QED  BY <1>1, <1>4, <1>5, <1>6 DEF LInv

LEMMA NextLInv == LInv /\ [Next]_vars => LInv'
<1> SUFFICES ASSUME LInv, [Next]_vars PROVE LInv'
  OBVIOUS
<1>1. CASE UNCHANGED vars
  BY <1>1, DryStep DEF LInv, TypeOK, Flow, vars, streams, heartbeat
<1>2. CASE Tick
  BY <1>2, TickLInv
<1>3. ASSUME NEW c \in Children, NEW label \in Labels, Start(c, label)
      PROVE  LInv'
  BY <1>3, StartLInv
<1>4. ASSUME NEW c \in Children,
             Say(c) \/ End(c) \/ OutputThread(c) \/ Publish(c) \/ LogExit(c)
      PROVE  LInv'
  BY <1>4, CopyLInv, LogExitLInv, DryLInv DEF OutputThread
<1>. QED  BY <1>1, <1>2, <1>3, <1>4 DEF Next

-----------------------------------------------------------------------------
(* The theorems.                                                           *)

THEOREM LogInvariant == Spec => []LInv
BY InitLInv, NextLInv, PTL DEF Spec

\* Every variable keeps its type.
THEOREM LogTypes == Spec => []TypeOK
<1>1. LInv => TypeOK
  BY DEF LInv
<1>. QED  BY LogInvariant, <1>1, PTL

\* write_event and cleanup, of whichever thread and however late: no event goes
\* before the retention is over.
THEOREM EventsAreKept == Spec => []EventsKept
<1>1. LInv => EventsKept
  BY DEF LInv, Filed, Recent, EventsKept
<1>. QED  BY LogInvariant, <1>1, PTL

\* The cleanup of create_output_file spares the files of all children that have
\* written a line within the retention.
THEOREM OutputIsKept == Spec => []OutputKept
<1>1. LInv => OutputKept
  BY DEF LInv, Held, Recent, OutputKept
<1>. QED  BY LogInvariant, <1>1, PTL

\* _wait_for_exit publishes the end of a child only when all it printed is in its
\* output file, unless the output thread died or its join ran out of time.
THEOREM OutputIsComplete == Spec => []OutputComplete
<1>1. ASSUME LInv, NEW c \in Children, life[c] = "known", c \notin late, pump[c] # "dead"
      PROVE  shown[c] = said[c]
  <2>1. Flow(c) /\ pump[c] \in {"none", "reading", "done", "dead"}
    BY <1>1 DEF LInv, TypeOK
  <2>. QED  BY <1>1, <2>1, Types DEF Flow
<1>2. LInv => OutputComplete
  BY <1>1 DEF OutputComplete
<1>. QED  BY LogInvariant, <1>2, PTL

=============================================================================
