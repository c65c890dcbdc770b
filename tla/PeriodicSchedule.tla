-------------------------- MODULE PeriodicSchedule --------------------------
(***************************************************************************)
(* When a recurring job runs: next_run_after and the loop around it        *)
(* (src/process_launcher/periodic.py), for one job.                        *)
(*                                                                         *)
(* Python compares and subtracts two datetimes of one zone by their wall   *)
(* clock readings, so the loop computes in wall clock time but sleeps in   *)
(* real time.  A wall clock time is a number of seconds since a Monday     *)
(* midnight; the zone changes its offset at most once.                     *)
(***************************************************************************)
EXTENDS Integers

CONSTANTS
  Schedules,      \* what YAML may say
  Starts,         \* instants at which the first loop may begin
  Zones,          \* offset changes: [at : Nat, shift : Int]
  Delays,         \* how late a loop may be, how long it runs until a reload
  MaxRuns,        \* bound on the runs of one loop
  MaxReloads      \* bound on reloads

Minute == 60
Hour == 60 * Minute
Day == 24 * Hour
Weekdays == 0 .. 6                   \* Monday is 0
CronHorizon == 366 * 24 * 60         \* minutes

\* What next_run_after returns when it raises.
Raises == -1

\* A part of a cron field: "*/a", "a-b" or "a".  "*" is "*/1".
CronParts ==
  [kind : {"step"}, a : Nat \ {0}, b : {0}]
    \cup [kind : {"range"}, a : Nat, b : Nat]
    \cup [kind : {"value"}, a : Nat, b : {0}]

\* A field: the parts before the first one that cannot be read, if there is one.
IsField(f) == f.parts \subseteq CronParts /\ f.unreadable \in BOOLEAN

TimesOfDay == {m * Minute : m \in 0 .. 24 * 60 - 1}

\* A schedule that validate_schedule lets pass.  "unparsable" stands for a time
\* of day, a weekday or a zone that is looked at only when a run is computed.
IsSchedule(s) ==
  \/ s.type = "interval" /\ s.every \in Nat \ {0}
  \/ s.type = "daily" /\ s.time \in TimesOfDay
  \/ s.type = "weekly" /\ s.time \in TimesOfDay /\ s.days \subseteq Weekdays /\ s.days # {}
  \/ s.type = "cron" /\ IsField(s.minute) /\ IsField(s.hour) /\ IsField(s.dow)
  \/ s.type = "unparsable"

ASSUME ScheduleAssumption ==
  /\ \A s \in Schedules : IsSchedule(s)
  /\ Starts \subseteq Nat
  /\ \A z \in Zones : z.at \in Nat /\ z.shift \in Int /\ z.at + z.shift >= 0
  /\ Delays \subseteq Nat
  /\ MaxRuns \in Nat /\ MaxReloads \in Nat

-----------------------------------------------------------------------------
(* next_run_after, for a wall clock time w.                                *)

Midnight(w) == w - (w % Day)
Weekday(w) == (w \div Day) % 7

NextDaily(w, time) ==
  LET today == Midnight(w) + time IN IF today <= w THEN today + Day ELSE today

\* Days from w's day on that have the weekday and whose time is still to come.
Coming(w, time, days, offsets) ==
  {k \in offsets : Weekday(w + k * Day) \in days /\ Midnight(w) + k * Day + time > w}

First(S) == CHOOSE k \in S : \A j \in S : k <= j

\* Mutant: a week of offsets instead of eight days.
NextWeekly_sevenDays(w, time, days) ==
  LET coming == Coming(w, time, days, 0 .. 6) IN
  IF coming = {} THEN Raises ELSE Midnight(w) + First(coming) * Day + time

NextWeekly(w, time, days) ==
  LET coming == Coming(w, time, days, 0 .. 7) IN
  IF coming = {} THEN Raises ELSE Midnight(w) + First(coming) * Day + time

\* Parts are looked at from left to right.
FieldMatches(v, field, lo, hi) ==
  \E p \in field.parts :
    \/ p.kind = "step" /\ (v - lo) % p.a = 0
    \/ p.kind = "range" /\ p.a <= v /\ v <= p.b
    \/ p.kind = "value" /\ lo <= p.a /\ p.a <= hi /\ v = p.a

FieldRaises(v, field, lo, hi) == field.unreadable /\ ~FieldMatches(v, field, lo, hi)

MinuteOf(w) == (w \div Minute) % 60
HourOf(w) == (w \div Hour) % 24

DowOf(w) == (Weekday(w) + 1) % 7

\* The fields for day of month and month are not looked at.
MatchesCron(w, s) ==
  /\ FieldMatches(MinuteOf(w), s.minute, 0, 59)
  /\ FieldMatches(HourOf(w), s.hour, 0, 23)
  /\ FieldMatches(DowOf(w), s.dow, 0, 6)

\* A field is looked at only if those before it match.
CronRaises(w, s) ==
  \/ FieldRaises(MinuteOf(w), s.minute, 0, 59)
  \/ /\ FieldMatches(MinuteOf(w), s.minute, 0, 59)
     /\ \/ FieldRaises(HourOf(w), s.hour, 0, 23)
        \/ /\ FieldMatches(HourOf(w), s.hour, 0, 23)
           /\ FieldRaises(DowOf(w), s.dow, 0, 6)

StopsAt(w, s) == MatchesCron(w, s) \/ CronRaises(w, s)

\* The k-th minute after that of w.
MinuteAfter(w, k) == w - (w % Minute) + k * Minute

\* Is the k-th the first minute at which the search ends?
Found(w, s, k) ==
  StopsAt(MinuteAfter(w, k), s) /\ \A j \in 1 .. k - 1 : ~StopsAt(MinuteAfter(w, j), s)

NextCron(w, s) ==
  IF \E k \in 1 .. CronHorizon : Found(w, s, k)
    THEN LET k == CHOOSE k \in 1 .. CronHorizon : Found(w, s, k) IN
         IF MatchesCron(MinuteAfter(w, k), s) THEN MinuteAfter(w, k) ELSE Raises
    ELSE Raises

NextRunAfter(s, w) ==
  CASE s.type = "interval"   -> w + s.every
    [] s.type = "daily"      -> NextDaily(w, s.time)
    [] s.type = "weekly"     -> NextWeekly(w, s.time, s.days)
    [] s.type = "cron"       -> NextCron(w, s)
    [] s.type = "unparsable" -> Raises

-----------------------------------------------------------------------------
(* _run_loop.                                                              *)

VARIABLES
  zone,       \* the offset change of the job's zone
  now,        \* the instant at which the loop last did something
  schedule,   \* the job's schedule
  pc,         \* the loop: "begin", "asleep", or "dead"
  next,       \* next_run_at, a wall clock time
  since,      \* the instant at which the sleep began
  alarm,      \* and at which it ends
  runs,       \* runs of this loop so far
  last,       \* history: scheduled_for of the last run of any loop
  reloads     \* reloads so far

times == <<next, since, alarm>>
vars == <<zone, now, schedule, pc, times, runs, last, reloads>>

Wall(t) == IF t >= zone.at THEN t + zone.shift ELSE t

TypeOK ==
  /\ zone \in Zones
  /\ schedule \in Schedules
  /\ pc \in {"begin", "asleep", "dead"}
  /\ now \in Nat /\ since \in Nat /\ alarm \in Nat
  /\ {next, last} \subseteq Nat \cup {Raises}
  /\ pc = "asleep" => next # Raises
  /\ runs \in 0 .. MaxRuns /\ reloads \in 0 .. MaxReloads

Init ==
  /\ zone \in Zones
  /\ now \in Starts /\ since = now /\ alarm = now
  /\ schedule \in Schedules
  /\ pc = "begin"
  /\ next = Raises /\ last = Raises
  /\ runs = 0 /\ reloads = 0

\* Mutant: a negative delay is not cut off.
Alarm_uncut(t, n) == t + n - Wall(t)

\* Until when the loop sleeps if it is instant t and the next run is at n.
Alarm(t, n) == IF n > Wall(t) THEN t + n - Wall(t) ELSE t

Sleep(t, n) == next' = n /\ since' = t /\ alarm' = Alarm(t, n)

\* The loop computes its first run before its try: if that raises, the loop is
\* over and nobody is told.
Begin ==
  /\ pc = "begin"
  /\ runs' = 0
  /\ LET n == NextRunAfter(schedule, Wall(now)) IN
     IF n = Raises
       THEN pc' = "dead" /\ UNCHANGED times
       ELSE pc' = "asleep" /\ Sleep(now, n)
  /\ UNCHANGED <<zone, now, schedule, last, reloads>>

\* Mutant: the time at which the loop woke up.
Resumed_fromNow(t) == Wall(t)

\* Mutant: the second is subtracted.
Resumed_before(t) == next - 1

\* The time after which a loop that wakes at instant t looks for the next run.
Resumed(t) == next + 1

\* The sleep is over and the run is started, both possibly late.  Whether the
\* start succeeds makes no difference.
Wake(t) ==
  LET n == NextRunAfter(schedule, Resumed(t)) IN
  /\ pc = "asleep" /\ runs < MaxRuns
  /\ n # Raises
  /\ now' = t
  /\ Sleep(t, n)
  /\ runs' = runs + 1
  /\ last' = next
  /\ UNCHANGED <<zone, schedule, pc, reloads>>

\* next_run_after raises: nothing is started, next_run_at stays as it is.  From
\* then on this happens again and again and only the clock changes, which is why
\* no delay is taken here: it would be without a bound.
WakeRaises ==
  /\ pc = "asleep"
  /\ NextRunAfter(schedule, Resumed(alarm)) = Raises
  /\ now' = alarm
  /\ Sleep(alarm, next)
  /\ UNCHANGED <<zone, schedule, pc, runs, last, reloads>>

\* reload_jobs cancels the loop, asleep or about to run, and starts another.
Reload(t) ==
  /\ reloads < MaxReloads /\ reloads' = reloads + 1
  /\ now' = t
  /\ schedule' \in Schedules
  /\ pc' = "begin"
  /\ UNCHANGED <<zone, times, runs, last>>

Next ==
  \/ Begin \/ WakeRaises
  \/ \E d \in Delays : Wake(alarm + d) \/ Reload(now + d)

Spec == Init /\ [][Next]_vars

-----------------------------------------------------------------------------
(* Properties.                                                             *)

\* The wall clock times between v and w that a schedule names, read off the
\* calendar.
Named(s, v, w) ==
  LET days == v \div Day .. w \div Day
      at(time) == {d * Day + time : d \in days}
      all == CASE s.type = "daily"  -> at(s.time)
               [] s.type = "weekly" -> {m \in at(s.time) : Weekday(m) \in s.days}
               [] s.type = "cron"   -> {m \in {k * Minute : k \in v \div Minute .. w \div Minute} :
                                          MatchesCron(m, s)}
               [] OTHER             -> {}
  IN {m \in all : v < m /\ m < w}

\* docs/prd.md: "run every day at time", "run on days_of_week at time".  A loop
\* waits for the first time its schedule names after it began, then for each of
\* them in turn, however late it is and whatever becomes of its runs.
NoneSkipped ==
  [][/\ pc = "begin" /\ pc' = "asleep" => Named(schedule, Wall(now), next') = {}
     /\ runs' = runs + 1 => Named(schedule, next, next') = {}
     /\ pc' = "asleep" /\ schedule.type # "interval" =>
          next' \in Named(schedule, next' - 1, next' + 1)]_vars

Readable(s) ==
  s.type = "cron" =>
    ~s.minute.unreadable /\ ~s.hour.unreadable /\ ~s.dow.unreadable

\* A loop that found its first run always finds the next: a loop that did not
\* would neither sleep nor start anything again.  Cron fields that cannot be read
\* are no part of this: a loop may begin before it comes to the part it cannot
\* read.
LoopGoesOn ==
  pc = "asleep" /\ Readable(schedule) => NextRunAfter(schedule, next + 1) # Raises

\* No time is run twice, by one loop or by two: an occurrence is over when its run
\* starts.  A reload after clocks were turned back may start a run again.
NeverTwice ==
  [][runs' = runs + 1 => last' > last \/ (reloads > 0 /\ zone.shift < 0)]_vars

\* A loop sleeps until the wall clock shows the time of the next run, and not at
\* all if it is too late.  If the offset changes in its sleep it wakes off by
\* that change, but once: the next sleep is right again.
OnTime ==
  pc = "asleep" =>
    \/ Wall(alarm) = next /\ alarm >= since
    \/ Wall(since) >= next /\ alarm = since
    \/ since < zone.at /\ zone.at <= alarm /\ Wall(alarm) = next + zone.shift

\* Runs of an interval are evenly spaced: however late the loop comes to one, and
\* whatever clocks do, the next is as far from it as it was from the one before.  How
\* far that is, is left open: the documents say every_seconds, the code takes a second
\* more.
EvenlySpaced ==
  [][runs' = runs + 1 /\ runs > 0 /\ schedule.type = "interval" =>
       next' - next = next - last]_vars

=============================================================================
