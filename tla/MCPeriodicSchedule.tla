------------------------- MODULE MCPeriodicSchedule -------------------------
(***************************************************************************)
(* Small instances of PeriodicSchedule for TLC.  Instants are seconds      *)
(* since a Monday midnight.                                                *)
(***************************************************************************)
EXTENDS PeriodicSchedule

Field(parts) == [parts |-> parts, unreadable |-> FALSE]
Step(n) == [kind |-> "step", a |-> n, b |-> 0]
Between(a, b) == [kind |-> "range", a |-> a, b |-> b]
Value(n) == [kind |-> "value", a |-> n, b |-> 0]
Any == Field({Step(1)})

Cron(minute, hour, dow) ==
  [type |-> "cron", minute |-> minute, hour |-> hour, dow |-> dow]

\* Every six hours; twenty to three on every day, on Sundays, and on Mondays and
\* Sundays; every twenty minutes from three to five except on Tuesdays; and
\* "0,x * * * *", which is read up to x when the minute is not 0.
MCSchedules ==
  {[type |-> "interval", every |-> 6 * Hour],
   [type |-> "daily", time |-> 2 * Hour + 40 * Minute],
   [type |-> "weekly", time |-> 2 * Hour + 40 * Minute, days |-> {6}],
   [type |-> "weekly", time |-> 2 * Hour + 40 * Minute, days |-> {0, 6}],
   Cron(Field({Step(20)}), Field({Between(15, 16)}), Field({Between(3, 6), Value(0), Value(1)})),
   Cron([parts |-> {Value(0)}, unreadable |-> TRUE], Any, Any),
   [type |-> "unparsable"]}

\* Saturday afternoon, the last second of an hour of Sunday, and a run's minute.
MCStarts == {5 * Day + 15 * Hour, 6 * Day + Hour - 1, 6 * Day + 2 * Hour + 40 * Minute}

\* Clocks that stay, and clocks put forward or back on Sunday at two.
MCZones ==
  {[at |-> 0, shift |-> 0]}
    \cup [at : {6 * Day + 2 * Hour}, shift : {Hour, -Hour}]

\* In time, half an hour late, two days late.
MCDelays == {0, 30 * Minute, 2 * Day}

=============================================================================
