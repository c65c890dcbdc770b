\* Two children that may share a label, four instants, two to a day, a pipe of one
\* line and two lines to print.
SPECIFICATION FairSpec
CONSTANTS
  Children = {c1, c2}
  Labels = {"a"}
  DayLength = 2
  Retention = 1
  PipeSize = 1
  MaxLines = 2
  MaxTime = 3
  LogMayFail = TRUE
INVARIANTS
  EventsKept
  OutputKept
  OutputComplete
PROPERTY OutputDrains
\* Children end, the clock and the lines are bounded.
CHECK_DEADLOCK FALSE
