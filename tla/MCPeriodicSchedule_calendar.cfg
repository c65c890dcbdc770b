\* Every kind of schedule, offset changes in both directions, one reload.
SPECIFICATION Spec
CONSTANTS
  Schedules <- MCSchedules
  Starts <- MCStarts
  Zones <- MCZones
  Delays <- MCDelays
  MaxRuns = 2
  MaxReloads = 1
INVARIANTS
  LoopGoesOn
  OnTime
PROPERTIES
  NoneSkipped
  NeverTwice
  EvenlySpaced
\* A loop may die, and the bounds end the others.
CHECK_DEADLOCK FALSE
