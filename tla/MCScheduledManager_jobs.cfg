\* Two jobs, four instants, a clock put back before the third, crashes at any
\* point, a store that works; no symmetry, one property is a liveness property.
SPECIFICATION FairSpec
CONSTANTS
  Jobs = {j1, j2}
  MaxTime = 3
  RunTimes = {1, 2}
  ChangeAt = 2
  Shift <- PutBack
  Policies = {"run_immediately", "skip"}
  StoreMayFail = FALSE
INVARIANTS
  PendingHasTimer
  NoUnconfirmedCollision
  CompletedMeansExitedZero
PROPERTIES
  TerminalIsFinal
  PendingResolves
\* A clock at its bound and a launcher nobody starts again.
CHECK_DEADLOCK FALSE
