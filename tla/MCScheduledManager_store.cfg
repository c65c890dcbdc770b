\* Two jobs, two instants, a clock put forward, a store whose writes may raise.
SPECIFICATION Spec
CONSTANTS
  Jobs = {j1, j2}
  MaxTime = 1
  RunTimes = {0, 1}
  ChangeAt = 1
  Shift = 1
  Policies = {"run_immediately"}
  StoreMayFail = TRUE
SYMMETRY Symmetry
INVARIANTS
  AtMostOnce
  TasksTracked
PROPERTIES
  LaunchIsClaimed
  HistorySpec
\* A clock at its bound and a launcher nobody starts again.
CHECK_DEADLOCK FALSE
