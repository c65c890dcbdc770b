\* One job whose cancellation was not written.
SPECIFICATION Spec
CONSTANTS
  Jobs = {j1}
  MaxTime = 1
  RunTimes = {0, 1}
  ChangeAt = 2
  Shift = 0
  Policies = {"run_immediately"}
  StoreMayFail = TRUE
PROPERTY TerminalNotReloaded
CHECK_DEADLOCK FALSE
