\* A restart request that leaves an automatic restart pending.
SPECIFICATION Spec
CONSTANTS
  Services = {s1}
  MaxStarts = 4
  Requests = {r1}
  NoService = NoService
  MaxRestarts = 2
  SpawnMayFail = FALSE
  StopMayRaise = FALSE
  LogMayFail = FALSE
INVARIANT BreakerHoldsAlways
\* The launcher stops after its shutdown.
CHECK_DEADLOCK FALSE
