\* One service, three starts, two concurrent restart requests, everything that can
\* fail may fail; no symmetry, one property is a liveness property.
SPECIFICATION FairSpec
CONSTANTS
  Services = {s1}
  MaxStarts = 3
  Requests = {r1, r2}
  NoService = NoService
  MaxRestarts = 2
  SpawnMayFail = TRUE
  StopMayRaise = TRUE
  LogMayFail = TRUE
INVARIANTS
  AtMostOneInstance
  StoppedStaysDown
  BreakerHolds
  BreakerTrips
PROPERTIES
  NoStartAfterShutdown
  FailedServiceReturns
\* The launcher stops after its shutdown.
CHECK_DEADLOCK FALSE
