\* One child, two concurrent stop requests; no symmetry, the properties are
\* temporal.
SPECIFICATION FairSpec
CONSTANTS
  Handles = {h1}
  Pids = {p1}
  Requests = {r1, r2}
  NoHandle = NoHandle
  NoPid = NoPid
  PidsRecycled = FALSE
  LogMayFail = FALSE
  Refusals = {"emptied", "foreign"}
PROPERTIES
  StopTerminates
  ExitIsDelivered
\* The launcher stops after its shutdown.
CHECK_DEADLOCK FALSE
