\* Two children and two pids, which may be handed out again, one stop request, a
\* failing heartbeat log.
SPECIFICATION Spec
CONSTANTS
  Handles = {h1, h2}
  Pids = {p1, p2}
  Requests = {r1}
  NoHandle = NoHandle
  NoPid = NoPid
  PidsRecycled = TRUE
  LogMayFail = TRUE
  Refusals = {"emptied", "foreign"}
SYMMETRY Symmetry
INVARIANTS
  TerminalMeansGroupGone
  StoppedTreeIsGone
  NothingSurvivesShutdown
  StoppedIsNeverReportedExited
PROPERTY LifecycleSpec
\* The launcher stops after its shutdown.
CHECK_DEADLOCK FALSE
