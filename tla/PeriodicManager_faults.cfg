\* One job under changing declarations, two runs that may overlap, everything that
\* can fail may fail; no symmetry, one property is a liveness property.
SPECIFICATION FairSpec
CONSTANTS
  Labels = {l1}
  MaxRuns = 2
  Declarations = {"disabled", "skip", "run_concurrently"}
  NoLabel = NoLabel
  StoreMayFail = TRUE
  SpawnMayFail = TRUE
  LogMayFail = TRUE
  PidsRecycled = TRUE
INVARIANTS
  HistoryIsCurrent
  CompletedMeansExitedZero
PROPERTIES
  SkipNeverOverlaps
  TerminalRowFinal
  SlotFreed
\* A launcher nobody starts again, and a bound on runs.
CHECK_DEADLOCK FALSE
