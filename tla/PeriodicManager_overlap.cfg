\* Two overlapping runs, and a reload that declares the job skip.
SPECIFICATION Spec
CONSTANTS
  Labels = {l1}
  MaxRuns = 3
  Declarations = {"skip", "run_concurrently"}
  NoLabel = NoLabel
  StoreMayFail = FALSE
  SpawnMayFail = FALSE
  LogMayFail = FALSE
  PidsRecycled = FALSE
PROPERTY SkipNeverOverlapsAlways
\* A launcher nobody starts again, and a bound on runs.
CHECK_DEADLOCK FALSE
