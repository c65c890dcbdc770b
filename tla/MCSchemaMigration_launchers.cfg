\* Three launchers on one file of any age, two faults; no symmetry, one property is
\* a liveness property.
SPECIFICATION FairSpec
CONSTANTS
  Launchers = {l1, l2, l3}
  NoLauncher = NoLauncher
  Files <- MCFiles
  MaxFaults = 2
INVARIANTS
  RecordedIsMade
  RunsOnce
PROPERTIES
  UpgradeNeverCollides
  GetsUp
