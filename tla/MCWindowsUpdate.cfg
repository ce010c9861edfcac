\* A runtime that is invoked again and again, killed at any point, and two workers,
\* one of which may still be at work on an older update; failed calls, timeouts,
\* lost files, and the stable executable moved away at some point.
SPECIFICATION FairSpec
CONSTANTS
  MaxVersion = 2
  Runtimes = {r1}
  Workers = {w1, w2}
  NONE = NONE
  MaxFaults = 5
  TargetMayVanish = TRUE
INVARIANTS
  RecordMatchesTarget
  AlwaysRecoverable
  BackupUntilReplaced
PROPERTIES
  ImplementsAtomicUpdate
  UpdatesEnd
  ApprovedIsInstalled
\* nothing runs from a path that is gone
CHECK_DEADLOCK FALSE
