\* Two processes, of a stamped runtime or of Fleet, and two interruptions;
\* fair, hence without symmetry.
SPECIFICATION FairSpec
CONSTANTS
  Processes = {p1, p2}
  Packages = {a, b}
  Specs = {s1, s2, s3}
  LockOf <- MCLockOf
  Configures = {s1}
  Ships = {b}
  Delegate = a
  a = a
  b = b
  s1 = s1
  s2 = s2
  s3 = s3
  MaxFaults = 2
  NONE = NONE
  Partial = Partial
  Installing = Installing
  Foreign = Foreign
INVARIANTS
  ReadyMeansComplete
  OneInterruptionIsRetried
PROPERTIES
  ForeignUntouched
  BootstrapCompletes
