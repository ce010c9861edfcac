\* One process of a stamped runtime or of Fleet, and one interruption.
SPECIFICATION Spec
CONSTANTS
  Processes = {p1}
  Packages = {a, b}
  Specs = {s1}
  LockOf <- MCLockOf
  Configures = {s1}
  Ships = {b}
  Delegate = a
  a = a
  b = b
  s1 = s1
  s2 = s2
  s3 = s3
  MaxFaults = 1
  NONE = NONE
  Partial = Partial
  Installing = Installing
  Foreign = Foreign
INVARIANTS
  InterruptedIsRetried
