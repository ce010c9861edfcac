SPECIFICATION Spec
CONSTANTS
  p1 = p1
  p2 = p2
  c1 = c1
  c2 = c2
  c3 = c3
  Processes = {p1, p2}
  Packages = {1, 2}
  Contents = {c1, c2, c3}
  Absent = Absent
  Torn = Torn
  NoBundle = NoBundle
  Versions = {1, 2}
  Locked <- MCLocked
  Embedded <- MCEmbedded
  Configured <- MCConfigured
  MaxStarts = 3
  MaxChanges = 1
  MaxFaults = 1
INVARIANTS
  OnlyLockedContent
  InstalledFromOneVersion
  ExtractionRemoved
PROPERTIES
  EmbeddedSuffices
CHECK_DEADLOCK FALSE
