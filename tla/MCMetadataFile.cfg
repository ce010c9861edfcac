\* Two writers and a reader without the lock; crashes and renames that fail at
\* any point.
SPECIFICATION Spec
CONSTANTS
  Writers = {w1, w2}
  Readers = {r1}
  MaxWrites = 4
  MaxFaults = 4
  RenameMayFail = TRUE
  NONE = NONE
  Partial = Partial
SYMMETRY Symmetry
INVARIANTS
  DurableUnlessMeddled
PROPERTIES
  ImplementsAtomicMetadata
CHECK_DEADLOCK FALSE
