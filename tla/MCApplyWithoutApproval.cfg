\* A coordinator dies while its apply helper has yet to take the lock, and the
\* helper then approves what the next coordinator has staged.
SPECIFICATION Spec
CONSTANTS
  MaxVersion = 1
  Coordinators = {c1, c2}
  Invokers = {i1}
  NONE = NONE
  MaxFaults = 1
  HelpersMayBeOrphaned = TRUE
SYMMETRY Symmetry
PROPERTIES
  ReplacedOnlyAfterInnerTransaction
