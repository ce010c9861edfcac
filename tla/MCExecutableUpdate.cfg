\* Two coordinators and one executable that is invoked again and again; helpers
\* and coordinators are killed, calls fail and candidates are lost, but no helper
\* outlives its coordinator.
SPECIFICATION FairSpec
CONSTANTS
  MaxVersion = 2
  Coordinators = {c1, c2}
  Invokers = {i1}
  NONE = NONE
  MaxFaults = 2
  HelpersMayBeOrphaned = FALSE
INVARIANTS
  RecordMatchesTarget
  AlwaysRecoverable
PROPERTIES
  InstalledOnlyApproved
  StagedCandidateProtected
  NeverDowngrades
  ImplementsAtomicUpdate
  UpdatesEnd
  ApprovedIsInstalled
