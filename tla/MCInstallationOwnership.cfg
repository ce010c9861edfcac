\* Two concurrent runtime processes, with package managers and coordinated
\* updates at work beside them.
SPECIFICATION Spec
CONSTANTS
  Processes = {p1, p2}
  Paths = {local, brew}
  Labels = {standalone, homebrew}
  Instructions = {useBrew}
  Exes = {0, 1, 2}
  FirstExe = 0
  IdentityOf <- MCIdentityOf
  ReplacedExeKeepsPath = TRUE
  NONE = NONE
SYMMETRY Symmetry
INVARIANTS
  RecordedVersionIsStamped
PROPERTIES
  InstallationIsKept
  OnlyUpdatesTakeEffect
  ExternalIsReconciled
