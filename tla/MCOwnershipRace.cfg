\* A first invocation and record-installation at the same time.
SPECIFICATION Spec
CONSTANTS
  Processes = {p1, p2}
  Paths = {local}
  Labels = {homebrew}
  Instructions = {useBrew}
  Exes = {0}
  FirstExe = 0
  IdentityOf <- MCIdentityOf
  ReplacedExeKeepsPath = TRUE
  NONE = NONE
PROPERTIES
  ExternalStaysExternal
