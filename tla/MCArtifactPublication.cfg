\* Two project roots that publish into one directory, two packagers.
SPECIFICATION FairSpec
CONSTANTS
  Builders = {b1, b2}
  Packagers = {q1, q2}
  a = a
  b = b
  c = c
  Projects <- MCProjects
  MaxBuilds = 2
  MaxFaults = 1
  NONE = NONE
  Partial = Partial
\* All builds are used up and there is nothing to package.
CHECK_DEADLOCK FALSE
INVARIANTS
  BundleHasLockedPackages
  PackagedMatchesInfo
  ReportedIsThePackage
PROPERTIES
  ImplementsAtomicPublication
  UndisturbedBuildPublishes
