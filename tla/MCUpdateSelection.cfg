\* A direct and an external prefix that share the caches, and one notification
\* hook.
SPECIFICATION FairSpec
CONSTANTS
  Prefixes = {x1, x2}
  External = {x2}
  Probes = {q1}
  Packages <- MCPackages
  Channels <- MCChannels
  Identities <- MCIdentities
  First <- MCFirst
  Unrelated = Unrelated
  Garbage = Garbage
  NONE = NONE
INVARIANTS
  StagedIsConfirmed
  ProbeAnswersAreReal
PROPERTIES
  ProbeEnds
