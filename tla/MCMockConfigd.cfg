SPECIFICATION FairSpec
CONSTANTS
  g1 = g1
  g2 = g2
  split = split
  joined = joined
  j1 = j1
  j2 = j2
  j3 = j3
  Muted = Muted
  NoJob = NoJob
  MaxFaults = 2
  Groups <- MCGroups
  Modes <- MCModes
  Jobs <- MCJobs
  Default <- MCDefault
INVARIANTS
  LanesFollowConfiguration
  AnswersAreDurable
PROPERTIES
  Implements
  RevisionNamesConfiguration
  PendingSettles
CHECK_DEADLOCK FALSE
