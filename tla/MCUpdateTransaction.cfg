CONSTANTS
  Stopped = Stopped
  Absent = Absent
  Half = Half
  MaxJobs = 2
  MaxCommits = 2
  MaxTrouble = 3
  MaxSaveFaults = 1
SPECIFICATION FairSpec
INVARIANTS
  OneWholeVersion
  NothingLost
  ReportsAreTrue
PROPERTIES
  ImplementsAtomicUpdate
  BootRecovers
