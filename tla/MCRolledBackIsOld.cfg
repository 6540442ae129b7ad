CONSTANTS
  Stopped = Stopped
  Absent = Absent
  Half = Half
  MaxJobs = 1
  MaxCommits = 0
  MaxTrouble = 0
  MaxSaveFaults = 1
SPECIFICATION Spec
INVARIANT RolledBackIsOld
