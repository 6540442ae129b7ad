CONSTANTS
  Stopped = Stopped
  Absent = Absent
  Half = Half
  MaxJobs = 2
  MaxCommits = 1
  MaxTrouble = 0
  MaxSaveFaults = 0
SPECIFICATION Spec
INVARIANT QueuedIsLocked
