CONSTANTS
  Stopped = Stopped
  Absent = Absent
  Half = Half
  MaxJobs = 1
  MaxCommits = 0
  MaxTrouble = 2
  MaxSaveFaults = 0
SPECIFICATION Spec
PROPERTY RecoveryContinues
