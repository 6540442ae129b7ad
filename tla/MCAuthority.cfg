SPECIFICATION LanesSpec
CONSTANTS
  j1 = j1
  j2 = j2
  j3 = j3
  c1 = c1
  c2 = c2
  c3 = c3
  NoJob = NoJob
  Initial = c1
  Jobs <- MCJobs
  Configs <- MCConfigs
  Images <- MCImages
  Seed <- MCSeed
  MaxTx = 4
  MaxConfigdTrouble = 2
INVARIANTS
  SynchronizedIsActual
  UnconfirmedIsTimed
PROPERTIES
  
  ReportsHold
CHECK_DEADLOCK FALSE
