SPECIFICATION Spec
CONSTANTS
  j1 = j1
  j2 = j2
  j3 = j3
  d1 = d1
  d2 = d2
  NoJob = NoJob
  NoDraft = NoDraft
  MaxRevision = 5
  MaxTrouble = 3
  Jobs <- ThreeJobs
  Drafts <- TwoDrafts
INVARIANTS
  JobsTellTheTruth
  FailedIsNeverConfirmed
PROPERTIES
  EndedJobsStay
SYMMETRY Interchangeable
CHECK_DEADLOCK FALSE
