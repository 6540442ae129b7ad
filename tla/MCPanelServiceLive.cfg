SPECIFICATION FairSpec
CONSTANTS
  j1 = j1
  j2 = j2
  j3 = j3
  d1 = d1
  d2 = d2
  NoJob = NoJob
  NoDraft = NoDraft
  MaxRevision = 4
  MaxTrouble = 2
  Jobs <- TwoJobs
  Drafts <- OneDraft
PROPERTIES
  PlaceIsReleased
  OutcomeIsReported
CHECK_DEADLOCK FALSE
