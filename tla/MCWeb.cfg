SPECIFICATION Spec
CONSTANTS
  Clients = {1, 2}  Addresses = {1}  Capacity = 2  Lifetime = 3  Window = 2  Attempts = 2
  MaxTokens = 4  MaxTime = 4
  Epls = {1, 2}  None = None  MaxRevisions = 2  MaxTroubles = 1
  ScanIds = {"a", "b"}  Columns = 3  PageRows = 1  ExtraReads = 1  CacheLimit = 1
  MaxScans = 3  MaxEyeTroubles = 2
  Interval = 2  StallSeconds = 6  Pauses = {3, 7}  Unread = Unread
  MaxReadings = 4  MaxRoceRevisions = 2
INVARIANTS SessionsFollowCredentials  OpticsAreCurrent
  EyeIsWhole LaneIsGivenBack AlarmIsEarned
CHECK_DEADLOCK FALSE
