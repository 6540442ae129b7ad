SPECIFICATION Spec
CONSTANTS
  Names <- MCNames
  Rounds <- MCRounds
  MaxLabFaults = 2
  MaxGatewayFaults = 3
  Helpers = {h1, h2}
  ServerLists <- MCServerLists
  MaxTimeFaults = 3
  MaxRevision = 4
  MaxBootTrouble = 3
INVARIANTS EvidenceIsReal NicsComeHome 
PROPERTY AnswersHold
CHECK_DEADLOCK FALSE
