SPECIFICATION Spec
CONSTANTS
  c1 = c1  c2 = c2  v1 = v1  v2 = v2
  Groups <- MCGroups  Settings <- MCSettings  Curves = {c1, c2}  Blank = blank
  Configs <- MCConfigs  Default <- MCDefault
  Points = 2  Retries = 1  MaxCalls = 2  MaxFaults = 2
  Ports <- MCPorts  Vlans = {v1, v2}  Dscps <- MCDscps  Bases <- MCBases  Offers <- MCOffers  PortOffers <- MCPortOffers
  MaxEdits = 2  MaxCommits = 1
INVARIANTS AutomaticIsWhole ClaimsHold FaithfulIsApplied AppliedIsLossless SuggestionsSuffice SharesAreWhole
PROPERTIES OthersUntouched
CHECK_DEADLOCK FALSE
