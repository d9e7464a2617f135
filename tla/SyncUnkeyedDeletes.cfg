CONSTANTS
  None = None
  NoKey = NoKey
  NoSnap = NoSnap
  K1 = K1
  K2 = K2
  V1 = V1
  V2 = V2
  Keys = {K1, K2}
  Values = {V1, V2}
  Identifies <- Nothing
  ContentKey <- Titles
  MatchOn = {"uid"}
  Scenarios <- Deletion
  FirstId = 3
  Skips <- SkipNone
  Modes = {"auto"}
  ReuseKeys = FALSE
  MaxFail = 0
  MaxCrash = 0
  MaxId = 9
SPECIFICATION Spec
PROPERTIES
  NoResurrection
