CONSTANTS
  None = None
  NoKey = NoKey
  NoSnap = NoSnap
  K1 = K1
  K2 = K2
  V1 = V1
  V2 = V2
  Keys = {K1, K2}
  Values = {V1, V2}
  Identifies <- Nothing
  ContentKey <- Titles
  MatchOn = {"uid"}
  Scenarios <- Turns
  FirstId = 3
  Skips <- SkipOnA
  Modes = {"auto"}
  ReuseKeys = TRUE
  MaxFail = 0
  MaxCrash = 0
  MaxId = 4
SPECIFICATION Spec
INVARIANTS
  SkipMissesNothing
  NoKeyClash
  InSyncWhenUndrifted
