CONSTANTS
  None = None
  NoKey = NoKey
  NoSnap = NoSnap
  K1 = K1
  K2 = K2
  V1 = V1
  V2 = V2
  Keys = {K1, K2}
  Values = {V1, V2}
  Identifies <- Uids
  ContentKey <- Titles
  MatchOn = {"uid"}
  Scenarios <- Mixture
  FirstId = 3
  Skips <- SkipNone
  Modes = {"auto", "confirm", "dry"}
  ReuseKeys = FALSE
  MaxFail = 1
  MaxCrash = 1
  MaxId = 9
SPECIFICATION Spec
INVARIANTS
  TypeOK
  NoDuplicates
  DeletesFollowDeletions
  NoItemLost
  InSyncWhenUndrifted
PROPERTIES
  NoResurrection
  NoLostEdit
