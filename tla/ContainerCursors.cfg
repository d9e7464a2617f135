CONSTANTS
  K1 = K1
  K2 = K2
  Accounts <- ThreeAccounts
  ProviderOf <- Providers
  Routes <- ThreeRoutes
  Skips = {"x"}
  Names = {"work", "home"}
  Keys = {K1, K2}
  Scenarios <- Additions
  FirstId = 4
  MaxFail = 0
  MaxCrash = 0
SPECIFICATION Spec
INVARIANT SkipMissesNothing
