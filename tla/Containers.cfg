CONSTANTS
  K1 = K1
  K2 = K2
  Accounts <- TwoAccounts
  ProviderOf <- Providers
  Routes <- TwoRoutes
  Skips = {}
  Names = {"work", "home"}
  Keys = {K1, K2}
  Scenarios <- Changes
  FirstId = 4
  MaxFail = 1
  MaxCrash = 1
SPECIFICATION Spec
INVARIANT TypeOK
PROPERTIES RemovalsHaveCause TreesAlike
