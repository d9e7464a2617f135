CONSTANTS
  K1 = K1
  K2 = K2
  Accounts <- TwoAccounts
  ProviderOf <- Providers
  Routes <- TwoRoutes
  Skips = {}
  Names = {"work", "home"}
  Keys = {K1, K2}
  Scenarios <- Renames
  FirstId = 4
  MaxFail = 0
  MaxCrash = 0
SPECIFICATION Spec
INVARIANT MatchesAreNew
