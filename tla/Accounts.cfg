SPECIFICATION Spec
CONSTANTS
  Providers = {p1}
  Uids = {u1}
  Cli = cli
  Timer = timer
  Serials = {s1, s2, s3, s4}
  RowIds = {1, 2}
  Life = 4
  Horizon = 3
  RetryAttempts = 3
  Rotates = TRUE
  ReusesIds = FALSE
  MaxOutage = 1
  MaxFaults = 2
  None = None
SYMMETRY Symmetry
INVARIANTS TypeOK RefreshTokenKept ExpiryNotOverstated TokenFresh EntriesHaveRows
