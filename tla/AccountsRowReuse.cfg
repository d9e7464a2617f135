SPECIFICATION Spec
CONSTANTS
  Providers = {p1}
  Uids = {u1, u2}
  Cli = cli
  Timer = timer
  Serials = {s1, s2, s3, s4}
  RowIds = {1, 2}
  Life = 4
  Horizon = 3
  RetryAttempts = 2
  Rotates = TRUE
  ReusesIds = TRUE
  MaxOutage = 0
  MaxFaults = 0
  None = None
SYMMETRY Symmetry
INVARIANT TokenOfAccount
CHECK_DEADLOCK FALSE
