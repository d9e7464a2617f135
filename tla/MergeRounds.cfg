\* Every mix of values and times on two copies, up to two later edits.
CONSTANTS
  None = None
  NoSnapshot = NoSnapshot
  Ann = Ann
  Anna = Anna
  Work = Work
  Home = Home
  Uid = Uid
  Fields <- MCFields
  Strategy <- MCStrategy
  FieldValues <- MCFieldValues
  Times <- MCTimes
  MaxEdits = 2
SPECIFICATION Spec
INVARIANT TypeOK
PROPERTIES
  RoundSettles
  NothingInvented
  ScalarEditKept
