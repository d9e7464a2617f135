SPECIFICATION Spec
CONSTANTS
  None = None
  Absent = Absent
  NoSnapshot = NoSnapshot
  Unknown = Unknown
  Fields <- AllFields
  Strategy <- ContactStrategy
  Read <- MCRead
  Writes <- MCWrites
  Natives <- MCNatives
  Scenarios <- AllGroups
  Untimed <- Dav
  Separate <- SeparateCalls
  Unstored <- LeftOut
  Fact <- FactOf
  MaxEdits = 2
  MaxFaults = 1
INVARIANTS
  TypeOK
  NothingInvented
PROPERTIES
  NothingVanishes
  EditsArrive
  RoundsSettle
