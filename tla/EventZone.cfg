SPECIFICATION Spec
CONSTANTS
  None = None
  Absent = Absent
  NoSnapshot = NoSnapshot
  Offset <- ZoneOffset
  WindowsZones <- MappedZones
  Fields <- AllFields
  Strategy <- EventStrategy
  Read <- MCRead
  Writes <- MCWrites
  Natives <- MCNatives
  Scenarios <- UnmappedZones
  Untimed <- Dav
  Separate <- SeparateCalls
  Unstored <- LeftOut
  Fact <- FactOf
  MaxEdits = 2
  MaxFaults = 0
CHECK_DEADLOCK FALSE
INVARIANT NothingInvented
