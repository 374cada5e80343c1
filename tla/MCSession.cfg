SPECIFICATION SessionSpec
CONSTANTS
  Builds <- AllBuilds
  Texts <- Messages
  MaxQueue = 2
INVARIANTS
  WritesAreHeard
  RestartsWhole
  AppliedAsGiven
PROPERTIES
  SessionEnds
  KeepsAdvertising
\* A device whose stack refuses to advertise waits for ever, and nothing else moves.
CHECK_DEADLOCK FALSE
