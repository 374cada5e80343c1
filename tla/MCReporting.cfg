SPECIFICATION Spec
CONSTANTS
  Main = main
  Tasks = {main, app}
  MaxSensors = 2
  Names = {"temperature", "door"}
  Drivers = {"temperature"}
  Readings = {0, 1}
  NULL = NULL
  Builds <- MCBuilds
  MaxReadings = 32
  Uris <- MCUris
  Ports = {"1", "5683", "5684"}
  DefaultPort = "5684"
  HostMax = 2
  Numeric <- MCNumeric
  Timeout = 150
  PollStep = 100
  Pending = {0, 1}
  Nothing = Nothing
INVARIANTS
  TypeOK
  OwnSlot
  LatestSample
  ReportComplete
  ReachesHub
  PendingIsAnswered
PROPERTIES
  ReportEnds
