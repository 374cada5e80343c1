SPECIFICATION Spec
CONSTANTS
  Kinds = {"wifi", "eth", "thread", "ble", "posix"}
  MaxRetry = 2
  MaxEvents = 3
INVARIANTS
  SettlesToLink
  RetriesBounded
PROPERTIES
  InitReturns
  LossIsNoticed
