SPECIFICATION Spec
CONSTANTS
  FactoryRequired = TRUE
  Values = {1, 2}
  RefusedHubs = {2}
  FactoryCmds <- MCFactoryCmds
  SetCmds <- MCSetCmds
  KvCmds <- MCKvCmds
  MaxPending = 2
INVARIANTS
  OperativeProvisioned
PROPERTIES
  
  CommitBeforeFlag
  
