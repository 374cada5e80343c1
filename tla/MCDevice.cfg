SPECIFICATION FairSpec
CONSTANTS
  TickIntervals = {0, 7, 9}
  FallbackTick = 1
  PollMin = 1
  PollMax = 2
  HeartbeatInterval = 4
  HeartbeatOnBoot = TRUE
  Dedicated = TRUE
  PushInterval = 3
  MaxPushInterval = 4
  Advice = {1, 6}
  WindowFull = 4
  WindowIdle = 1
  ExtendOnCmd = TRUE
  SendTimeout = 1
  InitWork = 1
  TickWork = 1
  HandlerWork = 1
  IntMax = 7
CHECK_DEADLOCK FALSE
INVARIANTS
  DeadlinesKept
  AwakeBounded
PROPERTIES
  KeepsReporting
  ShutdownHonoured
  GoesToSleep
