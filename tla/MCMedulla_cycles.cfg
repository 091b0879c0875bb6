CONSTANTS
  ESTOP_DEBOUNCE_LIMIT = 1
  ESTOP_TIMEOUT_LENGTH = 2
  WatchdogLimit = 2
  DampingLimit = 1
  IntMax = 2
  TimeoutModulus = 5
  DampingModulus = 3
  WatchdogValues <- MCWatchdogValues
  Commands <- AnyCommand
  Moving <- Leg
SPECIFICATION FairSpecH
INVARIANT PoweredOnlyArmed
PROPERTY StopsObeyed
CHECK_DEADLOCK FALSE
