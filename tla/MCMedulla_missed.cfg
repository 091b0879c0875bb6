CONSTANTS
  ESTOP_DEBOUNCE_LIMIT = 1
  ESTOP_TIMEOUT_LENGTH = 2
  WatchdogLimit = 2
  DampingLimit = 1
  IntMax = 2
  TimeoutModulus = 5
  DampingModulus = 3
  WatchdogValues <- MCWatchdogValues
  Commands <- RunOrIdle
  Moving <- Hip
SPECIFICATION SpecH
INVARIANTS EStopHeard
CHECK_DEADLOCK FALSE
