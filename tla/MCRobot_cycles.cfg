CONSTANTS
  ESTOP_DEBOUNCE_LIMIT = 1
  ESTOP_TIMEOUT_LENGTH = 1
  WatchdogLimit = 1
  DampingLimit = 0
  IntMax = 2
  TimeoutModulus = 6
  DampingModulus = 2
  MEDULLA_RESET_TIME_MS = 3
  MaxCommands = 2
  MaxLost = 2
  CMCommands <- UserCommands
SPECIFICATION Spec
INVARIANTS OneStopsAll NoRunIntoError PowerEnds RipeResetEndsIdle
