CONSTANTS
  leg = leg
  hip = hip
  motor = motor
  NaN = NaN
  Medullas <- MCMedullas
  HipMedullas <- MCHipMedullas
  Motors <- MCMotors
  MaxCurrent = 2
  MEDULLA_RESET_TIME_MS = 1
  RobotStates <- FailOnly
  ControllerOutputs <- Running
  CMCommands <- LoadCommands
SPECIFICATION FairSpecH
PROPERTIES ResetEnds UnloadCompletes MedullaErrorStops
