CONSTANTS
  leg = leg
  hip = hip
  motor = motor
  NaN = NaN
  Medullas <- MCMedullas
  HipMedullas <- MCHipMedullas
  Motors <- MCMotors
  MaxCurrent = 2
  MEDULLA_RESET_TIME_MS = 0
  RobotStates <- FailOrCollide
  ControllerOutputs <- StopOutputs
  CMCommands <- StopCommands
SPECIFICATION SpecH
INVARIANTS NoCallAfterDisconnect SentCurrentsSafe AtMostOneRun
PROPERTIES ImplementsProtocol
