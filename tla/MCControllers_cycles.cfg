CONSTANTS
  Angles <- MCAngles
  Pitches <- MCPitches
  Lengths <- MCLengths
  VERTICAL = 3
  SPRING_RATE = 1
  Positions <- MCPositions
  RATE = 1
  STARTUP_TIME = 3
  PROGRAM = 2
  LENGTH = 8
  IGNORED = 2
  START = 20
  ADC_MAX = 16
  JUMP = 6
  THRESHOLD = 2
  Air <- MCAir
  Creep <- MCCreep
  Load <- MCLoad
SPECIFICATION MCSpec
INVARIANTS
  CommandsSafe
  StartsAfresh
  ToeFollowed
PROPERTIES
  StepsAreOwn
