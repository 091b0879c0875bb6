SPECIFICATION MCSpec
CONSTANTS
  Conns = {"ecat", "noop", "csim", "sim"}
  SlaveLists <- Robots
  Period = 8
  Offset = 3
  Gain = 2
  MaxOvershoot = 1
  Works = {2, 9}
  Second = 20
  SecModulus = 2
  Currents <- Three
  HoldCurrent = 1
  Friction = 1
  MinPos <- LowStop
  MaxPos = 6
  Kinds = {"leg", "hip", "boom", "imu"}
  EncRange = 6
  CounterModulus = 3
  MaxChange = 1
  ToeDebounce = 2
  Switches = {s1}
  Moves <- Three
  Glitch = 20
  Pull = 3
  MaxStrayed = 21
  PosBound = 3
  MaxElapsed = 3
  MaxUnused = 3
  Aspects = {"faults", "thermistors"}
  CheckSets <- Builds
  SwitchLimit = 2
  ThermLimit = 1
  VoltLimit = 2
  EncLimit = 1
  DampLimit = 2
  ByteModulus = 6
  Channels = 2
  MaxLevel = 3
  Reading <- Polynomial
INVARIANTS
  NoTornFrame
  DeadlinesReported
  WholeRobotChecked
  VelocitiesSpan
PROPERTIES
  StateDecoded
  FaultsHandled
  HaltsInTime
  TimeKept
  KeepsCycling
