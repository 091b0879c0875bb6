CONSTANTS
  Topics = {"a", "b"}
  Options <- MCOptions
  MESSAGES = 3
  SNAPSHOTS = 2
  TIME = 3
SPECIFICATION RecorderSpec
INVARIANTS
  NothingLost
  LimitsKept
PROPERTY
  WriterEnds
