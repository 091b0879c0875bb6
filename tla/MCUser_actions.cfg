SPECIFICATION MCSpec
CONSTANTS
  Controllers <- MCControllers
  quality <- MCquality
  MaxCommands = 2
  Mine <- MCMine
  Others <- MCOthers
  EDITS = 1
  CHILDREN = 2
  Packages <- MatchingPackages
  ASCTypes = {"pd"}
  CountMax = 7
  MaxLoads = 3
  MaxASCs = 1
  MaxFaults = 1
INVARIANTS
  RunningCanBeStopped
  GuiAgrees
  ParametersKept
  UnloadsClean
