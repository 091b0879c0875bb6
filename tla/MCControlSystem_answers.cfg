CONSTANTS
  UserCommands <- AllCommands
  Garbage <- NoGarbage
  MaxEvents = 1
  MaxCommands = 1
  MaxGuiCommands <- AsManyAs
  MaxMisses = 1
  FaultSets <- TheFaults
SPECIFICATION FairSpec
INVARIANTS LoadAgreed
PROPERTIES PendingResolved GuiInformed
CHECK_DEADLOCK FALSE
