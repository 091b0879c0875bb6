CONSTANTS
  Events <- SomeEvents
  UserCommands <- NoEStop
  Garbage <- SomeGarbage
  MaxEvents = 1
  MaxCommands = 2
SPECIFICATION FairSpec
INVARIANTS OneCommandAtATime NoLostWakeup
PROPERTIES ResetAwaited GuiCommandQueued
