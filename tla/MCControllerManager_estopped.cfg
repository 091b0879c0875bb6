CONSTANTS
  Events <- OneOfEach
  UserCommands <- UserCommand
  Garbage <- NoGarbage
  MaxEvents = 1
  MaxCommands = 1
SPECIFICATION Spec
PROPERTIES EStoppedUntilReset
