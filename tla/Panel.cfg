SPECIFICATION WireSpec
CONSTANTS
  Bits = 3
  MaxWords = 3
  Commands <- AllCommands
INVARIANTS FramesKeepBounds
PROPERTIES CommandsArrive
