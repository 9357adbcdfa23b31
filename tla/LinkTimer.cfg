SPECIFICATION TimerSpec
CONSTANTS
  Half = 8
  Timeout = 2
  Limit = 4
  MaxTurn = 2
CHECK_DEADLOCK FALSE
INVARIANTS LimitKept SilenceEnds
PROPERTIES NeverCutShort
