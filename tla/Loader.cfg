SPECIFICATION LoaderSpec
CONSTANTS
  a1 = a1
  a2 = a2
  a3 = a3
  x = x
  Name = {a1, a2, a3, x}
  NoName = NoName
  Unterminated = Unterminated
  AnimLen <- MCAnimLen
  MaxFrames = 2
  MaxId = 5
  CacheSize = 4
  AnimList <- MCAnimList
  AllUnlocked = 1
  BadgeId = 3
  Attempts = 2
  Delay = 1
  MaxFaults = 3
  MaxCuts = 2
  MaxUses = 2
INVARIANTS LoaderIds StopsSeeded
PROPERTIES MarksCompleteStore LeavesUsedStore SeededInTheEnd
