SPECIFICATION DisplaySpec
CONSTANTS
  s1 = s1
  s2 = s2
  recv = recv
  Startup = Startup
  Blank = Blank
  Stored = {s1, s2}
  Pictures = {recv}
  AnimLen <- MCAnimLen
  FailMax = 3
  MaxChanges = 2
INVARIANTS OnlyRealFrames HandoverFresh
PROPERTIES FramesKeepComing StartupHandsOver FallbackReached
