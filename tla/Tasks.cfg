SPECIFICATION TasksSpec
CONSTANTS
  u1 = u1
  u2 = u2
  u3 = u3
  send = send
  recv = recv
  startup = startup
  wave = wave
  Peer = Peer
  Third = Third
  Self = Self
  Controller = Controller
  NoPeer = NoPeer
  NoBody = NoBody
  NoName = NoName
  Unterminated = Unterminated
  Station = {Self, Peer, Third, Controller}
  Name <- ManyNames
  SystemAnims <- TwoAnims
  AnimLen <- MCAnimLen
  SendName = send
  RecvName = recv
  StartupName = recv
  MaxFrames = 1
  MinDelay = 1
  MaxId = 4
  CacheSize = 4
  MaxResends = 1
  Residue = 0
  Seed <- SeedTwo
  IoFaults = {}
  LinkFaults = {}
  PeerMessages <- ChoiceMessages
  MaxCuts = 0
  Presses = {"SENDFILE"}
CHECK_DEADLOCK FALSE
INVARIANTS ShownStaysStored ChosenStaysStored
PROPERTIES PickFindsNext
