SPECIFICATION Spec
CONSTANTS
  u1 = u1
  u2 = u2
  u3 = u3
  send = send
  recv = recv
  startup = startup
  wave = wave
  Peer = Peer
  Third = Third
  Self = Self
  Controller = Controller
  NoPeer = NoPeer
  NoBody = NoBody
  NoName = NoName
  Unterminated = Unterminated
  Station = {Self, Peer, Third, Controller}
  Name <- OneName
  SystemAnims <- MCSystemAnims
  AnimLen <- MCAnimLen
  SendName = send
  RecvName = recv
  StartupName = startup
  MaxFrames = 2
  MinDelay = 1
  MaxId = 5
  CacheSize = 5
  MaxResends = 1
  Residue = 0
  Seed <- SeedAll
  IoFaults = {"header", "frame", "remove"}
  LinkFaults = {}
  PeerMessages <- TradeMessages
  MaxCuts = 1
CHECK_DEADLOCK FALSE
INVARIANTS InFlightFile DistinctIds
PROPERTIES LibraryKept
