SPECIFICATION HostSpec
CONSTANTS
  u1 = u1
  send = send
  recv = recv
  Peer = Peer
  Self = Self
  Controller = Controller
  NoPeer = NoPeer
  NoBody = NoBody
  NoName = NoName
  Unterminated = Unterminated
  Station = {Self, Peer, Controller}
  Name <- HostNames
  SystemAnims <- HostSystem
  AnimLen <- HostAnimLen
  SendName = send
  RecvName = recv
  StartupName = recv
  MaxFrames = 2
  MinDelay = 1
  MaxId = 5
  CacheSize = 4
  MaxResends = 1
  Residue = 0
  Seed <- SeedHost
  IoFaults = {}
  LinkFaults = {"header"}
  FrameAttempts = 2
  Neighbours <- NeighbourOffers
  MaxEvents = 3
CHECK_DEADLOCK FALSE
PROPERTIES NackedIsUnused
