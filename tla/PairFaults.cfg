SPECIFICATION PairSpec
CONSTANTS
  u1 = u1
  u2 = u2
  send = send
  recv = recv
  Peer = Peer
  Self = Self
  Controller = Controller
  NoPeer = NoPeer
  NoBody = NoBody
  NoName = NoName
  Unterminated = Unterminated
  Station = {Self, Peer, Controller}
  Name <- TradeNames
  SystemAnims <- PairSystem
  AnimLen <- PairAnimLen
  SendName = send
  RecvName = recv
  StartupName = recv
  MaxFrames = 3
  MinDelay = 1
  MaxId = 4
  CacheSize = 4
  MaxResends = 2
  Residue = 1
  Seed <- SeedNear
  PeerSeed <- SeedFar
  IoFaults = {}
  LinkFaults = {"lost", "header", "payload"}
  Presses = {"export", "import", "far export", "far import"}
  MaxMishaps = 1
CHECK_DEADLOCK FALSE
INVARIANTS FilesIntact FramesInOrder
PROPERTIES AcknowledgedIsHeld TransfersEnd SendsArrive
