CONSTANTS
  Nlri = {n1}
  PathIds = {0}
  Attrs = {a1}
  NoLlgr = {}
  RouterIds = {r1}
  NoPath = NoPath
  Peers = {p1}
  NoPeer = NoPeer
  LlgrPeers = {p1}
  Deletable = {}
  Local = Local
  LocalNlri = {}
  Policies <- AcceptAll
  LoopSets <- NoLoops
  MaxPrefixes = 0
  MaxLocalId = 4
SPECIFICATION FairSpec
PROPERTY RestartEnds
CHECK_DEADLOCK FALSE
