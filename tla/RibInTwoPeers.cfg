CONSTANTS
  Nlri = {n1}
  PathIds = {0}
  Attrs = {a1}
  NoLlgr = {}
  RouterIds = {r1}
  NoPath = NoPath
  Peers = {p1, p2}
  NoPeer = NoPeer
  LlgrPeers = {}
  Deletable = {}
  Local = Local
  LocalNlri = {}
  Policies <- AnyPolicy
  LoopSets <- AnyLoops
  MaxPrefixes = 0
  MaxLocalId = 3
SPECIFICATION FairSpec
INVARIANTS
  CountersExact
  IdInv
  LocFollows
PROPERTIES
  StableLocalId
  StaleRoutesGo
CHECK_DEADLOCK FALSE
