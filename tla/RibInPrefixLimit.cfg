CONSTANTS
  Nlri = {n1}
  PathIds = {1, 2}
  Attrs = {a1, a2}
  NoLlgr = {}
  RouterIds = {r1}
  NoPath = NoPath
  Peers = {p1}
  NoPeer = NoPeer
  LlgrPeers = {}
  Deletable = {}
  Local = Local
  LocalNlri = {}
  Policies <- AcceptAll
  LoopSets <- AnyLoops
  MaxPrefixes = 1
  MaxLocalId = 4
SPECIFICATION Spec
INVARIANT LocBacked
CHECK_DEADLOCK FALSE
