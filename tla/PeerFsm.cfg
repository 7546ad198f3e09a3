CONSTANTS
  Conn = {1, 2, 3, 4}
  NoConn = 0
  Mgr = {1, 2}
  NoMgr = 0
  Passive = FALSE
  Dynamic = FALSE
  Graceful = TRUE
  NotifyBit = TRUE
  LocalId = 2
  RemoteId = 1
  LocalAs = 1
  RemoteAs = 1
  MaxFaults = 1
  MaxOps = 2
  MaxIncoming = 1
SPECIFICATION FairSpec
INVARIANTS
  OpenOnConn
  Channels
PROPERTIES
  Implements
  StopEnds
  ShutdownEnds
  ComesUp
CHECK_DEADLOCK FALSE
