CONSTANTS
  Addresses = {a1, a2}
  Dynamic = {a2}
  Ids = {i1, i2}
  Sessions = {x1, x2}
  Confs = {c1, c2}
  NoConf = NoConf
  None = None
  MaxOps = 3
SPECIFICATION FairSpec
INVARIANTS
  SessionInv
  StaticFollowConfig
PROPERTIES
  ResetOrWait
  ListenerFollows
  StopEnds
CHECK_DEADLOCK FALSE
