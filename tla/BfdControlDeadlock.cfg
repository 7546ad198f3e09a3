CONSTANTS
  Addresses = {a1}
  Dynamic = {}
  Ids = {i1}
  Sessions = {x1}
  Confs = {c1, c2}
  NoConf = NoConf
  None = None
  MaxOps = 3
SPECIFICATION FairSpec
PROPERTY ResetHappens
CHECK_DEADLOCK FALSE
