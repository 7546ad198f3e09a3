CONSTANTS
  e1 = e1
  i1 = i1
  a1 = a1
  c1 = c1
  i2 = i2
  Peers = {c1, i1, i2}
  Local = Local
  Kind <- KindDef
  AddPath = {}
  SendMax = 1
  Graceful = {}
  Llgr = {}
  Router <- RouterDef
  Attrs = {1, 2}
  Stale = {}
  Policies = {{}}
  Loops <- LoopsDef
  Rank <- RankDef
  Announcers = {c1, i1}
  Early = {c1, i1, i2}
  Restarts = {FALSE}
  MaxEvents = 4
SPECIFICATION Spec
INVARIANT NoGhostRoute
CHECK_DEADLOCK FALSE
