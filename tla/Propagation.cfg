CONSTANTS
  e1 = e1
  i1 = i1
  a1 = a1
  c1 = c1
  i2 = i2
  Peers = {e1, i1, a1}
  Local = Local
  Kind <- KindDef
  AddPath = {a1}
  SendMax = 1
  Graceful = {e1, a1}
  Llgr = {e1}
  Router <- RouterDef
  Attrs = {1, 2}
  Stale = {1}
  Policies = {{}, {2}}
  Loops <- LoopsDef
  Rank <- RankDef
  Announcers = {e1, a1, Local}
  Early = {i1}
  Restarts = {FALSE, TRUE}
  MaxEvents = 3
SPECIFICATION Spec
INVARIANTS Bookkeeping InSync AddPathInSync DeferralHonoured DeferralEnds
CHECK_DEADLOCK FALSE
