CONSTANTS
  n1 = n1
  a1 = a1
  a2 = a2
  r1 = r1
  r2 = r2
  p1 = p1
  NoPath = NoPath
  NoPeer = NoPeer
  Local = Local
SPECIFICATION Spec
INVARIANTS
  Sorted
  MultipathExact
  WatchersKnow
  Coalesced
  Fits
  PathRestored
  SegmentsFit
  CaughtUp
  RoasEnd
  ObjectsLive
  RibInv
PROPERTIES
  FailedChangesNoRoute
CHECK_DEADLOCK FALSE
