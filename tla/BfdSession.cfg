CONSTANTS
  n1 = n1
  n2 = n2
  Nodes <- Both
  Slow = 4
  TxInterval <- MixedTx
  RxInterval <- MixedRx
  Multiplier <- Three
  Jitters = {75, 100}
  MaxDelay = 1
  MaxFaults = 1
  MaxRestarts = 1
SPECIFICATION FairSpec
PROPERTIES
  ComesUp
  PollEnds
INVARIANTS
  UpOnly
  UpWasHeard
  SilenceDetected
  NoFalseAlarm
  TxOnTime
