CONSTANTS
  Roas <- RoasDef
  Routes <- RoutesDef
  SerialMod = 4
  Forgetful = FALSE
  FirstSerial = 3
  MaxUpdates = 2
  MaxCloses = 1
  MaxApi = 1
SPECIFICATION Spec
INVARIANTS NoStaleRoa
CHECK_DEADLOCK FALSE
