CONSTANTS
  Nlris = {"p","r"}
  Family <- FamilyDef
  PrefixLen <- PrefixLenDef
  Ids <- IdsDef
  Attrs = {"x","y"}
  AttrsLen <- AttrsLenDef
  Growth <- GrowthDef
  Nexthop6 = {"y"}
  MaxLength = 9
  MaxPaths = 4
  MaxQueue = 4
SPECIFICATION Spec
INVARIANT InOrder
CHECK_DEADLOCK FALSE
