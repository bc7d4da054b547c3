SPECIFICATION FairSpec
CONSTANTS
  Kinds = {"file", "patch", "cloud", "int"}
  Chunks = 3
  MaxFaults = 3
INVARIANTS
  SafeUpdate
  NoLitter
PROPERTIES
  RetriesSuffice
CHECK_DEADLOCK FALSE
