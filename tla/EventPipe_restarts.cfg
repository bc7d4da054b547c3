SPECIFICATION Spec
CONSTANTS
  StageNames = {"decode", "store"}
  BufferSize = 1
  FeedLen = 3
  Wanted = {1, 3}
  StartCID = 1
  PageLimit = 2
  LoadLimit = 2
  Pipelines <- TwoStages
  Concurrency = 2
  Backend = "sqlite"
  Outcomes = {"processed", "retry", "remove", "error"}
  Faults = {"crash", "cancel", "fetch"}
  MaxFaults = 2
INVARIANTS
  NoOrphan
PROPERTIES
  CursorMonotone
