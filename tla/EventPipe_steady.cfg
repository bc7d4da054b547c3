SPECIFICATION FairSpec
CONSTANTS
  StageNames = {"decode", "store"}
  BufferSize = 1
  FeedLen = 4
  Wanted = {1, 2, 4}
  StartCID = 0
  PageLimit = 2
  LoadLimit = 2
  Pipelines <- TwoStages
  Concurrency = 2
  Backend = "sqlite"
  Outcomes = {"processed", "retry", "remove"}
  Faults = {}
  MaxFaults = 0
INVARIANTS
  OneByOne
PROPERTIES
  AllFinished
