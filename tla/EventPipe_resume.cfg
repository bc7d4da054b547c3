SPECIFICATION FairSpec
CONSTANTS
  StageNames = {"decode", "store"}
  BufferSize = 1
  FeedLen = 3
  Wanted = {1, 3}
  StartCID = 0
  PageLimit = 2
  LoadLimit = 2
  Pipelines <- TwoStages
  Concurrency = 1
  Backend = "sqlite"
  Outcomes = {"processed"}
  Faults = {"crash"}
  MaxFaults = 1
PROPERTIES
  AllFinished
