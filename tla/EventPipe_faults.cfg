SPECIFICATION Spec
CONSTANTS
  StageNames = {"decode", "store"}
  BufferSize = 1
  FeedLen = 3
  Wanted = {1, 3}
  StartCID = 0
  PageLimit = 2
  LoadLimit = 2
  Pipelines <- Redeployed
  Concurrency = 1
  Backend = "sqlite"
  Outcomes = {"processed", "retry", "remove", "error"}
  Faults = {"crash", "cancel", "storage", "fetch"}
  MaxFaults = 2
INVARIANTS
  TypeOK
  NoEventLost
  OneActiveItem
  ResumePoint
  NoRepeatedStage
PROPERTIES
  KeepsPromise
