SPECIFICATION FairSpec
CONSTANTS
  StageNames = {"decode"}
  Sources = {"src"}
  Ids = {"a", "b"}
  Cursors = {"empty", "cid"}
  Empty = "empty"
  NoRow = "none"
  Page = 1
  MaxIndex = 3
  MaxFaults = 1
INVARIANTS
  SameAnswers
  Migrated
PROPERTIES
  Sweeps
  SqliteIsQueue
  MemoryIsQueue
