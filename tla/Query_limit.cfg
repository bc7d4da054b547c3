SPECIFICATION Spec
CONSTANTS
  FeedLen = 4
  Schemas = {"temp"}
  Sources <- OneSource
  Limit = 2
  MaxFaults = 0
INVARIANTS
  AtMostLimit
CHECK_DEADLOCK FALSE
