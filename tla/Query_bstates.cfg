SPECIFICATION FairSpec
CONSTANTS
  FeedLen = 4
  Schemas = {"temp", "door"}
  Sources <- ThreeSources
  Limit = 2
  MaxFaults = 1
INVARIANTS
  Complete
  BoundedAnswer
PROPERTIES
  Ends
CHECK_DEADLOCK FALSE
