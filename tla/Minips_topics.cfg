SPECIFICATION FairSpec
CONSTANTS
  s1 = s1
  s2 = s2
  Subs = {s1, s2}
  Topics <- Tree
  Published <- DeepTopic
  Capacity = 1
  MaxMessages = 1
  MaxTimes = 1
  Shared = {s2}
INVARIANTS
  Delivery
  NoneClosed
PROPERTIES
  Removal
  PublishEnds
