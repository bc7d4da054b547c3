SPECIFICATION FairSpec
CONSTANTS
  Streams = {"stream"}
  Capacities = {0, 1, 2}
  MaxTicks = 1
  MaxValues = 2
INVARIANTS
  Received
  OnlyRefusedDies
PROPERTIES
  ClosedForGood
  NewReturns
  RouterMoves
CHECK_DEADLOCK FALSE
