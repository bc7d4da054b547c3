SPECIFICATION FairSpec
CONSTANTS
  c1 = c1
  Calls = {c1}
  MaxConnects = 2
INVARIANTS
  TypeOK
  OneMqttClient
  EarlierCancelled
PROPERTIES
  LossNoticed
  CallsReturn
CHECK_DEADLOCK FALSE
