CONSTANTS
  Worker = {w1, w2}
  Client = {k1, k2}
  Hub = hub
  Nobody = Nobody
  Capacity = 1
  MaxEvents = 2
SPECIFICATION FairSpec
INVARIANTS
  TypeOK
  NeverPanics
PROPERTIES
  StatusesInOrder
  PublishReturns
  StreamsEnd
CHECK_DEADLOCK FALSE
