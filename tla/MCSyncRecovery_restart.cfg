CONSTANTS
  Pod = {p1}
  Region = {jp, en}
  Nobody = Nobody
  LeaseEnabled = TRUE
  MaxStops = 1
  MaxRequests = 0
SPECIFICATION FairSpec
PROPERTY InterruptedAreRecovered
CHECK_DEADLOCK FALSE
