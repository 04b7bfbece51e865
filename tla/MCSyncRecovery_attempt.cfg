CONSTANTS
  Pod = {p1, p2}
  Region = {jp, en}
  Nobody = Nobody
  LeaseEnabled = TRUE
  MaxStops = 1
  MaxRequests = 1
SPECIFICATION FairSpec
PROPERTY StartupRecovers
CHECK_DEADLOCK FALSE
