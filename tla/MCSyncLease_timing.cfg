CONSTANTS
  p1 = p1
  p2 = p2
  None = None
  StatusLog = StatusLog
  Pod = {p1, p2}
  Entity = {e1}
  Skew <- MCSkew
  Floor = 0
  TTL = 4
  Beat = 2
  MaxToken = 2
  MaxLate = 0
  MaxSessions = 1
SPECIFICATION TimedSpec
INVARIANT PunctualOneLiveJob
PROPERTIES
  LoserStops
  DeadOwnerReplaceable
