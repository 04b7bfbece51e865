CONSTANTS
  p1 = p1
  p2 = p2
  None = None
  StatusLog = StatusLog
  Pod = {p1, p2}
  Entity = {e1}
  Skew <- NoSkew
  Floor = 0
  TTL = 1
  Beat = 1
  MaxToken = 3
  MaxLate = 1
  MaxSessions = 2
SPECIFICATION Spec
INVARIANTS
  TypeOK
  LockedIsCurrent
  CurrentClaimHolds
PROPERTY FencedSpec
