CONSTANTS
  Reads = {r1}
  Admins = {a1}
  Webhooks = {w1}
  Startup = startup
  MaxSignals = 2
SPECIFICATION FairSpec
INVARIANTS
  TypeOK
  OneJobPerProcess
  DrainedMeansQuiet
  ClosedMeansSignaled
  CleanExit
PROPERTY ShutdownEnds
CHECK_DEADLOCK FALSE
