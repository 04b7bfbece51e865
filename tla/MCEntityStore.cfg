CONSTANTS
  None = None
  Composite = TRUE
  MaxRecords = 2
  MaxBytes = 3
  Pods = {"p1", "p2"}
  Build <- MCBuild
  Builds <- MCBuilds
  Index <- MCIndex
  Field <- MCField
  Readers = {"r"}
  Sources <- MCSources
  Lookups <- MCLookups
  Wanted <- MCWanted
  PageSize = 2
  MaxToken = 3
  MaxWrites = 1
SPECIFICATION Spec
INVARIANTS
  BlocksHoldTheOrder
  DerivedMatchesRecords
  DigestNamesTheRecords
  AnswersComeFromOneVersion
