CONSTANTS
  None = None
  Bad = Bad
  MaxPageSize = 3
  Region = {"jp", "en"}
  Content = {"full", "bare", "empty"}
  Db <- MCDb
  Version <- MCVersion
  Request <- MCRequest
  Watched <- MCWatched
  TTL = 3
  MaxNow = 4
  MaxRev = 1
  MaxEntries = 1
SPECIFICATION Spec
INVARIANTS
  PagesPartitionLists
  ListsShowTheItems
  FiltersAgree
  EventViewsAgree
  AggregatesMatchTheirParts
  BatchesAnswerEveryId
  AvailabilityMatchesReads
  ReadyMeansServed
  CachedAnswersAreCurrent
