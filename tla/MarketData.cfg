SPECIFICATION MarketSpec
CONSTANTS
  End = 4
  ScanChunk = 3
  Window = 2
  Opens <- MCOpens
  Minute = 2
  Chunk = 4
  MaxTime = 11
  Refreshers = {f1}
  Span = 2
  Limit = 2
  MaxRetries = 2
  MaxClock = 7
CHECK_DEADLOCK FALSE
INVARIANTS
  TypeOK
  StopBoundsBatches
  CompletedIsWhole
  WorkIsReported
  RangesAreApart
  TotalIsExact
  FetchTypeOK
PROPERTIES
  SurveysTheCache
  CatchUpEnds
  FetchedIsWhole
  RefreshesEnd
  RefreshRepairs
