SPECIFICATION ObservedSpec
CONSTANTS
  End = 1
  ScanChunk = 1
  Window = 1
PROPERTIES
  ClearWaitsForThread
