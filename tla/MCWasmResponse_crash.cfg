SPECIFICATION ResponseSpec
CONSTANTS
  Responses <- OneFile
  ErrorPage <- Page
  Locations <- BothFilters
  ChunkSize = 2
INVARIANT NeverCrashes
