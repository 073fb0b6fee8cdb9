SPECIFICATION FairResponseSpec
CONSTANTS
  Responses <- MCResponses
  ErrorPage <- Page
  Locations <- MCLocations
  ChunkSize = 2
INVARIANTS
  BodyInOrder ThreadOwnsRequest BufferedIsHonest FinishedIsComplete
  EveryStoreFreed BodyFollowsHeader
PROPERTY EveryResponseEnds
