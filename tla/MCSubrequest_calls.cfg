SPECIFICATION FairSpec
CONSTANTS
  Names = {h1}
  Blank = Blank
  Environments <- MCAllTroubles
  MaxLaunches = 2
  MaxPosts = 2
INVARIANT AnswersTheLastLaunch
PROPERTIES HeadersAsStaged NeverLockedOut
CHECK_DEADLOCK FALSE
