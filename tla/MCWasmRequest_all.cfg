SPECIFICATION FairSpec
CONSTANTS
  Budget = 3
  MaxSubs = 2
  Sites <- MCSites
INVARIANTS
  TypeOK
  CountMatches
  NoLostWakeup
  RunsOnlyLive
  AnsweredWhenClosed
PROPERTIES
  UsesContract
  PhasesInOrder
  EveryRequestEnds
