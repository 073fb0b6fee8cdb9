SPECIFICATION Spec
CONSTANTS
  Budget = 3
  MaxSubs = 2
  Sites <- LateBodySites
INVARIANT AnsweredWhenClosed
