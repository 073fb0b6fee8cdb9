SPECIFICATION FairSpec
CONSTANTS
  p1 = p1
  p2 = p2
  p3 = p3
  Down = {p3}
  Requests = {r1, r2}
  Peers = {p1, p2, p3}
  Upstreams <- MCUpstreams
  MaxFails = 1
  MaxConns = 1
  MaxResolves = 1
  None = None
INVARIANT ConnectionsCounted
PROPERTIES NoPeerTwice OneProbe EveryRequestEnds
CHECK_DEADLOCK FALSE
