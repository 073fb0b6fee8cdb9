SPECIFICATION Spec
CONSTANTS
  Workers = {w1, w2}
  Master = Master
  Nobody = Nobody
  Configurations <- MCConfigurations
  MaxValue = 2
  Deltas <- MCDeltas
  MaxCalls = 3
  MaxReloads = 2
INVARIANTS LockMeansSection CounterIsSum DeclaredIsServed
PROPERTY MetricsSurvive
CHECK_DEADLOCK FALSE
