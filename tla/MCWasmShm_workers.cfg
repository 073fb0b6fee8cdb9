SPECIFICATION Spec
CONSTANTS
  Workers = {w1, w2}
  Keys = {k1, k2, k3}
  NoWorker = NoWorker
  Text = Text
  MinInt <- MCMinInt
  MaxInt <- MCMaxInt
  Capacity = 2
  MaxAttempts = 2
  Ttls = {0, 1}
  StoredValues <- MCStoredValues
  Deltas <- MCDeltas
  MaxTime = 1
  MaxCalls = 4
SYMMETRY MCSymmetry
INVARIANTS LockMeansSection EntriesAccounted
PROPERTIES EvictsOldest ImplementsKV
CHECK_DEADLOCK FALSE
