SPECIFICATION Spec
CONSTANTS
  Keys <- MCKeys
  Hash <- MCHash
  Capacity = 4
INVARIANT LinkedIsFound
