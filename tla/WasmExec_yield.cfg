SPECIFICATION FairSpec
CONSTANTS
  FuelLimit = 5
  TimesliceFuel = 2
  MayYield = TRUE
INVARIANT TypeOK
INVARIANT FutureOwned
INVARIANT ResumableSuspension
INVARIANT FuelAccounted
INVARIANT DoneMeansReturnedZero
PROPERTY BudgetNeverRefilled
PROPERTY InterruptedCallSurvives
PROPERTY ImplementsContract
PROPERTY SuspensionEnds
CHECK_DEADLOCK FALSE
