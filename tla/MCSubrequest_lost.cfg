SPECIFICATION Spec
CONSTANTS
  Names = {h1}
  Blank = Blank
  Environments <- MCTimeslice
  MaxLaunches = 2
  MaxPosts = 2
INVARIANT ParentWaits
CHECK_DEADLOCK FALSE
