SPECIFICATION Spec
CONSTANTS
  Budget = 3
  MaxSubs = 2
  Sites <- TwoPhaseSites
INVARIANT GuestSeesBody
