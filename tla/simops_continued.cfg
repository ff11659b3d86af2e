SPECIFICATION Spec
CONSTANTS
  NoEntry = NoEntry
  r1 = r1
  r2 = r2
  Requests = {r1, r2}
  Operations <- HoldingAndGoingOn
  MaxHolds = 2
  MaxDays = 1
INVARIANT SimopsHoldsStop
