SPECIFICATION Spec
CONSTANTS
  NoEntry = NoEntry
  r1 = r1
  r2 = r2
  Requests = {r1, r2}
  Operations <- AllButSimops
  MaxHolds = 1
  MaxDays = 1
SYMMETRY RequestSymmetry
INVARIANTS ClosedForGood Inductive
PROPERTY ImplementsStages
