SPECIFICATION Spec
CONSTANTS
  MaxItems = 3
  MaxAttempts = 2
  MaxKills = 2
INVARIANTS
  Inductive
  NothingLost
  OrderKept
PROPERTIES
  CountedIsSettled
