SPECIFICATION Spec
CONSTANTS
  Assignments = {a1, a2}
  Timed = {a1}
  MaxLevels = 3
  Runs = {r1, r2}
  Attempts = 2
INVARIANTS
  Inductive
  EscalationChain
  DoneIsNotified
PROPERTIES
  OverdueClimbs
  NoticesSettle
CHECK_DEADLOCK FALSE
