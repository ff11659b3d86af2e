SPECIFICATION Spec
CONSTANTS
  p1 = p1
  p2 = p2
  p3 = p3
  w1 = w1
  l1 = l1
  m1 = m1
  NoDate = NoDate
  Nowhere = Nowhere
  NoMachine = NoMachine
  NoArg = NoArg
  Requests = {r1, r2}
  Permits = {p1, p2, p3}
  Handled <- OnTheMachine
  Moving = {p2}
  Plans <- BothPlans
INVARIANTS
  Inductive
  ResolvedOnce
  HoldsFollowRejection
PROPERTIES
  CollisionsAreRecorded
  ImplementsConflictFiles
