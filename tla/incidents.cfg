SPECIFICATION Spec
CONSTANTS
  Nothing = Nothing
  Requests = {r1, r2}
  Permits = {p1, p2}
  Actions = {a1, a2}
SYMMETRY Symmetry
INVARIANTS
  Inductive
  AccidentCancels
  StopIsCarriedOut
  NearMissIsDecided
PROPERTIES
  ImplementsCaseFile
CHECK_DEADLOCK FALSE \* a closed incident is done with
