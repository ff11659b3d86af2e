SPECIFICATION Spec
CONSTANTS
  Permits = {p1, p2}
  Requests = {r1, r2}
  Editors = {r1}
  Parallel = {p1}
  Reportable = {p2}
  NoPermit = NoPermit
INVARIANTS
  Inductive
PROPERTIES
  DecidedIsKept
  SubmissionGetsThrough
  
CHECK_DEADLOCK FALSE
