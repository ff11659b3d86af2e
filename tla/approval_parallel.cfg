SPECIFICATION Spec
CONSTANTS
  NoEntry = NoEntry
  NoRow = NoRow
  NumSteps = 2
  Assignments <- ParallelRows
  StepOf <- ParallelStepOf
  Quorum <- ParallelQuorum
  RoleOf <- OwnRole
  Users <- Approvers
  MayAct <- OneRoleEach
  Requests = {r1, r2}
  MaxSubmissions = 2
INVARIANTS StageOrder ApprovedAllDecided Inductive
PROPERTY ImplementsGate
