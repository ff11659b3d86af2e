SPECIFICATION FairSpec
CONSTANTS
  NoEntry = NoEntry
  NoRow = NoRow
  NumSteps = 2
  Assignments <- SequentialRows
  StepOf <- SequentialStepOf
  Quorum <- SequentialQuorum
  RoleOf <- OwnRole
  Users <- Approvers
  MayAct <- WithDelegate
  Requests = {r1, r2}
  MaxSubmissions = 2
INVARIANTS TerminalFinal
PROPERTY PendingIsDecided
