SPECIFICATION Spec
CONSTANTS
  p1 = p1
  p2 = p2
  l1 = l1
  t1 = t1
  NoArg = NoArg
  Requests = {r1, r2}
  Operations <- Everything
  Points <- TwoPoints
  Requires = {p1}
  Locks = {l1}
  Tags = {t1}
  PointOf <- OneLabelEach
  MaxConfigurations = 2
  MaxArchives = 2
SYMMETRY RequestSymmetry
INVARIANTS
  Inductive
  EvidenceChain
  StepsAreUnique
  NoEarlyUnwinding
PROPERTIES
  ImplementsEnergyStages
CHECK_DEADLOCK FALSE
