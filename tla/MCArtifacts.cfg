CONSTANTS
  a = a
  b = b
  n1 = n1
  w1 = w1
  w2 = w2
  Artifacts = {a, b}
  Rekeyed = {n1}
  Workers = {w1, w2}
  Retention = 1
  WorkLease = 1
  Horizon = 1
  Rollback = 1
  KeyHorizon = 2
  MaxTime = 3
  MaxAttempts = 2
  MaxCrashes = 1
  Mixes <- MCMixes
  o1 = o1
  o2 = o2
  Operators = {o1, o2}
  Inventory <- MCInventory
  Rows = {"task", "event", "stream"}
  BodyOf <- MCBodyOf
  Lease = 1
  SweepAge = 1
  PlanTime = 3
  MaxFaults = 2
SPECIFICATION MCSpec
SYMMETRY ArtifactSymmetry
INVARIANTS ServableHasBlob StageRecoverable SealedReadable PlansKeepContent
CHECK_DEADLOCK FALSE
ACTION_CONSTRAINT PromptPromotion
