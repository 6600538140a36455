SPECIFICATION Spec
CONSTANTS
  create1 = create1  create2 = create2  continue1 = continue1
  stream1 = stream1  stream2 = stream2
  subscribe1 = subscribe1  reconnect1 = reconnect1  reconnect2 = reconnect2  read1 = read1
  p1 = p1  p2 = p2  t1 = t1  t2 = t2
  Intents = {create1, create2, continue1, stream1, stream2, subscribe1, reconnect1, reconnect2, read1}
  Mixes <- MCMixes
  Op <- MCOp
  By <- MCBy
  TaskOf <- MCTaskOf
  Policies <- MCPolicies
  Replicas = {r1, r2}
  PlanTargets <- MCPlan
  PlanEffective = 1
  Window = 2
  Period = 2
  LeaseDuration = 1
  Retention = 2
  MaxTime = 2
  None = None
INVARIANTS GrantsWithinLimit WorkSettled
CHECK_DEADLOCK FALSE
ACTION_CONSTRAINT InScope
SYMMETRY ReplicaSymmetry
