SPECIFICATION Spec
CONSTANTS
    t1 = t1
    t2 = t2
    Tasks = {t1, t2}
    MaxTurns = 2
    MaxAttempts = 2
    Deployments <- MCDeployments
    Replicas = {r1, r2}
    NoDispatch = NoDispatch
INVARIANTS
    CancellationsReopen
CHECK_DEADLOCK FALSE
