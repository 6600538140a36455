CONSTANTS
  t1 = t1
  r1 = r1
  r2 = r2
  k1 = k1
  k2 = k2
  Tasks = {t1}
  Ratifiers = {r1, r2}
  Keys = {k1, k2}
  Secrets = {"key"}
  Backends = {"sqlite", "postgres"}
  MaxDispatches = 3
  MaxCrashes = 1
  Mixes <- MCMixes
  Callers = {r1, r2}
  CallKeys = {k1, k2}
  Revisions = {0, 1, 2}
  MaxGenerations = 2
  LedgerLimit = 5
SPECIFICATION MCSpec
SYMMETRY RatifierSymmetry
INVARIANTS ReviewThenDecision PublishedOnlyApproved AmendDispatchesOnce
PROPERTY ActsOnSeenView
CHECK_DEADLOCK FALSE
ACTION_CONSTRAINT InScope
