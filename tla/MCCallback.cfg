SPECIFICATION MCSpec
CONSTANTS
  t1 = t1
  c1 = c1
  c2 = c2
  w1 = w1
  Keys <- MCKeys
  KeyOrder <- MCKeyOrder
  MaxPerTask = 2
  MaxPerTenant = 2
  MaxPending = 2
  MaxAttempts = 2
  MaxRevision = 2
  Workers = {w1, w2}
  Batch = 2
  MaxCrashes = 1
  Disturb = {"delete", "upgrade", "quota", "answers"}
  None = None
  Members = {w1, w2}
  MaxErrors = 2
  MaxTrouble = 3
  Width = 8
  Policies <- MCPolicies
  Samples = {0, 3, 255}
  Headers <- MCHeaders
  Second = 2
  Horizon = 9
  NoDelay = NoDelay
INVARIANTS ScheduleWithinPolicy
PROPERTIES CallbacksFenced CallbacksEnd PoolFaithful
