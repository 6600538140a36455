CONSTANTS
  p1 = p1
  p2 = p2
  t1 = t1
  t2 = t2
  k1 = k1
  k2 = k2
  none = none
  Processes = {p1, p2}
  Tenants = {t1, t2}
  Development = t2
  Keys = {k1, k2}
  None = none
  Starts <- MCStarts
  MaxCrashes = 2
  Requests = {q1, q2}
  Kids = {s1, s2}
  Absent = Absent
  Ttl = 1
  RefreshInterval = 2
  RequestTimeout = 1
  MaxSeconds = 2
  MaxRotations = 1
  r1 = r1
  r2 = r2
  a1 = a1
  a2 = a2
  Nil = Nil
  Readers <- MCReaders
  Ids = {1, 3}
  Accounts = {a1}
  Queries <- MCQueries
  Table0 <- MCTable0
  MaxTasks = 4
  MaxActive = 1
  MaxBytes = 4
  TTL = 1
  MaxClock = 2
  MaxVersions = 2
  MaxSnapshots = 2
SPECIFICATION MCSpec
SYMMETRY Symmetric
CHECK_DEADLOCK FALSE
INVARIANTS ServedStoreSound ListsServed AcceptedIsCurrent UnknownRefreshBounded
