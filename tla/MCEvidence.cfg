CONSTANTS
  c1 = c1
  c2 = c2
  Coordinators = {c1, c2}
  MaxFences = 2
  EvidenceRecords <- MCRecords
  PolicySpec <- MCPolicy
  MaxArrivals = 5
  MaxText = 6
  MaxLines = 2
  MaxWords = 2
  MaxFrequency = 1
  Hashes = {h1, h2}
  Tasks = {t1, t2}
  None = None
  PublishedStates = {"Completed"}
  RequiredCapacity = 3
  OptionalCapacity = 1
  PerWorkloadCapacity = 2
  MaxSeen = 2
  MaxEvents = 4
SPECIFICATION MCSpec
SYMMETRY MCSymmetry
INVARIANTS EvidenceDecides ConcordanceExact
PROPERTIES CandidateSettles TraceKept
CHECK_DEADLOCK FALSE
