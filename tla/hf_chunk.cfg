SPECIFICATION Spec
CONSTANTS
  Paths = {p1, p2}
  MaxFiles = 1
  MaxIterations = 3
  MaxErrors = 2
  MaxCalls = 3
  MaxFixAttempts = 2
  RecursionLimit = 3
  MaxBatch = 3
INVARIANTS TypeOK SuccessIsVerified CallsWithinLimit QuotaHolds
PROPERTIES ChunkEnds
CHECK_DEADLOCK FALSE
