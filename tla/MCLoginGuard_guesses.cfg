SPECIFICATION Spec
CONSTANTS
  x = x y = y r1 = r1 r2 = r2
  Operations = {"LoginSource", "AuthFailure", "ReverifySource", "ReverifyPrincipal"}
  Subjects = {x, y}
  Overflow = Overflow
  Capacity <- MCCapacity
  Refill <- MCRefill
  Token = 5
  MaxSubjects = 1
  GenerationTTL = 1
  Skew = 2
  GateKeys = {x, y}
  FailureWindow = 2
  PerKeyLimit = 1
  DurableLimit = 1
  MaxKeys = 1
  Reqs = {r1, r2}
  Attempts <- MCAttempts
  WorkSlots = 1
  Second = 3
  Lag = 1
  MaxTime = 2
  MaxAttempts = 3
INVARIANTS
  NeverMoreThanIdeal FailuresAccounted
PROPERTIES
  RetryAfterHonest
SYMMETRY ReqSymmetry
CHECK_DEADLOCK FALSE
