SPECIFICATION FrontSpec
CONSTANTS
  Client = {c1, c2, proxy}
  Trusted = {proxy}
  MaxForged = 2
  Cost = 3
  Rate = 1
  Burst = 2
  Second = 2
  SweepThreshold = 1
  SweepIdle = 1
  MaxTime = 8
SYMMETRY Sources
INVARIANTS TypeOK QuotaHolds NeverFull SourceQuota
PROPERTIES RetryAfterIsEnough NobodyStarves
