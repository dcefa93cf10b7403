SPECIFICATION Spec
CONSTANTS
  page = page  login = login  coursesPage = coursesPage  coursesLogin = coursesLogin
  Job <- OneService
  Guarded = {login}
  GateOf <- MCGateOf
  Interval <- EveryFourth
  MaxStartJitter = 1
  FailureThreshold = 9
  BackoffInitial = 1
  BackoffMax = 3
  MaxAttemptsPerDay = 1
  Day = 5
  RawRetention = 5
  MaxTime = 6
  MaxRuns = 3
  MaxBoots = 2
  MaxFaults = 1
INVARIANTS CeilingHolds PageMatchesGuard
CHECK_DEADLOCK FALSE
