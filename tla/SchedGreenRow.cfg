SPECIFICATION Spec
CONSTANTS
  page = page  login = login  coursesPage = coursesPage  coursesLogin = coursesLogin
  Job <- OneService
  Guarded = {login}
  GateOf <- MCGateOf
  Interval <- EveryUnit
  MaxStartJitter = 0
  FailureThreshold = 9
  BackoffInitial = 1
  BackoffMax = 3
  MaxAttemptsPerDay = 0
  Day = 4
  RawRetention = 9
  MaxTime = 4
  MaxRuns = 2
  MaxBoots = 1
  MaxFaults = 0
INVARIANT FailureKeepsRow
CHECK_DEADLOCK FALSE
