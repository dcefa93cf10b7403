SPECIFICATION Spec
CONSTANTS
  page = page  login = login  coursesPage = coursesPage  coursesLogin = coursesLogin
  Job <- OneService
  Guarded = {login}
  GateOf <- MCGateOf
  Interval <- QuietPage
  MaxStartJitter = 0
  FailureThreshold = 9
  BackoffInitial = 1
  BackoffMax = 3
  MaxAttemptsPerDay = 1
  Day = 4
  RawRetention = 9
  MaxTime = 2
  MaxRuns = 2
  MaxBoots = 2
  MaxFaults = 0
INVARIANT CeilingAsDocumented
CHECK_DEADLOCK FALSE
