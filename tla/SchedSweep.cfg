SPECIFICATION FairSpec
CONSTANTS
  page = page  login = login  coursesPage = coursesPage  coursesLogin = coursesLogin
  Job <- TwoServices
  Guarded = {login, coursesLogin}
  GateOf <- MCGateOf
  Interval <- EveryOther
  MaxStartJitter = 0
  FailureThreshold = 2
  BackoffInitial = 1
  BackoffMax = 3
  MaxAttemptsPerDay = 0
  Day = 4
  RawRetention = 9
  MaxTime = 1
  MaxRuns = 2
  MaxBoots = 2
  MaxFaults = 0
INVARIANT LoginFollowsGate
PROPERTY SweepEnds
CHECK_DEADLOCK FALSE
