SPECIFICATION Spec
CONSTANTS
  page = page  login = login  coursesPage = coursesPage  coursesLogin = coursesLogin
  Job <- OneService
  Guarded = {login}
  GateOf <- MCGateOf
  Interval <- QuietPage
  MaxStartJitter = 0
  FailureThreshold = 2
  BackoffInitial = 1
  BackoffMax = 3
  MaxAttemptsPerDay = 0
  Day = 4
  RawRetention = 9
  MaxTime = 3
  MaxRuns = 3
  MaxBoots = 2
  MaxFaults = 0
INVARIANTS TypeOK SuspensionHonoured SuspensionEscalates ThresholdTrips
PROPERTIES SuspensionStands GuardSpec
CHECK_DEADLOCK FALSE
