SPECIFICATION PageSpec
CONSTANTS
  site = site  login = login  service = service
  Check <- TwoChecks
  Sample <- Samples
  Service = {service}
  ChecksOf <- OneRow
  Hour = 2
  Day = 2
  Offset = 1
  HistoryHours = 2
  HistoryDays = 2
  RawDays = 2
  DailyDays = 2
  HourlyDays = 2
  MaxTime = 2
  MaxRows = 2
  MaxBoots = 1
  MaxFaults = 0
SYMMETRY EitherCheck
INVARIANTS PageTypeOK NewestBoxCoversRow  FailureReachesTheBanner ApiEndsNow SinceIsFirstOfRun
CHECK_DEADLOCK FALSE
