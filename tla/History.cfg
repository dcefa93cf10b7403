SPECIFICATION Spec
CONSTANTS
  check = check
  Check = {check}
  Sample <- UpOnly
  Hour = 2
  Day = 4
  Offset = 1
  HistoryHours = 2
  RawDays = 2
  DailyDays = 2
  HourlyDays = 1
  MaxTime = 12
  MaxRows = 2
  MaxBoots = 2
  MaxFaults = 1
INVARIANTS TypeOK NoHole ShownHoursWhole
CHECK_DEADLOCK FALSE
