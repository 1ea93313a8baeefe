CONSTANTS
  p = p
  q = q
  a = a
  c = c
  Nothing = Nothing
  Profiles = {p, q}
  Jobs = {a}
  Owner <- Owners
  Schedule <- Schedules
  MaxTime = 3
  MaxFaults = 2
SPECIFICATION CronSafety
INVARIANTS WindowsApart DowntimeIsCovered
PROPERTIES NeverRecoveredTwice NothingLeftMissed
CHECK_DEADLOCK FALSE
