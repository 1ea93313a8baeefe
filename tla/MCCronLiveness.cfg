CONSTANTS
  p = p
  q = q
  a = a
  c = c
  Nothing = Nothing
  Profiles = {p, q}
  Jobs = {c}
  Owner <- Owners
  Schedule <- Schedules
  MaxTime = 2
  MaxFaults = 2
SPECIFICATION CronSpec
PROPERTY WindowsEnd
CHECK_DEADLOCK FALSE
