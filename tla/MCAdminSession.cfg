CONSTANTS
  Ids = {s1, s2}
  Threads = {t1, t2}
  TTL = 3
  IdleTTL = 1
  MaxClock = 4
  MaxWaiting = 1
  MaxFaults = 1
SPECIFICATION AdminSpec
SYMMETRY Symmetry
INVARIANTS OneActiveSession ActiveIsGranted IdleLimitHolds
PROPERTY RevokedIsUnused
CHECK_DEADLOCK FALSE
