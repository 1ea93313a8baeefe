CONSTANTS
  RequestIds = {r1, r2}
  LeaseIds = {l1, l2}
  NoLeaseId = noLease
  ExecIds = {x1, x2}
  NoExec = noExec
  LeaseTTL = 1
  MaxClock = 3
  LedgerLimit = 1
  LedgerKeep = 1
  MaxFaults = 1
  MaxEffects = 2
SPECIFICATION FairSpec
CHECK_DEADLOCK FALSE
INVARIANTS
  TypeOK
  LedgerAccounts
  RootExecOnce
  LeaseHeldDuringCall
PROPERTIES
  LiveLeaseEndsByRevocation
  LockReleased
