CONSTANTS
  RequestIds = {o1}
  HostOps = {h1}
  Challenges = {c1}
  Threads = {t1}
  NoThread = noThread
  NoHostOp = noHostOp
  LeaseIds = {}
  NoLeaseId = noLease
  ExecIds = {}
  NoExec = noExec
  LeaseTTL = 1
  MaxClock = 1
  LedgerLimit = 10
  LedgerKeep = 10
  MaxEffects = 3
  MaxFaults = 1
  MaxSends = 2
  MaxRestarts = 1
  MaxBreaks = 1
SPECIFICATION FairOpsSpec
CHECK_DEADLOCK FALSE
INVARIANTS
  DecisionsHold
  ExecutedIsTrue
  HostRunsAccounted
PROPERTIES
  FinishedIsFinal
  ExecutingEnds
