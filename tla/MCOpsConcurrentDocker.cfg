CONSTANTS
  RequestIds = {o1}
  HostOps = {}
  Challenges = {c1, c2}
  Threads = {t1, t2}
  NoThread = noThread
  NoHostOp = noHostOp
  LeaseIds = {}
  NoLeaseId = noLease
  ExecIds = {}
  NoExec = noExec
  LeaseTTL = 1
  MaxClock = 1
  LedgerLimit = 10
  LedgerKeep = 10
  MaxEffects = 3
  MaxFaults = 1
  MaxSends = 2
  MaxRestarts = 0
  MaxBreaks = 1
SPECIFICATION OpsSpec
CHECK_DEADLOCK FALSE
SYMMETRY OpsSymmetry
INVARIANT
  DockerRunsOnce
