CONSTANTS
  r1 = r1
  r2 = r2
  t1 = t1
  t2 = t2
  c1 = c1
  c2 = c2
  c3 = c3
  a = a
  b = b
  x = x
  y = y
  z = z
  Parts = {"calls", "edits", "streams", "orders", "acknowledge", "portfolio", "claims", "portal", "results"}
  Nothing = Nothing
  Requests = {r1, r2}
  SessionIds = {s1}
  Streams = {t1, t2}
  Sites = {a, b}
  Allows <- Allowed
  Scope <- Granted
  NoRead = NoRead
  MaxEdits = 2
  MaxIdle = 0
  Burst = 5
  Cost = 2
  Refill = 2
  Second = 1
  MaxTime = 3
  OrderCalls = {c1, c2, c3}
  Kind <- OrderKind
  Wanted <- OrderGiven
  Lots = {0, 1}
  None = None
  Trades = {x, y, z}
  Side <- TradeSide
  Value <- TradeValue
  Threshold = 4
  NoList = NoList
  Frames = 2
  MaxLoads = 1
  Null = Null
  ClaimCalls = {c1, c2}
  DryRun <- ClaimDry
  Given <- ClaimGiven
  Claims = {a, b}
  Empty = Empty
  EntryText = {"heading", "button"}
  PortalCalls = {c1, c2}
  Unread = Unread
  ResultCalls = {c1, c2}
  FileName <- RowNames
  Closed = Closed
INIT PartsInit
NEXT PartsNext
INVARIANTS
  ToolsTypeOK RateIsKept ChangesAreTold OrdersAsAsked AckedIsAgreed BalancesAreOneReading
   ActiveIsActive ReportedIsThere
PROPERTIES PoliciesAreCurrent
SYMMETRY Symmetries
CHECK_DEADLOCK FALSE
