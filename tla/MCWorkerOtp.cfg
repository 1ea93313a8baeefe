CONSTANTS
  c1 = c1 c2 = c2 r1 = r1
  Calls <- MCCalls
  ReaperCalls <- MCReaperCalls
  NoCall = NoCall
  NoBrowser = NoBrowser
  Browsers = {b1, b2}
  OtpFlow = TRUE
  IdleLimit = 1
  OtpLimit = 1
  RateWindow = 1
  MaxPerWindow = 2
  MaxCooldown = 1
SPECIFICATION WorkerSpec
SYMMETRY Symmetry
INVARIANTS BrowsersAccounted OneSession
PROPERTIES LogoutClears
