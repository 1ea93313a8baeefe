CONSTANTS
  c1 = c1 c2 = c2 r1 = r1
  Calls <- MCCalls
  ReaperCalls <- MCReaperCalls
  NoCall = NoCall
  NoBrowser = NoBrowser
  Browsers = {b1}
  OtpFlow = FALSE
  IdleLimit = 1
  OtpLimit = 1
  RateWindow = 1
  MaxPerWindow = 1
  MaxCooldown = 0
SPECIFICATION FairWorkerSpec
PROPERTIES ChainIsAQueue SiteProgresses
