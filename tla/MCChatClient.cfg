SPECIFICATION MCSpec
CONSTANTS
  A = A
  B = B
  c1 = c1
  c2 = c2
  Profiles = {A, B}
  Convs = {c1, c2}
  NoOne = NoOne
  MaxRequests = 2
  MaxTurns = 2
  MaxAttempts = 2
  Parts = {"browsing", "talking"}
INVARIANTS
  NeverReasked
  RunningIsVisible
  OwnConversations
PROPERTIES
  ReplyIsShown
