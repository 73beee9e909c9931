SPECIFICATION FairSpec
CONSTANTS
  Interval = 2
  RetryTime = 1
  MaxKeep = 1
  MaxRetry = 2
  RecvLimit = 1
  HeaderLen = 2
  MTU = 1
  Late = 1
  Delay = 1
  MaxMiss = 1
  Backlog = 1
  Mortal = TRUE
  MaxMove = 1
  MaxJunk = 2
INVARIANTS TypeOK AttemptBounded SilenceBounded Accounted
PROPERTIES OnlyWhole TickReturns Kept
