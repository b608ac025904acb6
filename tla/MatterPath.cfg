CONSTANTS
  WAIT = 1
  LIMIT = 3
  PONG = 1
  Q_DEPTH = 1
  MaxWaits = 1
  MaxPairs = 2
  MaxEvents = 2
SPECIFICATION FairSpec
INVARIANT PortLeftAlone
PROPERTIES LiveServerSpared NewLinkHasItsMinute OneEndEndsBoth StickGetsThrough
CHECK_DEADLOCK FALSE
