CONSTANTS
  MAX_CONN = 2
  MAX_LINKS = 2
  Q_DEPTH = 2
  Ids = {i1, i2}
  NoId = NoId
  Commands <- LinkCommands
  MaxProxy = 2
SPECIFICATION Spec
INVARIANT StandingLinkHasSlot
