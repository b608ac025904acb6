CONSTANTS
  MAX_CONN = 1
  MAX_LINKS = 1
  Q_DEPTH = 2
  Ids = {i1, i2}
  NoId = NoId
  Commands <- GattRunCommands
  MaxProxy = 2
SPECIFICATION FairSpec
INVARIANTS
  OperationMatchesRadio
  OneAnswerPerCommand
PROPERTIES
  EveryCommandSettles
