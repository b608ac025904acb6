CONSTANTS
  MAX_CONN = 2
  MAX_LINKS = 2
  Q_DEPTH = 2
  Ids = {i1, i2}
  NoId = NoId
  Commands <- LinkCommands
  MaxProxy = 3
SYMMETRY Symmetry
SPECIFICATION Spec
INVARIANTS
  TypeOK
  PendingSlotIsDialing
  LiveSlotHasLink
  
  HandlesUnique
PROPERTIES
  SlotHeldByOperation
  ImplementsDesk
