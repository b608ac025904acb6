CONSTANTS
  Tap = tap
  Lans = {lan}
  Gone = {old}
  MaxEdits = 1
SPECIFICATION FairSpec
INVARIANT RestartAskedFor
PROPERTIES NothingTakenAway Settles
CHECK_DEADLOCK FALSE
