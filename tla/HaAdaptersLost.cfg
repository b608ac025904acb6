CONSTANTS
  Tap = tap
  Lans = {lan}
  Gone = {}
  MaxEdits = 0
SPECIFICATION Spec
INVARIANTS ListedMeansAsked
CHECK_DEADLOCK FALSE
