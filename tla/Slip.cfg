\* Both decoders behind a port that fails up to twice, three frames in a row: short frames, and the hard ones.
SPECIFICATION Spec
CONSTANTS
  Sides = {"stick", "pump"}
  MIN = 2
  MAX = 4
  Frames <- AllFrames
  MaxFrames = 3
  MaxFaults = 2
INVARIANTS TypeOK DamageIsLocal FewFakes StickFindsFrames
CHECK_DEADLOCK FALSE
