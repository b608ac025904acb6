CONSTANTS
  Networks = {n1, n2}
  Sticks = {l1, l2}
  FirstNet = n1
  FirstLl = l1
  None = none
  MaxChanges = 2
SPECIFICATION FairSpec
INVARIANT OneStandIn
PROPERTIES NeverStripped EndsSettled MeshAnswers
CHECK_DEADLOCK FALSE
