SPECIFICATION Spec
CONSTANTS
  Merge = {m1}
  Replica = {r1}
  MaxJoins = 1
  MaxFails = 1
PROPERTIES
  WarmingEnds
CHECK_DEADLOCK FALSE
