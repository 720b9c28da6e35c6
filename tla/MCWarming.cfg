SPECIFICATION Spec
CONSTANTS
  Merge = {m1}
  Replica = {r1, r2}
  MaxJoins = 2
  MaxFails = 1
INVARIANTS
  TypeOK
  EndsAfterAnswers
PROPERTIES
  CloseEndsWarming
  WarmingEndsWhenHealthy
CHECK_DEADLOCK FALSE
