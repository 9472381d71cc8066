CONSTANTS
  Insts = {i1, i2}
  MaxTime = 4
SPECIFICATION Spec
INVARIANTS NextTimeExact NoneBehind OneEventPerTime
PROPERTY TimelineSpec
CHECK_DEADLOCK FALSE
