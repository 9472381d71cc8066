CONSTANTS
  o1 = o1
  o2 = o2
  Outputs = {o1, o2}
  Delays <- TwoDelays
  MaxTime = 4
  MaxPosts = 3
SPECIFICATION Spec
PROPERTY NeverDeliversRemoved
CHECK_DEADLOCK FALSE
