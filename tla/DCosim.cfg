CONSTANTS
  NumIns = 2
  Outs = {o1, o2}
  Methods = {"normal", "after", "both"}
  Delay = 3
  Extra = 1
  QLength = 2
  MinBreak = 1
  MaxStep = 7
  MaxTime = 8
  InTimes = {1, 4}
SPECIFICATION Spec
INVARIANTS InputsSeen OutputsSent OutputOnTime NeverBack InputOnTime
SYMMETRY OutSymmetry
CHECK_DEADLOCK FALSE
