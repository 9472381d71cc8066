CONSTANTS
  NumIns = 1
  Outs = {o1, o2}
  Methods = {"normal"}
  Delay = 3
  Extra = 1
  QLength = 2
  MinBreak = 1
  MaxStep = 6
  MaxTime = 6
  InTimes = {1, 5}
SPECIFICATION Spec
INVARIANTS EveryOutputSent
CHECK_DEADLOCK FALSE
