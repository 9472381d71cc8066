CONSTANTS
  Insts = {i1}
  FinalTime = 9
  MinBreak = 1
  MaxTime = 12
  MaxStep = 4
  Requests = {3, 4, 7, 12}
  Events = {2, 4, 6}
  AskIn = {"iter", "solve"}
  MaxBreaks = 6
  Indistinct = 0
SPECIFICATION Spec
INVARIANTS TableOrdered FinalTimeKept NoBreakSteppedOver StepForward
PROPERTIES KeepsQueueProtocol Returns
CHECK_DEADLOCK FALSE
