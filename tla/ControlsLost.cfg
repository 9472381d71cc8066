CONSTANTS
  Bgs = {b1, b2}
  Ctls = {c1, c2}
  None = None
  Freed = Freed
  MaxPolls = 2
  Patience = {"start", "end", "once"}
SPECIFICATION Spec
PROPERTY ControlsRun
CHECK_DEADLOCK FALSE
