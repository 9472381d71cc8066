CONSTANTS
  Insts = {i1}
  Blocks = {b1, b2, b3, b4}
  Null = Null
  Values = {0, 1}
  MaxTime = 3
  MaxMsgs = 2
SPECIFICATION Spec
INVARIANTS NoLiveFree ModifiedExact MessagesAsSent
PROPERTY RecordSpec
SYMMETRY AnyBlock
CHECK_DEADLOCK FALSE
