CONSTANTS
  o1 = o1
  o2 = o2
  n1 = n1
  Outputs = {o1, o2}
  Delays <- TwoDelays
  MaxTime = 4
  MaxPosts = 3
  Nodes = {n1}
  NodeOf <- OneNode
  Values = {0, 1}
  ValueOf <- RisesSlowly
  Saved = {n1}
  InitTime = 2
SPECIFICATION RoundSpec
INVARIANTS RoundTypeOK NextTimeExact QueueIsPromise NoLateEvent NodesFollowQueue
PROPERTIES DeliversWhatStands OneDelayIsSafe NodeRecordSpec
CHECK_DEADLOCK FALSE
