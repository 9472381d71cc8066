CONSTANTS
  h1 = h1
  h2 = h2
  e = e
  na = na
  nb = nb
  Insts = {h1, h2, e}
  Hybrids <- MCHybrids
  Nodes = {na, nb}
  NodeOf <- MCNodeOf
  Reads <- MCReads
  Values = {0, 1}
  Fresh = 0
  Resolve <- WiredOr
  OpAlternate = TRUE
  MaxPasses = 3
  MaxAlternations = 2
  NoTime = 99
  Options <- MCOptions
  Gmin = 2
  Gshunt = 0
  Top = 12
  Factor = 8
  Eps = 4
  Three = 6
  Whole = 4
  Raise = 2
  Ten = 2
  Levels = {1, 2}
  Start <- TwoStart
  Stop <- TwoStop
  Step <- TwoStep
  Temps = {}
  TaskTemp = 1
  Given <- TwoGiven
  FirstBreak = 99
  wantevtdata = TRUE
  MaxRuns = 2
SPECIFICATION DCSpec
INVARIANTS SourcesWhole SolvesTheCircuit Settled SourcesBack
PROPERTIES PointsInOrder SweepComplete SweepReturns
CHECK_DEADLOCK FALSE
