SPECIFICATION MtSpec
CONSTANTS
  NumNodes = 4
  ActiveWidth = 3
  ResetFanout = 1
  CostThreshold = 2
  SpanCap = 2
  NumWorkers = 2
  Configs <- MCConfigs
  Circuits <- MCCircuits
INVARIANTS SparseExact WorkersDisjoint
