SPECIFICATION MtSpec
CONSTANTS
  NumNodes = 3
  ActiveWidth = 2
  ResetFanout = 100
  CostThreshold = 2
  SpanCap = 2
  NumWorkers = 2
  Configs <- MCConfigs
  Circuits <- AnyCircuits
INVARIANTS ReadableExact
