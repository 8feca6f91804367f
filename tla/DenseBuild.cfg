SPECIFICATION BuildSpec
CONSTANTS
  N = 4
  Threads = 3
  LaneCount = 3
  CcdExtra = 20
  CcdSize = 2
  Costs = {0, 10}
  Inputs <- MCInputs
  Contracts <- MCContracts
  Zeros = {{}, {1}}
  Everies = {0, 1, 2}
  Cost = 1
  Cap = 3
  CacheLine = 2
INVARIANTS
  BookkeepingExact RejectsOnlyCycles MTasksWellFormed
  ScheduleFeasible AllScheduled
  OrderKept TokensExact LookaheadSound
