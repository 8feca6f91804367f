SPECIFICATION FairSpec
CONSTANTS
  Generated = 3
  N = 4
  CacheLine = 2
  MaxCycles = 2
  Plans <- MCPlans
  Environments <- MCEnvironments
INVARIANTS DepsBeforeBody CycleComplete
PROPERTIES StepReturns ImplementsDenseCycle
