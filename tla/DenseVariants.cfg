SPECIFICATION VariantSpec
CONSTANTS
  Configured = 2
  OwnerReady = FALSE
  N = 4
  CacheLine = 2
  MaxCycles = 3
  Window = 2
  Plans <- MCPlans
INVARIANTS CountersAlternate
PROPERTIES StepReturns ImplementsDenseCycle
