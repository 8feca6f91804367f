SPECIFICATION Spec
CONSTANTS
  N = 4
  PinnedTasks = {0, 2}
  MaxActs = 1
  Threads = 2
  MTaskSize = 2
  LayerWidth = 2
  Inputs <- MCInputs
INVARIANTS SccsExact CoarseningKeepsOrder LayersOrdered RunOrderTopological ValidIffAcyclic
