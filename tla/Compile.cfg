CONSTANTS
  MaxCommonNext = 3
  BasicWidth = 32
  When2muxBound = 1
  Circuits <- MCCircuits
SPECIFICATION Spec
INVARIANTS
  NodesExact
  FoldedExact
  NeverAborts
  Settles
