CONSTANTS
  MaxCommonNext = 3
  BasicWidth = 32
  When2muxBound = 1
  Circuits <- MCCatTests
SPECIFICATION Spec
INVARIANT CatTestKept
