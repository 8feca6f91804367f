SPECIFICATION HostSpec
CONSTANTS
  MaxLines = 6
  ModulesPerTask = 2
  Threads = 2
  MaxChars = 2
  Texts <- MCTexts
  MaxCalls = 2
  Limit = 4
  Header = 1
INVARIANTS CircuitComplete FilesAsSequential
PROPERTIES ParserReturns
