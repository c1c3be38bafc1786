SPECIFICATION MCChainSpec
CONSTANTS
  MaxBlock = 4
  Snail <- MCSnail
  TIP9 = 9
  TIP9Snail = 2
  TriesInMemory = 3
  Retained = 2
  Interval = 1
  MaxCalls = 1
INVARIANT NeverPanics
