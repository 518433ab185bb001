SPECIFICATION FairSpec
CONSTANTS
  CLKS_PER_BIT = 6
  Bits = 3
  ResetClocks = 1
  Settle = 7
  MaxBytes = 3
INVARIANTS Delivered AnsweredWhenReceived
PROPERTIES StoreEnds
