SPECIFICATION FairSpec
CONSTANTS
  None = None
  Blocks <- Both
  MaxCalls = 4
PROPERTY StopReturns
CHECK_DEADLOCK FALSE
