SPECIFICATION FairSpec
CONSTANTS
  a = a b = b
  Callers = {a, b}
  MaxStarts = 2
  MaxTicks = 2
INVARIANTS StatusTruthful StopLeavesNothing
PROPERTIES StopReturns
CHECK_DEADLOCK FALSE
