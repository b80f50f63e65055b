SPECIFICATION FairSpec
CONSTANTS
  Slots = {a, b, c}
  MaxCalls = 2
  WindowLength = 3
  Budget = 5
  MaxAttempts = 2
  MaxBackoff = 1
INVARIANTS
  SlidingWindowBound
  BudgetBound
PROPERTIES
  RequestEnds
