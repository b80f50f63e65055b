SPECIFICATION MCSpec
CONSTANTS
  a = a
  b = b
  s1 = s1
  s2 = s2
  x = x
  None = None
  Operators = {a, b}
  Actions = {s1, s2}
  Prices = {x}
  Windows <- TwoWindows
  FirstLimit = 3
  Recovery = 1
  TotalLimit = 4
  MaxGrants <- Grants
  MaxFaults = 2
INVARIANTS
  BudgetHolds
  NoBlindRetry
PROPERTIES
  AnchorExtends
  CampaignSettles
CHECK_DEADLOCK FALSE
