SPECIFICATION MCFairSpec
CONSTANTS
  MaxPublications = 2
  MaxTime = 3
  MaxFaults = 0
  Policies = {"policy"}
  Opportunities = {1, 2}
  Manifests <- ThreeCohorts
  Target <- AfterTwo
  Rank <- Canonical
  SelectedSteps <- OneStep
  InWindow <- AnyTime
INVARIANTS
  DeadlineIsFinal
CHECK_DEADLOCK FALSE
