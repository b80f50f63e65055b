SPECIFICATION MCFairSpec
CONSTANTS
  MaxPublications = 2
  MaxTime = 3
  MaxFaults = 1
  Policies = {"policy"}
  Opportunities = {1, 2}
  Manifests <- ThreeCohorts
  Target <- AfterTwo
  Rank <- Canonical
  SelectedSteps <- OneStep
  InWindow <- AnyTime
INVARIANTS
  SealedInTime
  ForecastUsedOnce
  AnswersHold
PROPERTIES
  PublicationAnswered
CHECK_DEADLOCK FALSE
