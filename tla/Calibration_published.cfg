SPECIFICATION MCSpec
CONSTANTS
  MaxClients = 2
  MaxFaults = 1
  OutcomePolicies <- OneEpoch
  SelectionPolicies <- SomePolicies
  MinimumSealLead = 4
  NoPolicy = none
  Cohorts <- AllCohorts
  Observation <- Observed
  Coverage = 500
  Requests <- Asks
  Founded <- Beginnings
  NoRequest = norequest
  NoDoc = nodoc
INVARIANTS
  RegistryHolds
  RecordedIsReproducible
  AnswersHold
PROPERTIES
  AvailableAfterVisible
  CallsAnswered
CHECK_DEADLOCK FALSE
