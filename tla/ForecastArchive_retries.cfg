SPECIFICATION FairSpec
CONSTANTS
  MaxAttempts = 3
  MaxFaults = 1
  Origins = {"api", "scheduled"}
  Keys = {k1}
  Requests = {r1, r2}
  Opportunity <- SameOpportunity
  Asked <- FirstNamed
  NoKey = NoKey
  NoCall = NoCall
INVARIANTS
  AnswersHold
PROPERTIES
  KeepsPromise
  AttemptAnswered
CHECK_DEADLOCK FALSE
