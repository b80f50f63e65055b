SPECIFICATION Spec
CONSTANTS
  Requests <- TwoIdentities
  ApiKey <- KeyOf
  ClientIp <- SameIp
  ValidKeys = {"valid"}
  NoKey = "none"
  Limit = 2
  Window = 2
  FailOpen = TRUE
  MaxDelay = 1
  MaxSkew = 1
  MaxTime = 5
INVARIANTS
  QuotaPerWindow
  RefusedOnlyAtLimit
CHECK_DEADLOCK FALSE
