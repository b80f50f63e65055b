SPECIFICATION MCSpec
CONSTANTS
  Workers = {w1}
  Writers = {d1}
  Builders = {b1}
  NumSessions = 1
  SessionClose <- CloseTimes
  Vals = {x, y}
  Cutoffs = {0, 3}
  MinObs = 1
  ObsLimit = 2
  HostSkew = 0
  MaxClock = 2
  MaxTxn = 3
  NoClient = NoClient
  NoBar = NoBar
INVARIANTS
  PointInTimeStable
  BuildsAgree
  HistorySound
PROPERTIES
  FinalizeRepairsLane
  HistoryAppendOnly
SYMMETRY Symmetry
CHECK_DEADLOCK FALSE
