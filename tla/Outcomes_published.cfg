SPECIFICATION MCSpec
CONSTANTS
  b1 = b1
  m1 = m1
  Collectors = {c1}
  Publishers = {d1}
  Finalizers = {w1}
  Bars = {b1}
  Keys = {k1}
  Members = {m1, m2}
  Bar <- TheBar
  Cutoff <- CutoffAt
  Key <- TheKey
  Target <- ClosesAt
  NoClient = NoClient
  MaxTime = 4
  MaxFaults = 1
INVARIANTS
  CutoffIsFinal
  NeverDisputed
  EvidenceJustified
PROPERTIES
  CollectionAnswered
CHECK_DEADLOCK FALSE
