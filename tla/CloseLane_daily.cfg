SPECIFICATION LaneSpec
CONSTANTS
  FirstDay = 5
  MaxDay = 7
  Sessions = {1, 2, 3, 4, 5, 7}
  Lookback = 4
  Overlap = 2
  PageLimit = 2
  MaxObservations = 5
  MaxFailures = 1
  Shapes <- MCShapes
  IndicatorConfig <- MCIndicatorConfig
  EvaluationConfigs <- MCEvaluationConfigs
  Models <- MCModels
  Precision = 2
  MaxRawInputs = 3
  Actions <- MCActions
  Operands <- MCOperands
INVARIANTS
  AnalysisIsCausal
  AdjustmentAgrees
  WalkComplete
PROPERTIES
  LaneCatchesUp
CHECK_DEADLOCK FALSE
