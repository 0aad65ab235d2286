CONSTANTS
  FrameIds = {1, 2}
  Times = {1, 2}
  DriftArgs <- MCDriftArgs
  Margin = 500
  NaN = NaN
  None = None
SPECIFICATION MCSpec
INVARIANTS
  TypeOK
  StageDelays
  CorrectionTypeOK
  ScalarCorrectionRestoresCausality
CHECK_DEADLOCK FALSE
