CONSTANTS
  FrameIds = {1, 2}
  Times = {1, 2}
  DriftArgs <- MCDriftArgs
  Margin = 500
  NaN = NaN
  None = None
SPECIFICATION MCSpec
INVARIANTS
  CaptureAnchor
CHECK_DEADLOCK FALSE
