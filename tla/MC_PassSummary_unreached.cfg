CONSTANTS
  Dirs <- MCDirs
  PassId = 1
  Malformed = Malformed
  NoTable = NoTable
  Empty = Empty
  Raised = Raised
  FrameIds = {1, 2}
  Times = {1, 2, 3}
  DriftArgs <- MCDriftArgs
  Margin = 500
  NaN = NaN
  None = None
SPECIFICATION Spec
INVARIANT
  ClientStageAveragedOverClientRuns
CHECK_DEADLOCK FALSE
