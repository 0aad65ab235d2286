CONSTANTS
  Captures <- MCCaptures
  Values = {10, 20}
  MaxRows = 2
  MeanOnText = {ConcatText, DropText, RaiseOnText}
  ConcatText = ConcatText
  DropText = DropText
  RaiseOnText = RaiseOnText
  Dirs <- MCDirs
  PassId = 1
  Malformed = Malformed
  NoTable = NoTable
  Empty = Empty
  Raised = Raised
  FrameIds = {1, 2}
  Times = {1, 2, 3}
  DriftArgs <- MCDriftArgs
  Margin = 500
  NaN = NaN
  None = None
SPECIFICATION MCSpec
INVARIANT
  RowMeans
CHECK_DEADLOCK FALSE
