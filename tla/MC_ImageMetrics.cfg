CONSTANTS
  Width = 1
  Height = 1
  Files <- MCFiles
  Raised = Raised
  Inf = Inf
  None = None
SPECIFICATION Spec
INVARIANT
  PsnrInfiniteOnlyForEqualImages
CHECK_DEADLOCK FALSE
