CONSTANTS
  Data <- MCData
  OnlyMinArgs = {TRUE, FALSE}
  None = None
SPECIFICATION Spec
INVARIANTS
  NoRunAbortsFit
CHECK_DEADLOCK FALSE
