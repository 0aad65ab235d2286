CONSTANTS
  Data <- MCData
  OnlyMinArgs = {TRUE, FALSE}
  None = None
SPECIFICATION Spec
INVARIANTS
  TypeOK
  FitPointsAreRunMinima
CHECK_DEADLOCK FALSE
