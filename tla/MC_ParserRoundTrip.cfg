CONSTANTS
  Idents <- MCIdents
  Fields <- MCFields
  Lines <- MCLines
  Separator = "---"
  MaxLines = 0
  None = None
  FormatError = FormatError
SPECIFICATION RTSpec
INVARIANT RoundTrip
CHECK_DEADLOCK FALSE
