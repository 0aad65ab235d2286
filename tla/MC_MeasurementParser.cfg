CONSTANTS
  Idents <- MCIdents
  Fields <- MCFields
  Lines <- MCLines
  Separator = "---"
  MaxLines = 5
  None = None
  FormatError = FormatError
SPECIFICATION Spec
INVARIANT TypeOK
PROPERTY GrammarSpec
\* The function returns or raises: a finished parse is a final state.
CHECK_DEADLOCK FALSE
