SPECIFICATION Spec
CONSTANTS
  Credentials = {c1}
  Scopes = {s1}
  Windows = {1}
  MaxTokens = 1
  MaxChanges = 2
  MaxErrors = 0
PROPERTY DisableInvalidatesTokens
CHECK_DEADLOCK FALSE
