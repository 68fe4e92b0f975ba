CONSTANTS
  u1 = u1
  u2 = u2
  p1 = p1
  p2 = p2
  none = none
  K = 4
  Owned <- GitHook
  Executable <- GitHook
  Texts <- MCTexts
  Policies <- MCPolicies
  None = none
  InitialDisks <- MCDisks
  MaxEdits = 2

SPECIFICATION Spec
CHECK_DEADLOCK FALSE
INVARIANT TypeOK
INVARIANT ReceiptLast
INVARIANT AllOrNothing
INVARIANT EditsSurvive
