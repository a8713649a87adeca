SPECIFICATION Spec
CONSTANTS
  left = left
  right = right
  ann = ann
  none = none
  Tabs <- MCTabs
  User = ann
  None = none
  MaxTokens = 3
  MaxCalls = 2
INVARIANTS
  TypeOK
  OneRenewal
  TokensMatchCookie
  LogoutIsFinal
  GuardIsAnswered
SYMMETRY MCSymmetry
