SPECIFICATION FairSpec
CONSTANTS
  r1 = r1
  r2 = r2
  Requests <- MCRequests
  Half = 3
  TTL = 1
  Tolerance = 1
  Lag = 1
  MaxTime = 8
  MaxRestarts = 1
  MaxTokens = 1
PROPERTY
  RotationAddsKey
