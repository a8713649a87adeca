SPECIFICATION Spec
CONSTANTS
  ann = ann
  bob = bob
  nobody = nobody
  r1 = r1
  r2 = r2
  Users <- MCUsers
  Requests <- MCRequests
  Nobody = nobody
  MaxTokens = 2
  MaxDeletions = 1
SYMMETRY MCSymmetry
INVARIANTS
  TypeOK
  LineNeverForks
  OneNodePerSignup
PROPERTY
  LinesSpec
