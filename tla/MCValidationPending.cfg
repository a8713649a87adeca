SPECIFICATION Spec
CONSTANTS
  ann = ann
  bob = bob
  nobody = nobody
  r1 = r1
  r2 = r2
  Users <- MCOneUser
  Requests <- MCRequests
  Nobody = nobody
  MaxIds = 2
INVARIANT
  OnePendingPerUser
