SPECIFICATION Spec
CONSTANTS
  ann = ann
  bob = bob
  party = party
  r1 = r1
  r2 = r2
  Users <- MCUsers
  Events <- MCEvents
  Requests <- MCRequests
  Admins <- MCAdmins
  Owner <- MCOwner
  Future <- MCEvents
  MaxNodes = 2
  MaxEdges = 2
INVARIANT
  StoredHasNode
