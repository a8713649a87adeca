SPECIFICATION Spec
CONSTANTS
  ball = ball
  r1 = r1
  r2 = r2
  NoEvent = NoEvent
  Events <- MCEvents
  Requests <- MCRequests
  MaxTime = 2
  MaxCharges = 2
INVARIANTS
  TypeOK
  ListedWhenAnswered
  InvoicesCovered
  DeletedLeavesNothing
SYMMETRY MCSymmetry
PROPERTY
  LifeSpec
