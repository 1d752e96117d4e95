SPECIFICATION Spec
CONSTANTS
  r1 = r1
  r2 = r2
  r3 = r3
  q1 = q1
  u1 = u1
  p1 = p1
  p2 = p2
  Users <- MCUsers
  Products <- MCOneProduct
  Requests <- MCRequests
  Quotes <- MCNone
  Inputs <- MCRepeated
  MaxQty = 3
CHECK_DEADLOCK FALSE
SYMMETRY Symmetric
INVARIANTS
  SetHolds
  AddsCounted
