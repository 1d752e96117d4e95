SPECIFICATION Spec
CONSTANTS
  u1 = u1
  u2 = u2
  p1 = p1
  p2 = p2
  r1 = r1
  r2 = r2
  r3 = r3
  Users <- MCUsers
  Products <- MCProducts
  CartIds = {c1, c2}
  Requests <- MCRequests
  Inputs <- MCInputs
  Malformed = Malformed
  NoUser = NoUser
  NoCart = NoCart
  MaxQty = 3
CHECK_DEADLOCK FALSE
SYMMETRY Symmetric
INVARIANTS
  TypeOK
  SameCart
  GetOrCreateConverges
  NoIncrementLost
PROPERTIES
  KeepsContract
  WaitFree
