SPECIFICATION Spec
CONSTANTS
  p1 = p1
  r1 = r1
  r2 = r2
  r3 = r3
  Requests <- MCRequests
  Inputs <- MCOneItem
  Products <- MCProducts
  Malformed = Malformed
  Nil = Nil
  MaxConns = 2
  Half = 8
CHECK_DEADLOCK FALSE
INVARIANTS
  RefusedForCause
