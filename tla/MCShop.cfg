SPECIFICATION Spec
CONSTANTS
  r1 = r1
  r2 = r2
  r3 = r3
  q1 = q1
  u1 = u1
  p1 = p1
  p2 = p2
  Users <- MCUsers
  Products <- MCProducts
  Requests <- MCWithQuote
  Quotes <- MCQuotes
  Inputs <- MCQuoted
  MaxQty = 2
CHECK_DEADLOCK FALSE
SYMMETRY SymmetricPairs
INVARIANTS
  TypeOK
  SetHolds
  ShowsWhatIsKnown
  MissingIsUnlisted
