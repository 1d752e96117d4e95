SPECIFICATION Spec
CONSTANTS
  c1 = c1
  d1 = d1
  Calls <- MCOneCall
  Direct <- MCNone
  Faulty <- MCNone
  Inputs <- MCInputs
  Deadline = 1
  Grace = 2
  IoLimit = 3
  Stops <- Procs
CHECK_DEADLOCK FALSE
INVARIANTS
  TypeOK
  TruthfulStatus
  NoneCut
