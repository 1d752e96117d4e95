SPECIFICATION FairSpec
CONSTANTS
  c1 = c1
  d1 = d1
  Calls <- MCBoth
  Direct <- MCDirect
  Faulty <- MCDirect
  Inputs <- MCOneInput
  Deadline = 1
  Grace = 2
  IoLimit = 2
  Stops <- MCApi
CHECK_DEADLOCK FALSE
INVARIANTS
  TruthfulStatus
  DatabaseClosedLast
PROPERTIES
  Answered
  Ends
