SPECIFICATION FairSpec
CONSTANTS
  c1 = c1
  d1 = d1
  Calls <- MCOneCall
  Direct <- MCNone
  Faulty <- MCNone
  Inputs <- MCWrites
  Deadline = 1
  Grace = 2
  IoLimit = 3
  Stops <- MCGateway
CHECK_DEADLOCK FALSE
PROPERTIES
  Answered
  Ends
