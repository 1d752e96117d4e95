SPECIFICATION FairSpec
CONSTANTS
  c1 = c1
  c2 = c2
  c3 = c3
  w1 = w1
  mug = mug
  lamp = lamp
  mu = mu
  Creators <- MCCreators
  Walkers <- MCWalkers
  Ids <- MCIds
  Names <- MCNames
  Blank = Blank
  Inputs <- MCInputs
  Queries <- MCQueries
  Finds <- MCFinds
  Limits <- MCLimits
  NoLimit = NoLimit
  DefaultPage = 2
  MaxPage = 3
  NoCursor = NoCursor
  Malformed = Malformed
CHECK_DEADLOCK FALSE
INVARIANTS
  TypeOK
  OneProductEach
  NoneTwice
  NoneMissed
PROPERTIES
  KeepsContract
  WalkEnds
