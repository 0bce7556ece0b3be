CONSTANTS
  Eof = Eof
  MaxEntries = 3
  MaxList = 2
  MaxRest = 2
  Token <- MCToken
  Stacks <- MCStacks
  Counts <- MCCounts
SPECIFICATION Spec
INVARIANTS TypeOK WalkIsPeek
PROPERTY Returns
CHECK_DEADLOCK FALSE
