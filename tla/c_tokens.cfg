CONSTANTS
  MaxLen = 4
  MaxStrings = 2
  Sources <- MCSources
  Lost = Lost
SPECIFICATION FairSpec
INVARIANTS TypeOK  
PROPERTIES ReachesTheEnd
CHECK_DEADLOCK FALSE
