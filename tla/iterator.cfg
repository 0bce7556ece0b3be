CONSTANTS
  Token = {a, b}
  Eof = Eof
  MaxPastes = 2
  MaxLen = 3
  Sources <- MCSources
SPECIFICATION FairSpec
INVARIANTS TypeOK LexedAhead LookPastIsNextInFile
PROPERTIES NoUnreadTokenDropped ImplementsStream ReachesTheEnd
