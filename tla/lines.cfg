CONSTANTS
  Depth = 2
  Meaning <- CallMeaning
  MaxLines = 2
  Spellings <- MCSpellings
  Programs <- MCPrograms
  Headers <- MCHeaders
  Predefined <- MCPredefined
  EvalExpr <- FirstNumber
SPECIFICATION FairSpec
INVARIANTS WholeLinesKept ExpandsByValue ParamsMatchCount
PROPERTIES Terminates NoUnreadDropped
