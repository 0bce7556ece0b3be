CONSTANTS
  MaxAny = 3
  MaxNested = 7
  LineKinds = {"text", "noise", "hash", "if0", "if1", "ifdef", "ifndef", "elif0", "elif1", "else", "endif", "open.h", "else.h", "close.h"}
  Spellings <- MCSpellings
  Programs <- MCPrograms
  Headers <- MCHeaders
  Predefined <- MCPredefined
  EvalExpr <- FirstNumber
SPECIFICATION Spec
INVARIANTS TypeOK SelectsGroups
