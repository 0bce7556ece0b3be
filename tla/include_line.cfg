CONSTANTS
  Depth = 0
  Meaning <- CallMeaning
  MaxLines = 2
  Spellings <- MCSpellings
  Programs <- IncludePrograms
  Headers <- MCHeaders
  Predefined <- MCPredefined
  EvalExpr <- FirstNumber
SPECIFICATION Spec
INVARIANT DirectivesTakeTheirLine
