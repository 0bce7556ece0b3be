CONSTANTS
  MaxLen = 0
  Alphabet = {}
  Value <- MCValue
  Expressions <- Sums
SPECIFICATION Spec
INVARIANTS EvaluatesOperators
CHECK_DEADLOCK FALSE
