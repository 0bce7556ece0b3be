CONSTANTS
  MaxLen = 5
  Alphabet = {"1", "-", "*", "!", "(", ")", ",", "?", ":"}
  Value <- MCValue
  Expressions <- MCExpressions
SPECIFICATION Spec
INVARIANTS ReadsGrammar ReadsBack
CHECK_DEADLOCK FALSE
