CONSTANTS
  ByteBits = 2
  IntBits = 3
  LongBits = 5
  LLongBits = 6
  Inputs <- MCInputs
  MaxLen = 5
  Alphabet <- MCAlphabet
SPECIFICATION Spec
INVARIANTS TreesAreDerived ReadsGrammar TextShowsTokens ConstantsAreRead
CHECK_DEADLOCK FALSE
