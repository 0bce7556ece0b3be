CONSTANTS
  MaxRaw = 5
  MaxWords = 3
  Texts <- MCTexts
  Letters = {"a", "u", "U", "L"}
  Digits = {"8"}
  Puncts <- MCPuncts
  Unread = {"0x80"}
SPECIFICATION Spec
INVARIANTS InPlace KeepsText KeepsLines TokensAreTheCode LineStarts TokensOnTheirLine
CHECK_DEADLOCK FALSE
