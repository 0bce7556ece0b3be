CONSTANTS
  Names = {"a", "b", "c", "d"}
  Hash <- MCHash
  Size = 2
  MaxDefs = 2
  Predefined <- MCPredefined
  Definitions <- MCDefinitions
SPECIFICATION Spec
INVARIANTS TypeOK OneRecordPerHash FindsDefinition
PROPERTIES ImplementsMap
