SPECIFICATION Spec
CONSTANTS
  Entries = {"a", "b"}
  SymbolOf <- OwnSymbol
  MaxDisturbances = 1
  MaxOpen = 1
CHECK_DEADLOCK FALSE
INVARIANTS EntryLimit
