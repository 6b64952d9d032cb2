SPECIFICATION Spec
CONSTANTS
  Positions = {"p1"}
  Symbols = {"AAA", "BBB"}
  SymbolOf <- MCSymbolOf
  Levels <- MCLevels
  PricesOf <- MCPricesOf
  CandlesOf <- MCCandlesOf
  LagsOf <- MCLagsOf
  Restorable = {"p1"}
  MaxTicksPerSymbol = 2
  MaxSymbols = 1
  Retention = 1
  FlattenAt = 1
  CloseAt = 2
  MaxTime = 2
  MaxTicks = 2
  MaxEvents = 3
  MaxOutages = 0
INVARIANTS MarkerMeansUnapplied
CHECK_DEADLOCK FALSE
