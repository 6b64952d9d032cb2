SPECIFICATION Decisions
CONSTANTS
  Entries = {"a", "b"}
  SymbolOf <- OwnSymbol
  MaxDisturbances = 1
  MaxOpen = 1
  Strategies = {"orb", "gap"}
  Timeframes = {"1m", "5m"}
  Opportunities = {"long"}
  MaxNow = 2
  MaxAge = 1
  SessionOf <- MCSessionOf
  NoSession <- MCNoSession
  Candidates = {"a", "b"}
  SymbolFor <- MCSymbolFor
  Selections = {"s1"}
  AcceptedTrades = {"t1", "t2"}
  RuleSymbols = {"s", "t"}
  RulePrices = {2, 3, 4, 5}
  Notional = 4
  LossCap = 2
  RuleSlots = 2
  MaxApproved = 2
  LastSignalMinute = 5
  MinutesADay = 4
  OrMinutes = 2
  MaxGapMinutes = 1
  Lookback = 2
  Cooldown = 2
  SignalBars <- MCSignalBars
  SignalVolumes = {1, 3}
INVARIANTS TypesOK SnapshotSound RiskBounded ChoiceSound
PROPERTIES RecordsStand Settles
CHECK_DEADLOCK FALSE
