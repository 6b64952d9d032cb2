SPECIFICATION MarketSpec
CONSTANTS
  Trades = {t1}
  MaxAttempts = 2
  MaxLots = 2
  Stamps = {1}
  Bridges = {"b1", "b2"}
  NoBridge = "none"
  MaxBridgeTicks = 3
  LastMinute = 2
  CandleMinutes = {3, 4, 5, 14, 15, 61, 400}
  SessionEnd = 390
  Widths = {5, 15, 60}
  MaxCloses = 3
  MaxDbFaults = 1
  WatchedSymbols = {"s", "t"}
  MaxWatched = 1
  MaxRelayTicks = 2
  MaxSwitches = 3
  RelayMinutes = {0, 1}
  LastCandle = 2
  CandlesADay = 2
  MaxLevelCrashes = 1
  MaxLevelFaults = 1
  LastFeatureMinute = 5
  FeatureDay = 4
  PreMinutes = 1
  RegularMinutes = 2
  WideWidth = 2
  WindowCapacity = 3
  MaxWorkerCrashes = 1
  MaxReadFailures = 1
  LastDay = 3
  DailyBars <- MCDailyBars
  LevelLookback = 2
  RvolLookback = 1
  ClusterTolerance = 30
  MatchTolerance = 30
  MinCandles = 2
  MaxRefreshFailures = 1
  MaxDailyRestarts = 1
  Days <- MCDays
  ClockLeads = {1, 15}
  Requests = {"r1", "r2"}
  SweepLength = 2
  MaxProviderCalls = 1
  ReplaySeries <- MCSeries
  LowLevel = 1
  HighLevel = 3
  WindowStart = 2
  WindowEnd = 6
  ChunkLength = 2
  LastReplayed = 3
  MaxWorkerFaults = 1
  LastEvaluation = 4
  EvaluationsADay = 4
  LevelPrices = {1, 2}
  ClosingPrices = {0, 1, 2, 3}
  MaxStaleReads = 1
  CrossTickers = {"SPY", "QQQ"}
  LastComposed = 2
  MaxComposeFaults = 1
  CoverageChannels = {"tick", "candle"}
  TickChannel = "tick"
  Duration = 1
  MaxSamples = 1
  LastSecond = 2
  LastSource = 1
  MaxHappenings = 4
INVARIANTS TypeOK PendingAgrees UpdatesTellTheBook DataTrue
PROPERTIES SettledStays
CHECK_DEADLOCK FALSE
