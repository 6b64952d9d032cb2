SPECIFICATION Spec
CONSTANTS
  FeedSymbols = {"s"}
  MaxSockets = 2
  MaxRequests = 1
  MaxFaults = 1
  MaxNews = 1
  Handlers = {"h1", "h2"}
  MaxPublished = 2
  MaxStops = 1
  RecordedTrades = {"t", "u"}
  EntryLots <- MCEntryLots
  BatchSize = 1
  MaxRecorderFaults = 1
  ScanInterval = 2
  LastScanTick = 5
  MaxScanStarts = 2
  Listable = {"a", "b"}
  Adders = {"r", "q"}
  MaxContextStarts = 2
  MaxLoopCrashes = 1
  MaxRemovals = 1
  FeedTickers = {"a", "b"}
  MaxProviders = 2
  MaxLifespans = 2
  Tickers = {"s", "t"}
  Period = 2
  MaxCallsInPeriod = 1
  LastMoment = 3
  LastBar = 2
  MaxFeedChanges = 4
  RouteCalls = {1, 2}
  MaxAdapters = 4
  MaxRouteCalls = 4
  MaxRouteFaults = 1
  Earnings <- MCEarnings
  FirstReports = {1, 2}
  Metrics = {"revenue", "income"}
  SimpleJobs = {"cap"}
  MaxUntagged = 1
  MaxJobFaults = 1
  IBCallers = {1, 2}
  IBSymbols = {"s", "x"}
  UnknownSymbols = {"x"}
  MaxIBCalls = 5
INVARIANTS TypeOK DeliveryKept
PROPERTIES NothingUndone ServicesDeliver
CHECK_DEADLOCK FALSE
