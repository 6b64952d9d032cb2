SPECIFICATION LifecycleSpec
CONSTANTS
  Trades = {t1}
  EntryQty = 2
  MaxAttempts = 2
  MaxTime = 4
  RetryDelay = 1
  RegularSession <- MCRegularSession
  TradingDay <- MCTradingDay
  EodFlattenAt <- MCEodFlattenAt
  EodCloseAt <- MCEodCloseAt
  MaxDeliveries = 1
  MaxCrashes = 1
  MaxFaults = 1
  FaultySteps <- AllButFills
INVARIANTS
  AtRestPositionsAgree
PROPERTIES
  ExitContract
  LedgerContract
CHECK_DEADLOCK FALSE
