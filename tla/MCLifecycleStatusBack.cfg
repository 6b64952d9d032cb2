SPECIFICATION LifecycleSpec
CONSTANTS
  Trades = {t1}
  EntryQty = 3
  MaxAttempts = 2
  MaxTime = 4
  RetryDelay = 1
  RegularSession <- MCRegularSession
  TradingDay <- MCTradingDay
  EodFlattenAt <- MCEodFlattenAt
  EodCloseAt <- MCEodCloseAt
  MaxDeliveries = 1
  MaxCrashes = 0
  MaxFaults = 1
  FaultySteps <- OnlyFills
PROPERTIES
  OrderStatusOnlyForward
CHECK_DEADLOCK FALSE
