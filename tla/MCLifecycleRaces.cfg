SPECIFICATION LifecycleSpec
CONSTANTS
  Trades = {t1}
  EntryQty = 3
  MaxAttempts = 2
  MaxTime = 4
  RetryDelay = 1
  RegularSession <- MCRegularSession
  TradingDay <- MCTradingDay
  EodFlattenAt <- MCEodFlattenAt
  EodCloseAt <- MCEodCloseAt
  MaxDeliveries = 2
  MaxCrashes = 0
  MaxFaults = 0
  FaultySteps <- NoFaultySteps
INVARIANTS
  LifecycleTypeOK
  AtRestOrdersAgree
PROPERTIES
  ExitContract
  LedgerContract
CHECK_DEADLOCK FALSE
