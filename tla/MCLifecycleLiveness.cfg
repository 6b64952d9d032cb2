SPECIFICATION FairSpec
CONSTANTS
  Trades = {t1}
  EntryQty = 2
  MaxAttempts = 2
  MaxTime = 4
  RetryDelay = 1
  RegularSession <- MCRegularSession
  TradingDay <- MCTradingDay
  EodFlattenAt <- MCEodFlattenAt
  EodCloseAt <- MCEodCloseAt
  MaxDeliveries = 1
  MaxCrashes = 0
  MaxFaults = 0
  FaultySteps <- NoFaultySteps
PROPERTIES
  ExitCompletes
  PositionsFollowVenue
CHECK_DEADLOCK FALSE
