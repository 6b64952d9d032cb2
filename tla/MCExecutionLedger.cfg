SPECIFICATION Spec
CONSTANTS
  Trades = {t1}
  EntryQty = 2
  MaxAttempts = 2
  MaxTime = 4
  RetryDelay = 1
  RegularSession <- MCRegularSession
  TradingDay <- MCTradingDay
  EodFlattenAt <- MCEodFlattenAt
  EodCloseAt <- MCEodCloseAt
INVARIANTS
  TypeOK
  OneActiveClose
  UnsentCancellationIsProof
  MarkerRecordsDispatch
  ReduceOnly
  AccountingAccepts
  NoUnsafeExit
PROPERTIES
  DispatchOnlyWhenPlaceable
  EvidenceImmutable
  StatusMovesForward
  RetryDelayKept
CHECK_DEADLOCK FALSE
