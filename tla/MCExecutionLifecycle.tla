------------------------- MODULE MCExecutionLifecycle -------------------------
(* The small calendar of MCExecutionLedger: a day has three instants,      *)
(* regular hours, the EOD window that ends them, and the night.            *)
EXTENDS ExecutionLifecycle

DayLength == 3
MCTradingDay == [t \in 0..MaxTime |-> t \div DayLength]
MCRegularSession == {t \in 0..MaxTime : t % DayLength # 2}
MCEodFlattenAt == [t \in 0..MaxTime |-> MCTradingDay[t] * DayLength + 1]
MCEodCloseAt == [t \in 0..MaxTime |-> MCTradingDay[t] * DayLength + 2]

NoFaultySteps == {}
AllButFills == DbSteps \ {"record_fill"}
OnlyFills == {"record_fill"}

=============================================================================
