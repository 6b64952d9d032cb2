-------------------------- MODULE MCExecutionLedger --------------------------
(* Small calendars for ExecutionLedger: a day has three instants, regular  *)
(* hours, the EOD window that ends them, and the night.                    *)
EXTENDS ExecutionLedger

DayLength == 3
MCTradingDay == [t \in Times |-> t \div DayLength]
MCRegularSession == {t \in Times : t % DayLength # 2}
MCEodFlattenAt == [t \in Times |-> MCTradingDay[t] * DayLength + 1]
MCEodCloseAt == [t \in Times |-> MCTradingDay[t] * DayLength + 2]

=============================================================================
