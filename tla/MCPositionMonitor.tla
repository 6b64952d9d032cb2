------------------------- MODULE MCPositionMonitor -------------------------
(* One long position with a stop, whose symbol trades at the stop and      *)
(* above it, and a second symbol that competes for the journal.            *)
EXTENDS PositionMonitor

MCSymbolOf == [p \in Positions |-> "AAA"]
MCPricesOf == [s \in Symbols |-> IF s = "AAA" THEN {1, 2} ELSE {1}]
MCCandlesOf == [s \in Symbols |-> IF s = "AAA" THEN {<<1, 2>>} ELSE {}]
MCLagsOf == [s \in Symbols |-> IF s = "AAA" THEN {0, 1} ELSE {0}]
MCLevels == [p \in Positions |-> [side |-> "BUY", stop |-> 1, target |-> 0]]
=============================================================================
