------------------------------- MODULE ReplayRun -------------------------------
(***************************************************************************)
(* backtest_runner/runner.py and fill_simulator.py: one run over a series  *)
(* of candles.  A trade is worked out from the whole series when its       *)
(* signal is accepted, and recorded when the replay gets there.            *)
(*                                                                         *)
(* The signals and whether a snapshot can be taken are anything.           *)
(***************************************************************************)
EXTENDS Integers, Sequences, FiniteSets, FiniteSetsExt

CONSTANTS
  ReplaySeries,         \* sequences of candles: day, late, open, low, high, close
  LowLevel, HighLevel   \* the prices between which a trade is made

ReplayedCandle == [day : Int, late : BOOLEAN, open : Int, low : Int, high : Int, close : Int]

ASSUME SeriesAssumption == ReplaySeries \subseteq Seq(ReplayedCandle) /\ LowLevel \in Int /\ HighLevel \in Int

VARIABLES
  series,
  replayed,     \* how many candles were replayed
  pending,      \* _PendingTrade, or NoTrade
  outcomes,     \* recorded, in order
  discarded,    \* accepted signals that did not become a trade
  actedOn,      \* history: the candles of accepted signals
  runState      \* "asked", "running", "done" or "raised"

runVars == <<series, replayed, pending, outcomes, discarded, actedOn, runState>>

NoTrade == [signal |-> 0]

RunInit ==
  /\ series = <<>> /\ replayed = 0 /\ pending = NoTrade
  /\ outcomes = <<>> /\ discarded = {} /\ actedOn = {} /\ runState = "asked"

---------------------------------------------------------------------------
(* fill_simulator                                                          *)

Stop(direction) == IF direction = "BUY" THEN LowLevel ELSE HighLevel
TargetOf(direction) == IF direction = "BUY" THEN HighLevel ELSE LowLevel

StopTouched(direction, c) == IF direction = "BUY" THEN c.low <= LowLevel ELSE c.high >= HighLevel
TargetTouched(direction, c) == IF direction = "BUY" THEN c.high >= HighLevel ELSE c.low <= LowLevel

(* The candles a trade entered at candle e can be left at                  *)
SameDayAfter(e) ==
  {i \in e + 1 .. Len(series) : \A k \in e + 1 .. i : series[k].day = series[e].day}

(* mutant: the target is looked at first                                   *)
ReasonAt_TargetFirst(direction, c) ==
  IF TargetTouched(direction, c) THEN "target"
  ELSE IF StopTouched(direction, c) THEN "stop"
  ELSE IF c.late THEN "eod_flatten" ELSE "none"

ReasonAt(direction, c) ==
  IF StopTouched(direction, c) THEN "stop"
  ELSE IF TargetTouched(direction, c) THEN "target"
  ELSE IF c.late THEN "eod_flatten" ELSE "none"

PriceAt(direction, c) ==
  CASE ReasonAt(direction, c) = "stop" -> Stop(direction)
    [] ReasonAt(direction, c) = "target" -> TargetOf(direction)
    [] OTHER -> c.close

(* simulate_exit; {} if the series does not say how the trade ends         *)
SimulatedExit(direction, e) ==
  LET leaves == {i \in SameDayAfter(e) : ReasonAt(direction, series[i]) # "none"}
  IN IF leaves = {} THEN {}
     ELSE LET x == Min(leaves)
          IN {[at |-> x, price |-> PriceAt(direction, series[x]),
               reason |-> ReasonAt(direction, series[x])]}

---------------------------------------------------------------------------
(* One candle of run's loop: the entry of the pending trade, its exit, and *)
(* the signal of the strategy.                                             *)

(* get_historical; an empty series raises.                                 *)
BeginRun ==
  /\ runState = "asked" /\ series' \in ReplaySeries
  /\ runState' = IF series' = <<>> THEN "raised" ELSE "running"
  /\ UNCHANGED <<replayed, pending, outcomes, discarded, actedOn>>

(* What is left of the trade after its entry candle                        *)
AtEntry(i, captured) ==
  IF pending # NoTrade /\ i = pending.entry /\ ~captured THEN NoTrade ELSE pending

Profit(t) == IF t.direction = "BUY" THEN t.exit.price - t.price ELSE t.price - t.exit.price
Risk(t) == LET d == t.price - Stop(t.direction) IN IF d < 0 THEN -d ELSE d

(* mutant: a signal is accepted while a trade is open                      *)
MayAccept_Always(trade) == TRUE

MayAccept(trade) == trade = NoTrade

(* simulate_entry: filled at the open of the next candle, if there is one. *)
TradeOf(i, direction) ==
  IF i = Len(series) \/ SimulatedExit(direction, i + 1) = {} THEN NoTrade
  ELSE LET x == CHOOSE x \in SimulatedExit(direction, i + 1) : TRUE
       IN [signal |-> i, direction |-> direction, entry |-> i + 1, price |-> series[i + 1].open, exit |-> x]

(* What a signal of candle i leads to                                      *)
Accepted(i, trade, direction) ==
  IF direction = "none" \/ ~MayAccept(trade) THEN pending' = trade /\ UNCHANGED actedOn
  ELSE actedOn' = actedOn \cup {i} /\ pending' = TradeOf(i, direction)

Unfilled(i) == IF i \in actedOn' /\ pending'.signal # i THEN {i} ELSE {}

ReplayCandle ==
  /\ runState = "running" /\ replayed < Len(series)
  /\ LET i == replayed + 1
     IN \E captured \in BOOLEAN, direction \in {"none", "BUY", "SELL"} :
          LET trade == AtEntry(i, captured)
              leaving == trade # NoTrade /\ i = trade.exit.at
              voided == IF pending # NoTrade /\ (trade = NoTrade \/ (leaving /\ ~captured))
                        THEN {pending.signal} ELSE {}
          IN /\ leaving /\ captured => Risk(trade) # 0
             /\ replayed' = i
             /\ outcomes' = IF leaving /\ captured THEN Append(outcomes, trade) ELSE outcomes
             /\ Accepted(i, IF leaving THEN NoTrade ELSE trade, direction)
             /\ discarded' = discarded \cup voided \cup Unfilled(i)
             /\ UNCHANGED <<series, runState>>

(* An engine, the store of outcomes, or a trade entered at its stop        *)
RunRaises ==
  /\ runState = "running" /\ replayed < Len(series) /\ runState' = "raised"
  /\ UNCHANGED <<series, replayed, pending, outcomes, discarded, actedOn>>

(* The check at the end is for a bug.                                      *)
EndRun ==
  /\ runState = "running" /\ replayed = Len(series)
  /\ runState' = IF pending = NoTrade THEN "done" ELSE "raised"
  /\ UNCHANGED <<series, replayed, pending, outcomes, discarded, actedOn>>

RunNext == BeginRun \/ ReplayCandle \/ RunRaises \/ EndRun

---------------------------------------------------------------------------
RunTypeOK ==
  /\ replayed \in 0 .. Len(series) /\ runState \in {"asked", "running", "done", "raised"}
  /\ actedOn \subseteq 1 .. replayed /\ discarded \subseteq actedOn

(* Every signal acted upon becomes one outcome or is discarded, or its     *)
(* trade is still open; no trade is open when the series ends.             *)
SignalsSettled ==
  LET recorded == {outcomes[k].signal : k \in DOMAIN outcomes}
  IN /\ Cardinality(recorded) = Len(outcomes) /\ recorded \cap discarded = {}
     /\ recorded \cup discarded \cup ({pending.signal} \ {0}) = actedOn
     /\ replayed = Len(series) => pending = NoTrade

(* Trades do not overlap: a signal is older than its entry, the entry than *)
(* the exit, on one day, and no signal is acted upon before the trade of   *)
(* the one before it is left.                                              *)
TradesFollow ==
  /\ \A k \in DOMAIN outcomes :
       LET t == outcomes[k]
       IN /\ t.signal < t.entry /\ t.entry < t.exit.at /\ t.exit.at <= replayed
          /\ series[t.entry].day = series[t.exit.at].day
  /\ \A k \in 1 .. Len(outcomes) - 1 : outcomes[k].exit.at <= outcomes[k + 1].signal

(* A trade ends where a cautious reader of the candles would end it: never *)
(* later than its stop, at the target only if the stop was not touched     *)
(* before or with it, and flat when the session is over.  A stop loses and *)
(* a target wins, unless the entry was beyond it already.                  *)
ExitsCautious ==
  \A k \in DOMAIN outcomes :
    LET t == outcomes[k]
        held == t.entry + 1 .. t.exit.at
        between == t.price > LowLevel /\ t.price < HighLevel
    IN /\ \A i \in held :
            StopTouched(t.direction, series[i]) => i = t.exit.at /\ t.exit.reason = "stop"
       /\ \A i \in held :
            TargetTouched(t.direction, series[i]) => i = t.exit.at /\ t.exit.reason # "eod_flatten"
       /\ \A i \in held : series[i].late => i = t.exit.at
       /\ t.exit.reason = "stop" /\ between => Profit(t) < 0
       /\ t.exit.reason = "target" /\ between => Profit(t) > 0
       /\ Risk(t) # 0
=============================================================================
