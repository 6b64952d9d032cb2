-------------------------------- MODULE Signals --------------------------------
(***************************************************************************)
(* From a closed candle to a proposed trade: the throttle of core/         *)
(* debounce_scheduler.py, the worker of market_state_engine/engine.py, the *)
(* evaluations of strategy_engine/scheduler.py and the four strategies     *)
(* that decide from candles: ORB, Gap, Volume Spike and Momentum.          *)
(*                                                                         *)
(* One symbol and one strategy at a time.  A candle is its minute, its     *)
(* open and close (its wicks end there), the side its trend is established *)
(* on, which is "neither" also when too few shares trade, and its volume.  *)
(***************************************************************************)
EXTENDS Integers, Sequences, FiniteSets, FiniteSetsExt, SequencesExt

CONSTANTS
  LastSignalMinute, MinutesADay, \* minutes 0 .. LastSignalMinute; a day's first is before the open
  OrMinutes, MaxGapMinutes, Lookback, Cooldown, \* parameters of the strategies
  SignalBars, SignalVolumes      \* opens and closes, and volumes, that occur

ASSUME SignalsAssumption ==
  /\ LastSignalMinute \in Nat /\ MaxGapMinutes \in Nat
  /\ {MinutesADay, OrMinutes, Lookback, Cooldown} \subseteq Nat \ {0}
  /\ SignalBars \subseteq Nat \X Nat /\ SignalVolumes \subseteq Nat

VARIABLES
  strategy,      \* the one this behaviour is about
  features,      \* _latest_features, of Market State and of the scheduler
  pending,       \* the throttle holds a run back
  recomputes,    \* runs the worker has not looked at
  prevTrend,     \* _prev_trend: the candle and side of the last computation
  marketStates,  \* MarketStateChanged events on their way
  memory,        \* what the strategy remembers of the symbol
  proposals,     \* the opportunities it published
  evaluated, repeated  \* today's evaluated minutes; those evaluated again

signalVars == <<strategy, features, pending, recomputes, prevTrend, marketStates, memory,
                proposals, evaluated, repeated>>

ByCandle == {"ORB", "Gap", "VolumeSpike", "Momentum"}
TrendSides == {"bullish", "bearish", "neither"}
(* Without an established side only Momentum does not just keep silent.   *)
SidesThatMatter == IF strategy = "Momentum" THEN TrendSides ELSE TrendSides \ {"neither"}
Day(ts) == ts \div MinutesADay
MinutesSinceOpen(ts) == (ts % MinutesADay) - 1
Low(c) == Min({c.open, c.close})
High(c) == Max({c.open, c.close})

NoFeatures == [ts |-> -1, regularOpen |-> 0, gap |-> 0]
Blank == [day |-> -1, high |-> 0, low |-> 0, seen |-> 0, formed |-> FALSE,
          fired |-> {}, firedAt |-> -1, recent |-> <<>>]

SignalsInit ==
  /\ strategy \in ByCandle /\ features = NoFeatures /\ pending = FALSE /\ recomputes = 0
  /\ prevTrend = [ts |-> -1, side |-> "neither"] /\ marketStates = <<>> /\ memory = Blank
  /\ proposals = <<>> /\ evaluated = {} /\ repeated = {}

---------------------------------------------------------------------------
(* Market State                                                            *)

(* _run: the symbol is queued.                                             *)
Run == pending' = FALSE /\ recomputes' = recomputes + 1

(* trigger: at once, or a little later if the last run is too close.       *)
Trigger == Run \/ (pending' = TRUE /\ UNCHANGED recomputes)

(* A candle closed, one may have been missed.                              *)
FeaturesArrive ==
  /\ recomputes + Len(marketStates) < 2
  /\ \E ts \in features.ts + 1 .. features.ts + 2, bar \in SignalBars, side \in SidesThatMatter,
        volume \in IF strategy = "VolumeSpike" THEN SignalVolumes ELSE {1},
        gap \in IF strategy = "Gap" THEN {-1, 0, 1} ELSE {0} :
       LET first == MinutesSinceOpen(ts) >= 0 /\ (Day(ts) # Day(features.ts) \/ features.regularOpen = 0)
       IN /\ ts <= LastSignalMinute
          /\ features' = [ts |-> ts, open |-> bar[1], close |-> bar[2], side |-> side, volume |-> volume,
                          regularOpen |-> IF first THEN bar[1]
                                          ELSE IF Day(ts) # Day(features.ts) THEN 0 ELSE features.regularOpen,
                          gap |-> IF first THEN gap
                                  ELSE IF Day(ts) # Day(features.ts) THEN 0 ELSE features.gap]
          /\ evaluated' = IF Day(ts) # Day(features.ts) THEN {} ELSE evaluated
          /\ repeated' = IF Day(ts) # Day(features.ts) THEN {} ELSE repeated
  /\ Trigger
  /\ UNCHANGED <<strategy, prevTrend, marketStates, memory, proposals>>

(* The delayed run, and the one that comes after max_interval whether or   *)
(* not a candle closed.                                                    *)
RunAfterDelay ==
  /\ pending /\ recomputes + Len(marketStates) < 2 /\ Run
  /\ UNCHANGED <<strategy, features, prevTrend, marketStates, memory, proposals, evaluated, repeated>>

RunAtCeiling ==
  /\ features.ts >= 0 /\ recomputes = 0 /\ marketStates = <<>> /\ Run
  /\ UNCHANGED <<strategy, features, prevTrend, marketStates, memory, proposals, evaluated, repeated>>

(* acceleration_score: the change since the candle computed before         *)
Rank(side) == IF side = "bullish" THEN 1 ELSE IF side = "bearish" THEN -1 ELSE 0
Acceleration ==
  IF prevTrend.ts \in {-1, features.ts} THEN "none"
  ELSE CASE Rank(features.side) > Rank(prevTrend.side) -> "up"
         [] Rank(features.side) < Rank(prevTrend.side) -> "down"
         [] OTHER -> "steady"

(* _compute, always from the latest candle                                 *)
Computed == [ts |-> features.ts, side |-> features.side, acceleration |-> Acceleration]

(* One round of the worker, which publishes after the row is written.      *)
ComputeState ==
  /\ recomputes > 0 /\ recomputes' = recomputes - 1
  /\ marketStates' = Append(marketStates, Computed)
  /\ prevTrend' = [ts |-> features.ts, side |-> features.side]
  /\ UNCHANGED <<strategy, features, pending, memory, proposals, evaluated, repeated>>

---------------------------------------------------------------------------
(* The strategies: what each remembers after a candle, and the direction   *)
(* and stop it proposes.                                                   *)

Silent(m) == [memory |-> m, direction |-> "none", stop |-> 0]
Proposes(m, direction, stop) == [memory |-> m, direction |-> direction, stop |-> stop]
Today == IF memory.day = Day(features.ts) THEN memory ELSE [Blank EXCEPT !.day = Day(features.ts)]
SideOf(direction) == IF direction = "BUY" THEN "bullish" ELSE "bearish"
Directions == {"BUY", "SELL"}

(* mutant: any candle of the window makes a range                          *)
RangeSeen_Some(m) == m.seen > 0

RangeSeen(m) == m.seen >= OrMinutes

EvaluateORB(s) ==
  LET c == features
      m == Today
      formed == [m EXCEPT !.formed = TRUE]
      matching == {d \in Directions :
                     /\ IF d = "BUY" THEN c.close > m.high ELSE c.close < m.low
                     /\ s.side = SideOf(d) /\ d \notin m.fired}
  IN IF MinutesSinceOpen(c.ts) < OrMinutes
     THEN Silent([m EXCEPT !.high = IF m.seen = 0 THEN High(c) ELSE Max({@, High(c)}),
                           !.low = IF m.seen = 0 THEN Low(c) ELSE Min({@, Low(c)}),
                           !.seen = Min({@ + 1, OrMinutes})])
     ELSE IF ~m.formed /\ ~RangeSeen(m) THEN Silent(m)
     ELSE IF matching = {} THEN Silent(formed)
     ELSE LET d == CHOOSE d \in matching : TRUE
          IN Proposes([formed EXCEPT !.fired = @ \cup {d}], d, IF d = "BUY" THEN m.low ELSE m.high)

(* Young enough, held against the open, and on the side of the trend.      *)
GapDirection(c, side) ==
  IF MinutesSinceOpen(c.ts) > MaxGapMinutes THEN "none"
  ELSE CASE c.gap > 0 /\ c.close > c.regularOpen /\ side = "bullish" -> "BUY"
         [] c.gap < 0 /\ c.close < c.regularOpen /\ side = "bearish" -> "SELL"
         [] OTHER -> "none"

EvaluateGap(s) ==
  LET c == features
      m == Today
      d == GapDirection(c, s.side)
  IN IF c.regularOpen = 0 THEN Silent(memory)
     ELSE IF m.fired # {} \/ d = "none" THEN Silent(m)
     ELSE Proposes([m EXCEPT !.fired = {d}], d, c.regularOpen)

Remembered(recent, x) ==
  IF Len(recent) < Lookback THEN Append(recent, x) ELSE Append(Tail(recent), x)

(* mutant: the minute of the proposal is forgotten with the next           *)
CoolingDown_Never(m) == FALSE

CoolingDown(m) == m.firedAt >= 0 /\ features.ts < m.firedAt + Cooldown

(* A spike is more than the mean of the candles before.                    *)
EvaluateVolumeSpike(s) ==
  LET c == features
      m == Today
      next == [m EXCEPT !.recent = Remembered(@, c.volume)]
      d == IF c.close > c.open THEN "BUY" ELSE "SELL"
  IN IF \/ Len(m.recent) < Lookback \/ CoolingDown(m)
        \/ c.volume * Lookback <= FoldSeq(LAMBDA v, sum : v + sum, 0, m.recent)
        \/ c.close = c.open \/ s.side # SideOf(d)
     THEN Silent(next)
     ELSE Proposes([next EXCEPT !.firedAt = c.ts], d, IF d = "BUY" THEN Low(c) ELSE High(c))

(* It accelerates the way the trend leans.                                 *)
MomentumDirection(s) ==
  CASE s.acceleration = "up" /\ s.side = "bullish" -> "BUY"
    [] s.acceleration = "down" /\ s.side = "bearish" -> "SELL"
    [] OTHER -> "none"

(* The swing is that of the candles before; it may lie beyond the close.   *)
EvaluateMomentum(s) ==
  LET c == features
      m == Today
      next == [m EXCEPT !.recent = Remembered(@, [low |-> Low(c), high |-> High(c)])]
      d == MomentumDirection(s)
      swing == IF d = "BUY" THEN Min({m.recent[i].low : i \in DOMAIN m.recent})
                            ELSE Max({m.recent[i].high : i \in DOMAIN m.recent})
  IN IF s.acceleration = "none" THEN Silent(memory)
     ELSE IF Len(m.recent) < Lookback \/ CoolingDown(m) \/ d = "none" \/ c.close = swing
     THEN Silent(next)
     ELSE Proposes([next EXCEPT !.firedAt = c.ts], d, swing)

Evaluation(s) ==
  CASE strategy = "ORB" -> EvaluateORB(s)
    [] strategy = "Gap" -> EvaluateGap(s)
    [] strategy = "VolumeSpike" -> EvaluateVolumeSpike(s)
    [] strategy = "Momentum" -> EvaluateMomentum(s)

---------------------------------------------------------------------------
(* The scheduler                                                           *)

(* mutant: the state of one candle is evaluated with the features of the   *)
(* next                                                                    *)
Coherent_Any(s) == features.ts >= 0

Coherent(s) == s.ts = features.ts

Regular(ts) == MinutesSinceOpen(ts) >= 0
Target(direction, close, stop) ==
  IF direction = "BUY" THEN close + 2 * Max({close - stop, stop - close})
                       ELSE close - 2 * Max({close - stop, stop - close})

StateChanges ==
  /\ marketStates # <<>> /\ marketStates' = Tail(marketStates)
  /\ LET s == Head(marketStates)
         e == Evaluation(s)
     IN IF ~Coherent(s) \/ ~Regular(s.ts) THEN UNCHANGED <<memory, proposals, evaluated, repeated>>
        ELSE /\ memory' = e.memory /\ evaluated' = evaluated \cup {features.ts}
             /\ repeated' = IF features.ts \in evaluated THEN repeated \cup {features.ts} ELSE repeated
             /\ proposals' =
                  IF e.direction = "none" THEN proposals
                  ELSE Append(proposals,
                         [ts |-> features.ts, direction |-> e.direction, close |-> features.close, stop |-> e.stop,
                          target |-> Target(e.direction, features.close, e.stop), side |-> features.side])
  /\ UNCHANGED <<strategy, features, pending, recomputes, prevTrend>>

SignalsNext ==
  FeaturesArrive \/ RunAfterDelay \/ RunAtCeiling \/ ComputeState \/ StateChanges

---------------------------------------------------------------------------
SignalsTypeOK ==
  /\ recomputes \in 0 .. 3 /\ evaluated \subseteq 0 .. LastSignalMinute
  /\ memory.day <= Day(LastSignalMinute) /\ Len(memory.recent) <= Lookback

(* A proposal is about one candle: its direction is that of the trend      *)
(* computed from the candle whose close and stop it names; these, but for  *)
(* the swing of Momentum, have the geometry plan_entry demands.            *)
ProposalsSound ==
  \A i \in DOMAIN proposals :
    LET p == proposals[i]
        sign == IF p.direction = "BUY" THEN 1 ELSE -1
    IN /\ p.side = SideOf(p.direction)
       /\ strategy # "Momentum" => sign * (p.close - p.stop) > 0
       /\ sign * (p.target - p.close) > 0

(* However often a candle is evaluated, and whatever is missed, it is      *)
(* proposed once: ORB proposes a direction once a day, Gap once a day, and *)
(* the others not before they have cooled down.                            *)
ProposedOnce ==
  \A i, j \in DOMAIN proposals :
    LET p == proposals[i]
        q == proposals[j]
    IN i < j =>
         /\ p.ts < q.ts
         /\ strategy = "ORB" /\ Day(p.ts) = Day(q.ts) => p.direction # q.direction
         /\ strategy = "Gap" => Day(p.ts) # Day(q.ts)
         /\ strategy \in {"VolumeSpike", "Momentum"} /\ Day(p.ts) = Day(q.ts) => q.ts >= p.ts + Cooldown

(* A formed range is the range of every minute of the window, unless the   *)
(* ceiling of the throttle had one evaluated, and counted, again.          *)
RangeComplete ==
  strategy = "ORB" /\ memory.formed /\ repeated = {} =>
    \A k \in 1 .. OrMinutes : memory.day * MinutesADay + k \in evaluated \/ memory.day # Day(features.ts)

(* The newest candle is evaluated in the end, if the session is regular.   *)
NewestEvaluated ==
  []<>(features.ts >= 0 /\ Regular(features.ts) => features.ts \in evaluated)
=============================================================================
