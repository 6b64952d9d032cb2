--------------------------- MODULE LevelInteraction ---------------------------
(***************************************************************************)
(* trading_intelligence/level_interaction_engine.py: how price meets one   *)
(* level, kept in memory and in the database by a worker thread, and read  *)
(* meanwhile by strategies through strategy_engine/level_touch_tracking.py *)
(*                                                                         *)
(* A candle is its time and the zone of its close; the value of the level  *)
(* moves, so that any zone may follow any other.                           *)
(***************************************************************************)
EXTENDS Integers, Sequences, FiniteSets, SequencesExt

CONSTANTS
  LastCandle, CandlesADay,      \* candles 0 .. LastCandle
  MaxLevelCrashes, MaxLevelFaults  \* bounds: crashes, failed transactions

VARIABLES
  features,     \* events waiting for the worker
  zones,       \* the candles so far: the zone of each
  level,        \* _state of the level, or Untracked
  stamp,        \* _last_applied_ts
  storedLevel, storedEvents,       \* the tables
  processing,   \* the candle in the worker's hands, the step and its result
  told,         \* told[ts]: the status published for a candle
  tracker,      \* LevelTouchState of a strategy, the last candle it evaluated
  concluded,    \* concluded[ts]: what the strategy concluded, if it was fresh
  processed, levelCrashes, levelFaults

levelVars == <<features, zones, level, stamp, storedLevel, storedEvents, processing,
               told, tracker, concluded, processed, levelCrashes, levelFaults>>

Sides == {"above", "below"}
Zones == Sides \cup {"inside"}
NoSide == "unknown"
CandleTimes == 0 .. LastCandle
TradingDay(ts) == ts \div CandlesADay

Untracked == [zone |-> "none", day |-> -1, touches |-> 0, from |-> NoSide]
IdleWorker == [step |-> "idle"]
StopSentinel == [ts |-> -1, zone |-> "none"]
NewTracker == [day |-> -1, zone |-> "none", from |-> NoSide, at |-> -1, exact |-> TRUE]

LevelInit ==
  /\ features = <<>> /\ zones = <<>> /\ level = Untracked /\ stamp = -1
  /\ storedLevel = Untracked /\ storedEvents = <<>> /\ processing = IdleWorker
  /\ told = [t \in CandleTimes |-> "none"] /\ tracker = NewTracker
  /\ concluded = [t \in CandleTimes |-> "none"]
  /\ processed = <<>> /\ levelCrashes = 0 /\ levelFaults = 0

LevelFault == levelFaults < MaxLevelFaults /\ levelFaults' = levelFaults + 1

(* An event of a new candle, or of the last one of this process again.     *)
FeaturesUpdated ==
  /\ features = <<>>
  /\ \/ /\ Len(zones) <= LastCandle /\ \E z \in Zones : zones' = Append(zones, z)
     \/ stamp >= 0 /\ stamp = Len(zones) - 1 /\ UNCHANGED zones
  /\ features' = Append(features, [ts |-> Len(zones') - 1, zone |-> Last(zones')])
  /\ UNCHANGED <<level, stamp, storedLevel, storedEvents, processing, told, tracker,
                 concluded, processed, levelCrashes, levelFaults>>

(* stop(): the bus delivers no more, the worker gets its poison pill after *)
(* all that waits.                                                         *)
StopEngine ==
  /\ \A i \in DOMAIN features : features[i] # StopSentinel
  /\ features' = Append(features, StopSentinel)
  /\ UNCHANGED <<zones, level, stamp, storedLevel, storedEvents, processing, told, tracker,
                 concluded, processed, levelCrashes, levelFaults>>

(* The worker takes it: the process ends and is started again.             *)
EngineStopped ==
  /\ processing.step = "idle" /\ features # <<>> /\ Head(features) = StopSentinel
  /\ features' = <<>> /\ level' = Untracked /\ stamp' = -1
  /\ tracker' = [NewTracker EXCEPT !.at = tracker.at]
  /\ UNCHANGED <<zones, storedLevel, storedEvents, processing, told, concluded, processed,
                 levelCrashes, levelFaults>>

(* The candle is stamped before its levels are looked at.                  *)
TakeFeatures ==
  /\ processing.step = "idle" /\ features # <<>> /\ Head(features) # StopSentinel
  /\ features' = Tail(features)
  /\ LET c == Head(features)
     IN IF c.ts <= stamp THEN UNCHANGED <<stamp, processing>>
        ELSE stamp' = c.ts /\ processing' = [step |-> "level", candle |-> c]
  /\ UNCHANGED <<zones, level, storedLevel, storedEvents, told, tracker, concluded,
                 processed, levelCrashes, levelFaults>>

---------------------------------------------------------------------------
(* _process_level                                                          *)

FirstSeen(c) ==
  [zone |-> c.zone, day |-> TradingDay(c.ts), touches |-> IF c.zone = "inside" THEN 1 ELSE 0,
   from |-> NoSide]

(* mutant: the count is not started again with the day *)
RolledOver_Never(s, c) == [s EXCEPT !.day = TradingDay(c.ts)]

RolledOver(s, c) ==
  IF s.day = TradingDay(c.ts) THEN s ELSE [s EXCEPT !.day = TradingDay(c.ts), !.touches = 0]

(* An approach and a gap are touches, the end of a touch is not.           *)
Moved(s, c) ==
  [s EXCEPT !.zone = c.zone,
            !.touches = IF s.zone = "inside" THEN @ ELSE @ + 1,
            !.from = IF c.zone = "inside" THEN s.zone ELSE NoSide]

(* mutant: a gap over the zone has no origin *)
Origin_TouchOnly(s) == s.from

Origin(s) == IF s.zone = "inside" THEN s.from ELSE s.zone

Status(s, c) ==
  CASE c.zone = "inside" -> "holding"
    [] c.zone # "inside" /\ Origin(s) = NoSide -> "unclassified"
    [] c.zone # "inside" /\ Origin(s) = c.zone -> "rejected"
    [] OTHER -> "conquered"

Resolved(status) == status \notin {"none", "holding"}

(* The row is read when the level is not in memory.  A steady candle       *)
(* writes nothing, not even a new day.                                     *)
ProcessLevel ==
  /\ processing.step = "level"
  /\ \E old \in IF level = Untracked THEN {storedLevel, Untracked} ELSE {level} :
       LET c == processing.candle
           today == RolledOver(old, c)
           new == IF old = Untracked THEN FirstSeen(c) ELSE IF today.zone = c.zone THEN today ELSE Moved(today, c)
           status == IF old = Untracked \/ today.zone = c.zone THEN "none" ELSE Status(today, c)
       IN /\ IF old = Untracked /\ storedLevel # Untracked /\ level = Untracked
             THEN LevelFault ELSE UNCHANGED levelFaults
          /\ level' = new
          /\ IF old # Untracked /\ today.zone = c.zone
             THEN processing' = IdleWorker /\ processed' = Append(processed, c)
             ELSE /\ processing' = [step |-> "state", candle |-> c, status |-> status, from |-> Origin(today)]
                  /\ UNCHANGED processed
  /\ UNCHANGED <<features, zones, stamp, storedLevel, storedEvents, told, tracker,
                 concluded, levelCrashes>>

PersistState ==
  /\ processing.step = "state"
  /\ \/ storedLevel' = level /\ UNCHANGED levelFaults
     \/ LevelFault /\ UNCHANGED storedLevel
  /\ processing' = [processing EXCEPT !.step = IF Resolved(processing.status) THEN "event" ELSE "publish"]
  /\ processed' = Append(processed, processing.candle)
  /\ UNCHANGED <<features, zones, level, stamp, storedEvents, told, tracker, concluded, levelCrashes>>

PersistEvent ==
  /\ processing.step = "event"
  /\ \/ /\ storedEvents' = Append(storedEvents, [from |-> processing.from, to |-> processing.candle.zone])
        /\ UNCHANGED levelFaults
     \/ LevelFault /\ UNCHANGED storedEvents
  /\ processing' = [processing EXCEPT !.step = "publish"]
  /\ UNCHANGED <<features, zones, level, stamp, storedLevel, told, tracker, concluded,
                 processed, levelCrashes>>

(* LevelInteractionChanged, on the event loop again                        *)
PublishStatus ==
  /\ processing.step = "publish" /\ processing' = IdleWorker
  /\ told' = [told EXCEPT ![processing.candle.ts] = processing.status]
  /\ UNCHANGED <<features, zones, level, stamp, storedLevel, storedEvents, tracker,
                 concluded, processed, levelCrashes, levelFaults>>

CrashEngine ==
  /\ levelCrashes < MaxLevelCrashes /\ levelCrashes' = levelCrashes + 1
  /\ features' = <<>> /\ level' = Untracked /\ stamp' = -1 /\ processing' = IdleWorker
  /\ tracker' = [NewTracker EXCEPT !.at = tracker.at]
  /\ UNCHANGED <<zones, storedLevel, storedEvents, told, concluded, processed, levelFaults>>

---------------------------------------------------------------------------
(* The strategy                                                            *)

Forgotten(r) == IF r.day = level.day THEN r ELSE [r EXCEPT !.day = level.day, !.zone = "none", !.from = NoSide]

(* observe_resolution: the tracker and what it concludes.                  *)
Observed(r) ==
  LET old == Forgotten(r)
      now == level.zone
  IN [tracker |-> [old EXCEPT !.zone = now,
                              !.from = IF old.zone = now THEN @ ELSE IF now = "inside" THEN level.from ELSE NoSide],
      concludes |->
        CASE old.zone \in {"none", now} \/ now = "inside" -> "none"
          [] old.zone = "inside" /\ now \in Sides ->
               IF old.from = NoSide THEN "none" ELSE IF now = old.from THEN "rejected" ELSE "conquered"
          [] old.zone \in Sides \ {now} /\ now \in Sides -> "conquered"]

(* The level says of a candle what it is after exactly that candle.        *)
Exact(t) == stamp = t /\ processing.step # "level"

(* One evaluation of every candle.  A level that is not stamped with it is *)
(* not looked at.                                                          *)
Evaluate ==
  /\ tracker.at + 1 < Len(zones)
  /\ LET t == tracker.at + 1
         o == Observed(tracker)
     IN IF stamp < t \/ level = Untracked
        THEN tracker' = [tracker EXCEPT !.at = t, !.exact = FALSE] /\ UNCHANGED concluded
        ELSE /\ tracker' = [o.tracker EXCEPT !.at = t, !.exact = tracker.exact /\ Exact(t)]
             /\ concluded' = IF tracker.exact /\ Exact(t) THEN [concluded EXCEPT ![t] = o.concludes] ELSE concluded
  /\ UNCHANGED <<features, zones, level, stamp, storedLevel, storedEvents, processing,
                 told, processed, levelCrashes, levelFaults>>

LevelNext ==
  \/ FeaturesUpdated \/ TakeFeatures \/ ProcessLevel \/ PersistState \/ PersistEvent
  \/ PublishStatus \/ StopEngine \/ EngineStopped \/ CrashEngine \/ Evaluate

---------------------------------------------------------------------------
LevelTypeOK ==
  /\ level.zone \in Zones \cup {"none"} /\ stamp \in -1 .. LastCandle
  /\ processing.step \in {"idle", "level", "state", "event", "publish"}
  /\ level.from # NoSide => level.zone = "inside" /\ level.touches >= 0

(* Touches of the day of the last candle, counted afresh over the candles  *)
(* that were processed.                                                    *)
TouchesIn(cs) ==
  Cardinality({i \in DOMAIN cs :
    /\ TradingDay(cs[i].ts) = TradingDay(Last(cs).ts)
    /\ IF i = 1 THEN cs[i].zone = "inside" ELSE cs[i - 1].zone # cs[i].zone /\ cs[i - 1].zone # "inside"})

(* The count of the day survives restarts, the change of day and holdings  *)
(* carried over it, as long as no transaction failed.                      *)
TouchesCounted ==
  levelFaults = 0 /\ processing.step = "idle" /\ level # Untracked =>
    level.touches = TouchesIn(processed)

(* Recorded resolutions follow from each other, over stops and starts; a   *)
(* crash or a failure breaks the chain once.                               *)
ResolutionsChain ==
  Cardinality({i \in 2 .. Len(storedEvents) : storedEvents[i].from # storedEvents[i - 1].to})
    <= levelCrashes + levelFaults

(* A strategy that read the level after every candle concludes what the    *)
(* engine published of that candle.                                        *)
ConclusionsAgree ==
  \A t \in CandleTimes : concluded[t] # "none" /\ told[t] # "none" => concluded[t] = told[t]

---------------------------------------------------------------------------
(* What the three strategies of levels propose: First Pullback, Reversal   *)
(* and VWAP, each with a tracker of its own (level_touch_tracking.py) and  *)
(* its memory of the day.  The level, its zone, the touch in progress and  *)
(* the touches of the day are those of the engine; a read may be stale, as *)
(* shown above, and is then skipped.  A close is inside the level's aura   *)
(* when it is at the level.                                                *)
CONSTANTS
  LastEvaluation, EvaluationsADay,  \* candles 0 .. LastEvaluation
  LevelPrices, ClosingPrices,
  MaxStaleReads                     \* bound

ASSUME LevelSignalsAssumption ==
  /\ LastEvaluation \in Nat /\ EvaluationsADay \in Nat \ {0} /\ MaxStaleReads \in Nat
  /\ LevelPrices \subseteq Nat /\ ClosingPrices \subseteq Nat

OfLevels == {"FirstPullback", "Reversal", "VWAP"}
NoPrice == -1

VARIABLES
  evaluation,   \* the candle evaluated last
  entry,        \* the engine's: [zone, level, from, anchor, touches]
  watch,        \* the LevelTouchState of each strategy
  silenced,     \* since when today: fired, or last_fired_zone
  proposed,     \* the opportunities of the day, in order
  staleReads

levelSignalVars == <<evaluation, entry, watch, silenced, proposed, staleReads>>

EvaluationDay(t) == t \div EvaluationsADay
NewWatch == [day |-> -1, zone |-> "none", from |-> "unknown", anchor |-> NoPrice]
NotSilenced == [day |-> -1, fired |-> FALSE, zone |-> "none"]

LevelSignalsInit ==
  /\ evaluation = -1
  /\ entry = [zone |-> "none", level |-> NoPrice, from |-> "unknown", anchor |-> NoPrice, touches |-> 0]
  /\ watch = [s \in OfLevels |-> NewWatch] /\ silenced = [s \in OfLevels |-> NotSilenced]
  /\ proposed = <<>> /\ staleReads = 0

ZoneOf(close, price) == IF close > price THEN "above" ELSE IF close < price THEN "below" ELSE "inside"

(* The engine after a candle: a touch begins, goes on or is over.          *)
EntryAfter(t, close, price) ==
  LET zone == ZoneOf(close, price)
      newDay == t % EvaluationsADay = 0
      before == IF newDay THEN 0 ELSE entry.touches
      begins == zone = "inside" /\ entry.zone # "inside"
      through == {zone, entry.zone} = {"above", "below"}
  IN [zone |-> zone, level |-> price,
      from |-> IF begins THEN (IF entry.zone = "none" THEN "unknown" ELSE entry.zone)
               ELSE IF zone = "inside" THEN entry.from ELSE "unknown",
      anchor |-> IF begins THEN price ELSE IF zone = "inside" THEN entry.anchor ELSE NoPrice,
      touches |-> IF begins \/ through THEN before + 1 ELSE before]

(* observe_resolution, for the entry e.                                    *)
WatchAfter(w, day, e) ==
  LET old == IF w.day = day THEN w ELSE [NewWatch EXCEPT !.day = day]
  IN IF old.zone = e.zone THEN old
     ELSE [old EXCEPT !.zone = e.zone,
                      !.from = IF e.zone = "inside" THEN e.from ELSE "unknown",
                      !.anchor = IF e.zone = "inside" THEN e.anchor ELSE NoPrice]

Resolution(w, day, e) ==
  LET Is(how, anchor) == [how |-> how, anchor |-> anchor]
  IN IF w.day # day \/ w.zone \in {"none", e.zone} \/ e.zone = "inside" THEN Is("none", NoPrice)
     ELSE IF w.zone # "inside" THEN Is("conquered", NoPrice)
     ELSE IF w.from = "unknown" THEN Is("none", NoPrice)
     ELSE IF w.from = e.zone THEN Is("rejected", w.anchor) ELSE Is("conquered", w.anchor)

(***************************************************************************)
(* The strategies.  match_direction of each: the zone now and the side on  *)
(* which a trend is established.                                           *)
(***************************************************************************)
PullbackDirection(zone, trend) ==
  IF zone = "above" /\ trend = "bullish" THEN "BUY"
  ELSE IF zone = "below" /\ trend = "bearish" THEN "SELL" ELSE "none"

(* Against the trend, whichever way the level was conquered.               *)
ReversalDirection(trend) ==
  IF trend = "bullish" THEN "SELL" ELSE IF trend = "bearish" THEN "BUY" ELSE "none"

(* mutant: an established trend does not silence it *)
VWAPDirection_AnyTrend(zone, trend) == IF zone = "above" THEN "BUY" ELSE "SELL"

VWAPDirection(zone, trend) ==
  IF trend # "neither" THEN "none" ELSE IF zone = "above" THEN "BUY" ELSE "SELL"

(* mutant: without an anchor the close itself is the stop *)
StopPrice_Close(anchor, e, close) == IF anchor # NoPrice THEN anchor ELSE close

(* The level when the touch began, else as it is now.                      *)
StopPrice(anchor, e, close) == IF anchor # NoPrice THEN anchor ELSE e.level

StopDistance(a, b) == IF a > b THEN a - b ELSE b - a

Opportunity(s, direction, stop, close, how) ==
  [strategy |-> s, at |-> evaluation + 1, direction |-> direction, stop |-> stop, close |-> close,
   target |-> IF direction = "BUY" THEN close + 2 * StopDistance(close, stop)
              ELSE close - 2 * StopDistance(close, stop),
   through |-> how.anchor = NoPrice]

SilencedToday(s, day) == IF silenced[s].day = day THEN silenced[s] ELSE [NotSilenced EXCEPT !.day = day]

EvaluatePullback(e, how, quiet, trend, close) ==
  LET direction == PullbackDirection(e.zone, trend)
  IN IF /\ how.how = "rejected" /\ e.touches = 1 /\ ~quiet.fired
        /\ how.anchor # NoPrice /\ direction # "none"
     THEN {Opportunity("FirstPullback", direction, how.anchor, close, how)} ELSE {}

EvaluateReversal(e, how, quiet, trend, close) ==
  LET direction == ReversalDirection(trend)
  IN IF how.how = "conquered" /\ ~quiet.fired /\ direction # "none"
     THEN {Opportunity("Reversal", direction, StopPrice(how.anchor, e, close), close, how)} ELSE {}

(* mutant: a side it has proposed may be proposed again *)
NewSide_Any(e, quiet) == TRUE

NewSide(e, quiet) == e.zone # quiet.zone

EvaluateVWAP(e, how, quiet, trend, close) ==
  LET direction == VWAPDirection(e.zone, trend)
      stop == StopPrice(how.anchor, e, close)
  IN IF how.how = "conquered" /\ NewSide(e, quiet) /\ direction # "none" /\ stop # close
     THEN {Opportunity("VWAP", direction, stop, close, how)} ELSE {}

Evaluated(s, e, how, quiet, trend, close) ==
  CASE s = "FirstPullback" -> EvaluatePullback(e, how, quiet, trend, close)
    [] s = "Reversal" -> EvaluateReversal(e, how, quiet, trend, close)
    [] s = "VWAP" -> EvaluateVWAP(e, how, quiet, trend, close)

(* A candle; every strategy that reads a fresh entry evaluates it.  What   *)
(* has been proposed silences First Pullback and Reversal for the day and  *)
(* VWAP for this side.                                                     *)
EvaluateLevels ==
  /\ evaluation < LastEvaluation /\ evaluation' = evaluation + 1
  /\ \E close \in ClosingPrices, price \in LevelPrices, trend \in {"bullish", "bearish", "neither"},
        stale \in {x \in SUBSET OfLevels : Cardinality(x) + staleReads <= MaxStaleReads} :
       LET day == EvaluationDay(evaluation + 1)
           e == EntryAfter(evaluation + 1, close, price)
           how(s) == Resolution(watch[s], day, e)
           Of(s) == IF s \in stale THEN {}
                    ELSE Evaluated(s, e, how(s), SilencedToday(s, day), trend, close)
       IN /\ entry' = e
          /\ staleReads' = staleReads + Cardinality(stale)
          /\ watch' = [s \in OfLevels |-> IF s \in stale THEN watch[s] ELSE WatchAfter(watch[s], day, e)]
          /\ silenced' = [s \in OfLevels |->
               IF s \in stale THEN silenced[s]
               ELSE IF Of(s) = {} THEN SilencedToday(s, day)
               ELSE [day |-> day, fired |-> TRUE, zone |-> e.zone]]
          /\ proposed' = (IF evaluation >= 0 /\ EvaluationDay(evaluation) = day THEN proposed ELSE <<>>)
                           \o SetToSeq(UNION {Of(s) : s \in OfLevels})

LevelSignalsNext == EvaluateLevels

LevelSignalsTypeOK ==
  /\ evaluation \in -1 .. LastEvaluation
  /\ entry.zone \in {"none", "above", "below", "inside"} /\ entry.touches \in Nat
  /\ \A s \in OfLevels : watch[s].zone \in {"none", "above", "below", "inside"}

(* Reversal and VWAP share a conquered level out between them: never both  *)
(* of the same candle, whatever either has missed.                         *)
NeverBoth ==
  \A i, j \in DOMAIN proposed :
    proposed[i].strategy = "Reversal" /\ proposed[j].strategy = "VWAP" => proposed[i].at # proposed[j].at

(* In a day First Pullback and Reversal propose once, and VWAP proposes    *)
(* the other side each time: however price goes about the level.           *)
Cadence ==
  \A i, j \in DOMAIN proposed :
    i < j /\ proposed[i].strategy = proposed[j].strategy =>
      /\ proposed[i].strategy = "VWAP"
      /\ (\A k \in i + 1 .. j - 1 : proposed[k].strategy # "VWAP")
           => proposed[i].direction # proposed[j].direction

(* Where price went straight through the level, the level is the stop and  *)
(* VWAP's is on the losing side.  (After a touch the stop is where the     *)
(* level was, and it may have moved past the close.)                       *)
ThroughStopsLose ==
  \A i \in DOMAIN proposed :
    LET o == proposed[i]
    IN o.through /\ o.strategy # "FirstPullback" =>
         /\ o.stop # o.close
         /\ o.strategy = "VWAP" => (o.direction = "BUY" <=> o.stop < o.close)
=============================================================================
