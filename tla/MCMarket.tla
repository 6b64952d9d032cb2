------------------------------- MODULE MCMarket -------------------------------
(***************************************************************************)
(* The simulated venue, the components that make candles, levels and       *)
(* features of ticks, backtests and the measurement of streaming.  They    *)
(* share no state in these models: a behaviour is one of one component,    *)
(* and the others stay at their initial states.                            *)
(***************************************************************************)
EXTENDS SimulatedVenue, TickBridge, CandlePath, SessionClock, LevelInteraction,
  FeatureEngine, ReplayGuards, ReplayRun, ReplayPipeline, IBKRHistory,
  MarketComposite, StreamingCoverage

VARIABLE component

MCDays ==
  (UNION {[1 .. n -> DayKinds] : n \in 1 .. 2})
    \cup {<<"half", "weekend", "weekend", "holiday", "weekday">>}
MCDailyBars == {<<60, 120>>, <<120, 180>>, <<180, 300>>}

(* Entry candles are short of a price, at it, beyond it and touch both;    *)
(* the session is over for the late ones.                                  *)
MCCandles ==
  {[late |-> FALSE, open |-> 2, low |-> 1, high |-> 2, close |-> 2],
   [late |-> FALSE, open |-> 2, low |-> 2, high |-> 3, close |-> 3],
   [late |-> FALSE, open |-> 1, low |-> 1, high |-> 3, close |-> 2],
   [late |-> TRUE, open |-> 2, low |-> 2, high |-> 2, close |-> 2],
   [late |-> FALSE, open |-> 0, low |-> 0, high |-> 2, close |-> 2]}
MCDatedSeries(n) ==
  {[i \in 1 .. n |-> cs[i] @@ [day |-> IF i < turn THEN 0 ELSE 1]] :
     cs \in [1 .. n -> MCCandles], turn \in 2 .. n + 1}
MCSeries ==
  {s \in UNION {MCDatedSeries(n) : n \in {0, 1, 4}} :
     \A i \in 2 .. Len(s) : s[i].day = s[i - 1].day /\ s[i - 1].late => s[i].late}

MarketInit ==
  /\ component \in {"venue", "bridge", "candles", "bars", "clock", "levels", "features", "daily",
                    "guards", "run", "pipeline", "history", "levelsignals", "composite",
                    "coverage"}
  /\ Init /\ TickInit /\ CandleInit /\ RelayInit /\ ClockInit /\ LevelInit /\ FeatureInit
  /\ DailyInit /\ ReplayInit /\ RunInit /\ PipelineInit /\ HistoryInit
  /\ LevelSignalsInit /\ CompositeInit /\ CoverageInit

Stay(c, unchanged) == IF component = c THEN TRUE ELSE unchanged

(* The components that do not move                                         *)
OthersStay ==
  /\ Stay("venue", UNCHANGED venueVars)
  /\ Stay("bridge", UNCHANGED tickVars)
  /\ Stay("candles", UNCHANGED candleVars)
  /\ Stay("bars", UNCHANGED relayVars)
  /\ Stay("clock", UNCHANGED clockVars)
  /\ Stay("levels", UNCHANGED levelVars)
  /\ Stay("features", UNCHANGED featureVars)
  /\ Stay("daily", UNCHANGED dailyVars)
  /\ Stay("guards", UNCHANGED replayVars)
  /\ Stay("run", UNCHANGED runVars)
  /\ Stay("pipeline", UNCHANGED pipelineVars)
  /\ Stay("history", UNCHANGED historyVars)
  /\ Stay("levelsignals", UNCHANGED levelSignalVars)
  /\ Stay("composite", UNCHANGED compositeVars)
  /\ Stay("coverage", UNCHANGED coverageVars)

Only(c, move) == component = c /\ move /\ OthersStay /\ UNCHANGED component

(* A call the venue has answered before changes nothing.                   *)
VenueMoves == Next /\ venueVars' # venueVars

MarketNext ==
  \/ Only("venue", VenueMoves)
  \/ Only("bridge", TickNext)
  \/ Only("candles", CandleNext)
  \/ Only("bars", RelayNext)
  \/ Only("clock", AskClock)
  \/ Only("levels", LevelNext)
  \/ Only("features", FeatureNext)
  \/ Only("daily", DailyNext)
  \/ Only("guards", ReplayNext)
  \/ Only("run", RunNext)
  \/ Only("pipeline", PipelineNext)
  \/ Only("history", HistoryNext)
  \/ Only("levelsignals", LevelSignalsNext)
  \/ Only("composite", CompositeNext)
  \/ Only("coverage", CoverageNext)

marketVars ==
  <<component, venueVars, tickVars, candleVars, relayVars, clockVars, levelVars, featureVars,
    dailyVars, replayVars, runVars, pipelineVars, historyVars, levelSignalVars, compositeVars, coverageVars>>

MarketSpec == MarketInit /\ [][MarketNext]_marketVars

(* Ticks, candles, bars and times: no tick and no minute is lost, repeated *)
(* or attributed to two sources on its way to a candle, a stored row, a    *)
(* wider candle or a published bar, the answers of the session clock agree *)
(* with each other, the touches of a level are counted and its resolutions *)
(* recorded without a gap, strategies conclude what was recorded and share *)
(* a level's touches out, features are made of every candle once, volumes  *)
(* compared at their pace, and daily levels of the daily candles; the      *)
(* composite follows its tickers.  Backtests: one at a time, with its own  *)
(* candles and leaving no trace; each signal becomes one cautious outcome  *)
(* or is discarded; what is fetched for one is whole.  A measurement       *)
(* counts every message of its window and tells which ends it saw.         *)
DataTrue ==
  /\ component = "bridge" => TickTypeOK /\ CandlesInOrder /\ TicksAccounted /\ OneSource
  /\ component = "candles" => CandleTypeOK /\ FirstCandleStays /\ AggregationAgrees
  /\ component = "bars" => RelayTypeOK /\ SnapshotsFresh
  /\ component = "clock" => BoundaryIsNext /\ AnswersAgree
  /\ component = "levels" => LevelTypeOK /\ TouchesCounted /\ ResolutionsChain /\ ConclusionsAgree
  /\ component = "features" =>
       FeatureTypeOK /\ SessionVolumeSound /\ DayValuesSound /\ WindowsSound /\ VolumeOnPace
  /\ component = "daily" => DailyTypeOK /\ ClustersSound /\ LevelsSound
  /\ component = "guards" => ReplayTypeOK /\ OneReplay /\ ReplayLeavesNoTrace /\ ResultsHonest
  /\ component = "run" => RunTypeOK /\ SignalsSettled /\ TradesFollow /\ ExitsCautious
  /\ component = "pipeline" =>
       PipelineTypeOK /\ ReplaySettled /\ RaisesForFaults /\ AccelerationFromPrevious
  /\ component = "history" => HistoryTypeOK /\ DatasetWhole /\ NothingLeftOpen
  /\ component = "levelsignals" => LevelSignalsTypeOK /\ NeverBoth /\ Cadence /\ ThroughStopsLose
  /\ component = "composite" => CompositeTypeOK /\ CompositesForward /\ CompositeSettles
  /\ component = "coverage" => CoverageTypeOK /\ EveryMessageCounted /\ WindowOnly /\ ReportHonest

(* What is settled stays: the book of the venue is never rewritten, and    *)
(* the id of a daily level stays its own.                                  *)
SettledStays == BookStands /\ IdsKept
=============================================================================
