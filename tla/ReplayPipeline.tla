----------------------------- MODULE ReplayPipeline -----------------------------
(***************************************************************************)
(* How a backtest gets the state that belongs to a candle.  The candle is  *)
(* published on a bus of the run's own; a feature worker, a level worker   *)
(* and a market state worker, each with its queue, and a throttle that may *)
(* hold a computation back, take it from there; advance_to waits for each  *)
(* in turn, settles the throttle, and hands out what arrived last.  An     *)
(* exception that leaves the handling of an item is logged and the worker  *)
(* goes on.  One symbol.                                                   *)
(***************************************************************************)
EXTENDS Naturals, Sequences

CONSTANTS
  LastReplayed,      \* candles 1 .. LastReplayed
  MaxWorkerFaults    \* bound: items whose handling raises

ASSUME PipelineAssumption == LastReplayed \in Nat /\ MaxWorkerFaults \in Nat

Replayed == 0 .. LastReplayed   \* 0: none yet

VARIABLES
  advance,         \* the replayed candle, and what advance_to waits for
  onLane,          \* events the bus has not dispatched, in order
  featureQueue,    \* candles for the feature worker
  levelQueue,      \* features for the level worker
  stateQueue,      \* wake-ups of the market state worker
  held,            \* the throttle holds a computation back
  delayed,         \* the throttle's delayed task has not run
  newest,          \* _latest_features of the market state engine
  previous,        \* _prev_trend: the candle of the last computation
  computing,       \* the candle whose state is being persisted, 0 for none
  got,             \* the producer's latest features and market state
  levelsAt,        \* the candle the levels have been brought to
  accelerationFrom, \* (history) for each candle, the candle its acceleration is from
  faulty,          \* (history) a worker has failed
  faultsLeft       \* for the bound

pipelineVars ==
  <<advance, onLane, featureQueue, levelQueue, stateQueue, held, delayed, newest, previous,
    computing, got, levelsAt, accelerationFrom, faulty, faultsLeft>>

PipelineInit ==
  /\ advance = [candle |-> 0, at |-> "returned"]
  /\ onLane = <<>> /\ featureQueue = <<>> /\ levelQueue = <<>> /\ stateQueue = 0
  /\ held = FALSE /\ delayed = FALSE
  /\ newest = 0 /\ previous = 0 /\ computing = 0
  /\ got = [features |-> 0, state |-> 0] /\ levelsAt = 0
  /\ accelerationFrom = [c \in 1 .. LastReplayed |-> c]
  /\ faulty = FALSE /\ faultsLeft = MaxWorkerFaults

(***************************************************************************)
(* The bus and the workers                                                 *)
(***************************************************************************)
Goes(what, c) == Append(onLane, [what |-> what, candle |-> c])

(* Handlers queue; the throttle runs at once if its interval has elapsed,  *)
(* else it holds the run back for a delayed task.                          *)
FeaturesDispatched(c) ==
  /\ got' = [got EXCEPT !.features = c]
  /\ newest' = c
  /\ levelQueue' = Append(levelQueue, c)
  /\ \/ stateQueue' = stateQueue + 1 /\ held' = FALSE /\ UNCHANGED delayed
     \/ held' = TRUE /\ delayed' = TRUE /\ UNCHANGED stateQueue
  /\ UNCHANGED featureQueue

LaneDispatches ==
  /\ onLane # <<>>
  /\ onLane' = Tail(onLane)
  /\ LET e == Head(onLane)
     IN \/ /\ e.what = "candle"
           /\ featureQueue' = Append(featureQueue, e.candle)
           /\ UNCHANGED <<got, newest, levelQueue, stateQueue, held, delayed>>
        \/ e.what = "features" /\ FeaturesDispatched(e.candle)
        \/ /\ e.what = "state"
           /\ got' = [got EXCEPT !.state = e.candle]
           /\ UNCHANGED <<featureQueue, newest, levelQueue, stateQueue, held, delayed>>
  /\ UNCHANGED <<advance, previous, computing, levelsAt, accelerationFrom, faulty, faultsLeft>>

Fails == faultsLeft > 0 /\ faultsLeft' = faultsLeft - 1 /\ faulty' = TRUE
Works == UNCHANGED <<faulty, faultsLeft>>

(* The item is done when its features are published.                       *)
FeatureWorks ==
  /\ featureQueue # <<>>
  /\ featureQueue' = Tail(featureQueue)
  /\ \/ Works /\ onLane' = Goes("features", Head(featureQueue))
     \/ Fails /\ UNCHANGED onLane
  /\ UNCHANGED <<advance, levelQueue, stateQueue, held, delayed, newest, previous, computing, got,
                 levelsAt, accelerationFrom>>

LevelWorks ==
  /\ levelQueue # <<>>
  /\ levelQueue' = Tail(levelQueue)
  /\ \/ Works /\ levelsAt' = Head(levelQueue)
     \/ Fails /\ UNCHANGED levelsAt
  /\ UNCHANGED <<advance, onLane, featureQueue, stateQueue, held, delayed, newest, previous,
                 computing, got, accelerationFrom>>

(* The delayed task of the throttle, if nobody has run what it is for.     *)
DelayedRun ==
  /\ delayed
  /\ delayed' = FALSE /\ held' = FALSE
  /\ stateQueue' = IF held THEN stateQueue + 1 ELSE stateQueue
  /\ UNCHANGED <<advance, onLane, featureQueue, levelQueue, newest, previous, computing, got,
                 levelsAt, accelerationFrom, faulty, faultsLeft>>

(* _compute takes the newest features and remembers the trend; a thread    *)
(* then writes the row.                                                    *)
StateComputed ==
  /\ stateQueue > 0 /\ computing = 0 /\ newest # 0
  /\ computing' = newest
  /\ previous' = newest
  /\ accelerationFrom' = [accelerationFrom EXCEPT ![newest] = previous]
  /\ UNCHANGED <<advance, onLane, featureQueue, levelQueue, stateQueue, held, delayed, newest, got,
                 levelsAt, faulty, faultsLeft>>

(* A row that fails to commit is logged inside _persist and the state is   *)
(* published all the same; only what raises out of _persist (opening the   *)
(* session, the rollback, the close) keeps the state from being published. *)
StatePersisted ==
  /\ computing # 0
  /\ computing' = 0
  /\ stateQueue' = stateQueue - 1
  /\ \/ Works /\ onLane' = Goes("state", computing)
     \/ Fails /\ UNCHANGED onLane
  /\ UNCHANGED <<advance, featureQueue, levelQueue, held, delayed, newest, previous, got, levelsAt,
                 accelerationFrom>>

(***************************************************************************)
(* advance_to                                                              *)
(***************************************************************************)
PublishCandle ==
  /\ advance.at = "returned" /\ advance.candle < LastReplayed
  /\ advance' = [candle |-> advance.candle + 1, at |-> "bus"]
  /\ onLane' = Goes("candle", advance.candle + 1)
  /\ UNCHANGED <<featureQueue, levelQueue, stateQueue, held, delayed, newest, previous, computing,
                 got, levelsAt, accelerationFrom, faulty, faultsLeft>>

(* mutant: the features are not given a dispatch round of their own *)
Waits_NoSecondRound ==
  [bus |-> onLane = <<>>, features |-> featureQueue = <<>>, bus2 |-> TRUE,
   levels |-> levelQueue = <<>>, states |-> stateQueue = 0, bus3 |-> onLane = <<>>]

(* What each wait is for: _drain_bus and the join of a queue, whose items  *)
(* count until they are done.                                              *)
Waits ==
  [bus |-> onLane = <<>>, features |-> featureQueue = <<>>, bus2 |-> onLane = <<>>,
   levels |-> levelQueue = <<>>, states |-> stateQueue = 0, bus3 |-> onLane = <<>>]

Then(at) == advance' = [advance EXCEPT !.at = at]

WaitOver(at, next) ==
  /\ advance.at = at /\ Waits[at] /\ Then(next)
  /\ UNCHANGED <<onLane, featureQueue, levelQueue, stateQueue, held, delayed, newest, previous,
                 computing, got, levelsAt, accelerationFrom, faulty, faultsLeft>>

(* mutant: a computation that is held back is left to its delayed task *)
RunsHeld_Never == FALSE

(* settle_replay: what is held back runs now.                              *)
RunsHeld == held

(* settle_replay raises without features; else the throttle is flushed and *)
(* its delayed task is cancelled.                                          *)
SettleReplay ==
  /\ advance.at = "settle"
  /\ \/ newest = 0 /\ Then("raised") /\ UNCHANGED <<stateQueue, held, delayed>>
     \/ /\ newest # 0 /\ Then("states")
        /\ stateQueue' = IF RunsHeld THEN stateQueue + 1 ELSE stateQueue
        /\ held' = (held /\ ~RunsHeld)
        /\ delayed' = (delayed /\ held /\ ~RunsHeld)
  /\ UNCHANGED <<onLane, featureQueue, levelQueue, newest, previous, computing, got, levelsAt,
                 accelerationFrom, faulty, faultsLeft>>

(* mutant: what arrived last is handed out, whatever candle it is of *)
OfThisCandle_Any == got.features # 0 /\ got.state # 0

(* What is handed out must be of this candle; context is evaluated for it. *)
OfThisCandle == got.features = advance.candle /\ got.state = advance.candle

AdvanceEnds ==
  /\ advance.at = "check"
  /\ Then(IF OfThisCandle THEN "returned" ELSE "raised")
  /\ UNCHANGED <<onLane, featureQueue, levelQueue, stateQueue, held, delayed, newest, previous,
                 computing, got, levelsAt, accelerationFrom, faulty, faultsLeft>>

PipelineNext ==
  \/ LaneDispatches \/ FeatureWorks \/ LevelWorks \/ DelayedRun \/ StateComputed \/ StatePersisted
  \/ PublishCandle
  \/ WaitOver("bus", "features") \/ WaitOver("features", "bus2") \/ WaitOver("bus2", "levels")
  \/ WaitOver("levels", "settle") \/ SettleReplay
  \/ WaitOver("states", "bus3") \/ WaitOver("bus3", "check")
  \/ AdvanceEnds

PipelineSpec == PipelineInit /\ [][PipelineNext]_pipelineVars

PipelineTypeOK ==
  /\ advance \in [candle : Replayed, at : {"returned", "raised", "bus", "features", "bus2",
                  "levels", "settle", "states", "bus3", "check"}]
  /\ newest \in Replayed /\ previous \in Replayed /\ computing \in Replayed
  /\ got \in [features : Replayed, state : Replayed] /\ levelsAt \in Replayed
  /\ stateQueue \in Nat /\ held \in BOOLEAN /\ delayed \in BOOLEAN /\ faulty \in BOOLEAN

(* A replay that returns has settled: strategies see the features, the     *)
(* state and, unless a worker failed, the levels of this candle, and       *)
(* nothing of it is left that could arrive during the next one.            *)
ReplaySettled ==
  advance.at = "returned" =>
    /\ got.features = advance.candle /\ got.state = advance.candle
    /\ ~faulty => levelsAt = advance.candle
    /\ onLane = <<>> /\ featureQueue = <<>> /\ levelQueue = <<>>
    /\ stateQueue = 0 /\ ~held /\ computing = 0

(* It raises only when a worker has failed: the timing of the throttle and *)
(* of the queues alone never ends a run.                                   *)
RaisesForFaults == advance.at = "raised" => faulty

(* Unless a worker failed, a candle's acceleration is from the candle      *)
(* before it: no candle is computed twice or passed over.                  *)
AccelerationFromPrevious ==
  ~faulty => \A c \in 1 .. previous : accelerationFrom[c] = c - 1
=============================================================================
