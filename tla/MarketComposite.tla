----------------------------- MODULE MarketComposite -----------------------------
(***************************************************************************)
(* The composite of SPY, QQQ and IWM in market_state_engine/engine.py: one *)
(* worker computes the state of one ticker after the other from the newest *)
(* features, writes it, and then composes what it last computed of each,   *)
(* while features go on arriving.  A score is known by the candle it was   *)
(* computed from; the rows written are left out, since a write that fails  *)
(* is logged and the worker goes on as if it had succeeded.                *)
(***************************************************************************)
EXTENDS Naturals, Sequences, FiniteSets, FiniteSetsExt

CONSTANTS
  CrossTickers,
  LastComposed, MaxComposeFaults   \* bounds: candles, exceptions out of a write

ASSUME CompositeAssumption ==
  CrossTickers # {} /\ LastComposed \in Nat /\ MaxComposeFaults \in Nat

VARIABLES
  latestOf,     \* _latest_features: the newest candle of each ticker, 0 for none
  heldOf,       \* the throttle of the ticker holds a computation back
  stateWork,    \* the worker's queue
  composing,    \* [step, of, candle, composite]: what the worker has in hand
  stateOf,      \* _latest_market_state
  trendOf,      \* _cross_symbol_trend
  composite,    \* _latest_cross_symbol_state: its candle_ts and its parts
  composites,   \* (history) what was published
  leftOut,      \* (history) tickers whose newest state an exception left out
  composeFaults

compositeVars == <<latestOf, heldOf, stateWork, composing, stateOf, trendOf, composite, composites,
                   leftOut, composeFaults>>

NoComposite == [ts |-> 0, parts |-> [t \in CrossTickers |-> 0]]
WorkerIdle == [step |-> "idle", of |-> CHOOSE t \in CrossTickers : TRUE, candle |-> 0,
               composite |-> NoComposite]

CompositeInit ==
  /\ latestOf = [t \in CrossTickers |-> 0] /\ heldOf = [t \in CrossTickers |-> FALSE]
  /\ stateWork = <<>> /\ composing = WorkerIdle
  /\ stateOf = [t \in CrossTickers |-> 0] /\ trendOf = [t \in CrossTickers |-> 0]
  /\ composite = NoComposite /\ composites = <<>>
  /\ leftOut = {} /\ composeFaults = 0

(* A write returns whether or not its row was committed: what fails in it  *)
(* is logged.  Only opening the session, the rollback or the close raises. *)
WriteReturns(ok) ==
  IF ok THEN UNCHANGED composeFaults
  ELSE composeFaults < MaxComposeFaults /\ composeFaults' = composeFaults + 1

(* A 1m payload; the throttle queues the ticker now or later.              *)
FeaturesOf(t) ==
  /\ latestOf[t] < LastComposed
  /\ latestOf' = [latestOf EXCEPT ![t] = @ + 1]
  /\ \/ stateWork' = Append(stateWork, t) /\ heldOf' = [heldOf EXCEPT ![t] = FALSE]
     \/ heldOf' = [heldOf EXCEPT ![t] = TRUE] /\ UNCHANGED stateWork
  /\ UNCHANGED <<composing, stateOf, trendOf, composite, composites, leftOut, composeFaults>>

HeldRuns(t) ==
  /\ heldOf[t] /\ heldOf' = [heldOf EXCEPT ![t] = FALSE] /\ stateWork' = Append(stateWork, t)
  /\ UNCHANGED <<latestOf, composing, stateOf, trendOf, composite, composites, leftOut, composeFaults>>

(* _compute; a thread writes the row.                                      *)
TickerComputed ==
  /\ composing.step = "idle" /\ stateWork # <<>>
  /\ stateWork' = Tail(stateWork)
  /\ composing' = [WorkerIdle EXCEPT !.step = "state", !.of = Head(stateWork),
                                     !.candle = latestOf[Head(stateWork)]]
  /\ UNCHANGED <<latestOf, heldOf, stateOf, trendOf, composite, composites, leftOut, composeFaults>>

(* Cached, then published, the row written or not; an exception out of     *)
(* _persist leaves the state in neither.                                   *)
TickerPersisted(ok) ==
  /\ composing.step = "state" /\ WriteReturns(ok)
  /\ IF ok
     THEN /\ stateOf' = [stateOf EXCEPT ![composing.of] = composing.candle]
          /\ composing' = [composing EXCEPT !.step = "compose"]
          /\ leftOut' = leftOut \ {composing.of}
     ELSE composing' = WorkerIdle /\ leftOut' = leftOut \cup {composing.of} /\ UNCHANGED stateOf
  /\ UNCHANGED <<latestOf, heldOf, stateWork, trendOf, composite, composites>>

(* mutant: a composite is made of those that have reported *)
AllReported_Some(trends) == \E t \in CrossTickers : trends[t] # 0

AllReported(trends) == \A t \in CrossTickers : trends[t] # 0

(* mutant: the candle of the ticker at hand *)
CompositeCandle_Own == composing.candle

(* The newest of the features, computed or not.                            *)
CompositeCandle == Max({latestOf[t] : t \in CrossTickers})

(* mutant: the score is taken over after the composition *)
TrendsNow_Before == trendOf

TrendsNow == [trendOf EXCEPT ![composing.of] = composing.candle]

Compose ==
  /\ composing.step = "compose"
  /\ trendOf' = [trendOf EXCEPT ![composing.of] = composing.candle]
  /\ composing' =
       IF AllReported(TrendsNow)
       THEN [composing EXCEPT !.step = "write", !.composite = [ts |-> CompositeCandle, parts |-> TrendsNow]]
       ELSE WorkerIdle
  /\ UNCHANGED <<latestOf, heldOf, stateWork, stateOf, composite, composites, leftOut, composeFaults>>

(* Cached and published, the row written or not; a composite whose write   *)
(* raises is left out, and the ticker's own state stands.                  *)
CompositePersisted(ok) ==
  /\ composing.step = "write" /\ WriteReturns(ok)
  /\ composing' = WorkerIdle
  /\ IF ok THEN composite' = composing.composite /\ composites' = Append(composites, composing.composite)
     ELSE UNCHANGED <<composite, composites>>
  /\ leftOut' = IF ok THEN leftOut ELSE leftOut \cup {composing.of}
  /\ UNCHANGED <<latestOf, heldOf, stateWork, stateOf, trendOf>>

CompositeNext ==
  \/ \E t \in CrossTickers : FeaturesOf(t) \/ HeldRuns(t)
  \/ TickerComputed \/ Compose
  \/ \E ok \in BOOLEAN : TickerPersisted(ok) \/ CompositePersisted(ok)

CompositeSpec == CompositeInit /\ [][CompositeNext]_compositeVars

CompositeTypeOK ==
  /\ composing.step \in {"idle", "state", "compose", "write"}
  /\ \A t \in CrossTickers : latestOf[t] \in 0 .. LastComposed /\ stateOf[t] <= latestOf[t]

(* get_snapshot: a ticker without a state is not in it.                    *)
Snapshot ==
  [symbols |-> [t \in {t \in CrossTickers : stateOf[t] # 0} |-> stateOf[t]], market |-> composite]

(* Composites and each of their parts only move forward, every part is     *)
(* known and none is of a later candle than the composite says; a snapshot *)
(* never has a market that is ahead of its tickers.                        *)
CompositesForward ==
  /\ \A t \in CrossTickers : Snapshot.market.parts[t] # 0 =>
       t \in DOMAIN Snapshot.symbols /\ Snapshot.market.parts[t] <= Snapshot.symbols[t]
  /\ \A i \in DOMAIN composites :
      /\ \A t \in CrossTickers : composites[i].parts[t] \in 1 .. composites[i].ts
      /\ i > 1 =>
           /\ composites[i - 1].ts <= composites[i].ts
           /\ \A t \in CrossTickers : composites[i - 1].parts[t] <= composites[i].parts[t]

CaughtUp ==
  /\ stateWork = <<>> /\ composing.step = "idle" /\ \A t \in CrossTickers : ~heldOf[t]
  /\ leftOut = {} /\ AllReported(latestOf)

(* When the worker has caught up the composite is of the newest candles,   *)
(* and agrees with the states of the tickers, unless an exception left the *)
(* last state or composite out: a row that failed to commit leaves nothing *)
(* out.                                                                    *)
CompositeSettles ==
  CaughtUp => Snapshot = [symbols |-> latestOf,
                          market |-> [ts |-> Max({latestOf[t] : t \in CrossTickers}), parts |-> latestOf]]
=============================================================================
