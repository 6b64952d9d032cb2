# Verification of a trading pipeline

TLA+ models, TLC configurations and TLAPS proofs for `agentic-trading-os`
(`src/backend/app`): how ticks become candles, features, levels and proposals, how a
proposal becomes an approved trade, how the trade is entered, followed and closed
exactly once, and how the services around that path start, stop, fail and recover.
The execution core is modelled in most detail and is what the proofs are about.

Line numbers refer to the repository; paths without a prefix are under
`src/backend/app`. `PROJECT.json` maps every definition to its lines.

## 1. The system

### Components

| Component | State it keeps | Operations | Modelled by |
|---|---|---|---|
| Execution ledger: `execution_engine/{exit_ledger,fill_ledger,postgres}.py` | tables `orders`, `fills`, `exit_requests` | insert, status, record fill, observe, expire, prepare, claim | `ExecutionLedger` |
| Position accounting: `portfolio_state/{postgres,accounting}.py` | `positions`, receipts, cursor | `commit_fill` with `apply_fill` | `ExecutionLedger` |
| Simulated venue: `broker_adapters/simulated_venue.py` | order book, pending index, callbacks | connect, place, cancel, `ingest_tick` | `SimulatedVenue` |
| Execution worker: `execution_engine/engine.py`; start-up: `main.py`, `portfolio_state/reconciliation.py` | one queue, one task | approvals, venue updates, exits, reconcile | `ExecutionLifecycle` |
| Portfolio State: `portfolio_state/engine.py` | cached snapshot, readiness, marks | notify, refresh, retry | `PortfolioState` |
| Position Monitor: `position_monitor` | tick journal, slots, fill markers | journal, replay, candle, pulse, acknowledge | `PositionMonitor`, `ExitObservations` |
| Session calendar: `core/{market_clock,session_window}.py` | none | sessions, bounds, flatten window | `SessionClock` |
| Authorizer: `governor`, `trade_planning` | queue, claims | plan, decide, commit, publish | `EntryAuthorization`, `EntryRules` |
| Candidates and selection: `trading_intelligence/candidate_*.py`, `decision_audit` | slots, journal, claims | reduce, assess, select, record, claim | `CandidateState`, `Selection` |
| Strategies and market state: `strategy_engine`, `market_state_engine`, `core/debounce_scheduler.py` | memory of the day, last states, composite | throttle, compute, evaluate, propose | `Signals`, `LevelInteraction`, `MarketComposite` |
| Levels: `trading_intelligence/level_interaction_engine.py` | zone, touches, two tables | take features, persist, publish | `LevelInteraction` |
| Features: `feature_engine` | windows, accumulators, daily levels | compute, reload, cluster | `FeatureEngine` |
| Ticks to candles: `services/{tick_ingest,candle_*,live_tick_relay}.py` | buckets, writer queue, bars | handle, flush, hand over, write, aggregate | `TickBridge`, `CandlePath` |
| Providers: `broker_adapters`, `services/broker_registry.py`, `api/routes/{market_data,finnhub_data,broker}.py` | sockets, subscriptions, roles | connect, subscribe, poll, take over | `ProtectedFeed`, `PollingFeed`, `IBKRFeed`, `ProviderRoles` |
| Event bus: `event_bus/bus.py` | two lanes, handlers | publish, dispatch, stop | `EventBus` |
| Outcomes: `trading_intelligence/outcome_recorder.py` | pending notices, outcomes | notice, scan, judge | `OutcomeRecorder` |
| Scanner and context: `scanner`, `context_engine`, `api/routes/scanner.py` | snapshot, loops, universe, fundamentals | scan, start, stop, refresh | `ScannerWorker`, `ContextLoops`, `Fundamentals` |
| Process: `main.py` | what is running, what routes see | start-up, rollback, shutdown | `Lifespan` |
| Backtests: `backtest_runner`, `api/routes/backtest.py` | replay slot, engines, trades, datasets | replay, settle, acquire | `ReplayGuards`, `ReplayRun`, `ReplayPipeline`, `IBKRHistory` |
| Measurement: `measurement/streaming_coverage.py` | collector, reads | set up, count, report | `StreamingCoverage` |
| Acceptance harnesses, other routes, frontend | read models | presentation | not modelled |

### How they interact

```
 provider --tick--> bridge --PriceUpdated, CandleClosed (bus)--> recorder, relay, features
                       |                                             |
                       |            levels <----- features ----------+
                       |               |             |
                       |               v             v
                       |           strategies <-- market state, context, composite
                       |               |
                       |               +--OpportunityCreated--> authorizer <--snapshot--+
                       |                                            |                   |
                       |                                    OrderApproved (bus)         |
                       v                                            v                   |
 Position Monitor --on_observation--> queue --> worker --place/cancel--> venue          |
        ^   slots read back by the worker        |                        |             |
        |                                        v                        |             |
        |                                 PostgreSQL ledger <--updates----+             |
        +------------- positions ---- Portfolio State <-- fills, receipts --------------+
                                          |
                                   PositionClosed --> outcome recorder
```

* One event loop: between two awaits a task is alone. Database work runs in threads and
  the loop goes on meanwhile, so what was read before an await may be old after it.
* Each ledger method takes SHARE ROW EXCLUSIVE locks on all the tables it writes, so
  transactions are serial, but the knowledge a caller acts on is from an earlier one. A
  transaction may commit and its caller still see an exception.
* Only the database survives the process: the venue's book, queues, slots, buckets and
  windows are memory.
* Routes call providers and the registry concurrently; only some of them share a lock.

### What is hard, and what makes it correct

* **Exits are reduce-only** although entry fills, pending receipts, two exit reasons and
  retries race (`ReduceOnly`, `ExitContract`, `OneActiveClose`), and dispatch evidence is
  never lost or reused (`UnsentCancellationIsProof`, `MarkerRecordsDispatch`).
* **Reports arrive in any order, twice or late** (`StatusMovesForward`,
  `AtRestOrdersAgree`, `UpdatesTellTheBook`), and a restart fails closed
  (`ExitContract` with crashes). What is asked for completes (`ExitCompletes`).
* **A touch of a stop is never lost unreported**, whatever the order of ticks, fills,
  snapshots and outages (`TouchNotLost`, `EodOnlyUntouched`, `TouchIsLatched`).
* **Decisions rest on a snapshot that is not behind** (`SnapshotSound`), and what they add
  up to stays within the places and the loss cap (`RiskBounded`).
* **Candles arrive late, again, over restarts and hand-overs**: each minute is one candle
  of one source, each candle is in each window once, each proposal is about one candle
  (`DataTrue`, `ChoiceSound`), and what was decided is not taken back (`RecordsStand`).
* **Connections are lost in the middle of a request**; what must be subscribed is asked for
  again, and the inventory does not lie (`DeliveryKept`, `ServicesDeliver`).
* **Stop comes between a read and its use**: nothing that was stopped, replaced or torn
  down acts again (`NothingUndone`).

The complete list with the lines where each bites is under "hazards" in `PROJECT.json`;
a "note" there says what a property excuses.

## 2. The modules

The execution core is composed: `ExecutionLifecycle` extends `ExecutionLedger`, whose
tables its steps read and write, instantiates `SimulatedVenue` and refines
`ReduceOnlyExit`; `PositionMonitor` refines
`ExitObservations`; `EntryAuthorization` extends `PortfolioState`. The other components
are models of their own, with what they depend on reduced to any value it may have
there.

### `ExecutionLedger`

The ledger as shared data, its callers unconstrained: any transaction may run at any
time with any argument. One action per method.

| Model | Code |
|---|---|
| `orders[p][0]`, `orders[p][n]` | the rows `<trade>:entry` and `<trade>:exit:<n>`: status, qty, `exit_reason`, `exit_dispatch_started_at IS NOT NULL`, `reject_reason = 'eod_window_closed'` |
| `position[p]`, `request[p]` | the position of the trade and its `exit_requests` row |
| `fills`, `cursor` | `fills` in `ledger_seq` order and how many have a receipt |
| `sent` | history: the orders a venue call was permitted for (`insert_order` returned True, or `claim_dispatch` CLAIMED) |
| `InsertEntry`, `UpdateEntryStatus` | `PostgresOrderLedger.insert_order`, `update_order_status` |
| `ObserveExit`, `AdvanceEodExpiry`, `PrepareExit`, `ClaimDispatch`, `SetStatus` | the methods of `PostgresExitLedger`; `_advance_expiry` is part of each of them and not a step of its own |
| `RecordFill`, `CommitFill` | `PostgresFillLedger.record_fill`; `commit_fill` with `apply_fill` |
| `ReconcileLostBook` | `reconcile_with_venue` on a book that knows no order |

Abstractions. A trade has its own symbol; quantities count lots, one fill is one lot.
Prices, P&L, fees, event texts and rows of other modes are left out. The calendar is
a parameter. The status `unknown`, which `ACTIVE` lists and no code writes, is left
out. An entry fill after the close opens a second position in the code; the model
marks it `reopened`, and `AccountingAccepts` says that it does not happen.
`ReportStatus` and `VenueFill` are the environment: a venue reports about orders it
was sent and that still work, and a symbol's ticks do not go back in time. The
lifecycle replaces that assumption by the real venue, and `LedgerContract` checks it.

### `SimulatedVenue`

One action per method; methods never suspend. `book` is `_orders`, `waiting` is
`_pending_by_symbol`, `dispatched` collects the arguments of the callbacks and is
substituted by the engine's queue in the composition. Market orders only (the ledger
accepts no other), so every valid tick crosses; an invalid tick changes nothing. The
planner fills one lot per tick: `MaxLots = 1` is the default whole-order planner,
more is the injected partial-fill planner. Orders wait in the order in which they were
accepted; `Keep` takes one out of the line without disturbing the others.

### `ExecutionLifecycle` and `ReduceOnlyExit`

The worker over both. `worker` is the program counter with the locals held there (the
acknowledgement not yet stored, the fills read back and not yet recorded, the positions
still to service). Each `asyncio.to_thread` call is a `DbStep`: it commits and returns,
or the worker sees an exception and the transaction either rolled back or committed. A
venue call with the code up to the next await is one step.

| Model | Code |
|---|---|
| `TakeApproval`, `PlaceEntry`, `AckEntry` | `_process_one` |
| `TakeUpdate` | `_process_venue_update` |
| `BeginObservations`, `ObserveOne` | `_service_exits` over `pending_observations()` |
| `BeginService`, `Prepare`, `CancelEntry`, `RecordEntryFill`, `EntryCancelled`, `Claim`, `PlaceClose`, `AckClose`, `EndService` | `_service_exit_position` for each of `pending_exit_position_ids()` |
| `Latch`, `pending` | the monitor's slots as `ExitObservations` promises them. Whether a price touches is a free choice |
| `ApplyNextFill` | Portfolio State, at any time. The worker's `refresh()` waits for it; the model lets it be later still |
| `Crash`, `Start`, `Recover` | process death; `main.py`: connect, restore, reconcile, then block (`reconciliation_blocked`) or register the callback and start. With a lost book every open position blocks |

`ReduceOnlyExit` is the abstract contract of decision 184
(`docs/architecture/execution-engine-design.md`, EX-5) on three counters per trade: lots
held, whether an entry is in the market, lots an outstanding close may still sell.

### `PositionMonitor` and `ExitObservations`

`_on_market_event` puts an event on `queue` and, for a tick, into `journal`; one worker
takes items. `Tick`, `FillNotice`, `Candle`, `EnqueuePulse` and the recovery timer
(`Recover`) put; `Work` replays, evaluates and fills `slots`. The environment opens, fills and
closes positions, fails reads and calls acknowledge, release, restore and closed.
`lost_window` is kept, since it is how the code owns up to an evicted touch: `TouchNotLost`
allows a missing touch only with it. `ExitObservations` is the contract the execution
engine relies on, checked as a refinement (`SlotContract`).

### The other modules

| Module | State and actions, with what they stand for |
|---|---|
| `PortfolioState` | `state` and `_ready`, the worker between any two awaits, notifications through the bus, retry timer, marks of ticks, `PositionClosed` |
| `EntryAuthorization` | the authorizer's worker on top: read a snapshot in a thread, commit the reservation, publish |
| `EntryRules` | `plan_entry`, the rules and the exposures over prices, shares and the day's losses; fills may be worse than planned (`slippage`) |
| `CandidateState` | the reducer of batches and outages per strategy version; the reader that rolls sessions, starts, stops; eligibility and what a reader is shown; `slept` remembers a session that passed without the reader being asked |
| `Selection` | capture, survivors, the choice and the reasons told without one; attempts; the journal; claims of approvals |
| `Signals` | the throttle (delay and ceiling), Market State's worker, delivery, and ORB, Gap, Volume Spike, Momentum with what each remembers |
| `LevelInteraction` | zone and touch of one level, its state and event rows written in turn by a thread, crashes, failed writes, a strategy's tracker reading meanwhile; then First Pullback, Reversal and VWAP over the level's touches, their memory and stops |
| `MarketComposite` | one worker over three tickers, newest features, two writes, the composite and the snapshot |
| `FeatureEngine` | windows, session accumulators, latched values, wider candles, volume compared with a usual day's, over live candles, reloads, crashes, failed reads and stop; clustering of daily candles, ids carried from day to day, frozen averages, refreshes that fail, restarts |
| `TickBridge` | tick tasks, bucket lock, flush, retirement, take-over of streaming |
| `CandlePath` | the writer's queue, upserts, stop, reads, aggregation 1m to 1h; the relay's queue, forming bars, flush, watched symbols |
| `SessionClock` | sessions, bounds, boundaries and the flatten window over kinds of days |
| `EventBus` | lanes, consumers, handlers that come, go or never end, start and stop |
| `ProtectedFeed` | Finnhub's socket, supervisor, sends in two steps, restoration; the reconciler's cycle, wake and stop |
| `PollingFeed` | Polygon's polling task, rate limiter, route calls while a request is out |
| `IBKRFeed` | IB's subscriptions: qualification awaited, concurrent callers, losing the link |
| `ProviderRoles` | connect and disconnect routes of three providers step by step, the registry's two roles |
| `OutcomeRecorder` | notices, start-up scan, sweep, worker with two snapshots, verdicts, commits that raise; which stories can be judged |
| `ScannerWorker` | the timer, one cycle, admission asked twice, generation, snapshot and what a reader is told; a request for every symbol's feed, one after the other, while providers change |
| `ContextLoops` | bootstrap, refreshes by added symbols, generation, crashes, stop await by await |
| `Fundamentals` | the daily loops, rows, and twelve trailing months from cumulative filings |
| `Lifespan` | start-up steps with their failures, blocked start, rollback, what routes see, shutdown |
| `ReplayGuards` | replay requests and sweeps, engine singletons, the historical role, providers coming and going |
| `ReplayRun` | the loop of a run: signals, cautious fills, trades recorded when the replay gets there |
| `ReplayPipeline` | publish one candle and settle three workers and a throttle, faults included |
| `IBKRHistory` | chunks, retries, errors of the gateway, overlap, close |
| `StreamingCoverage` | the collector beside the run: set-up, window, samples, two pairs of reads, what the report says |

`MCDecisions`, `MCMarket` and `MCServices` join components that share no state in these
models: a variable (`stage`, `component`) chosen by Init says which one moves and all the
others stay at their initial states. A behaviour of such a run is a behaviour of one
component, so the states of a run are the sum and not the product of its parts.
`MCServices` has a `Spec` of its own. The run `entry_limit` checks `EntryAuthorization`
itself, with a symbol of its own for each entry (`OwnSymbol`).

## 3. What the runs check

| Run | Bounds | Checks |
|---|---|---|
| `ledger` | 1 trade, 2 lots, 2 close attempts, clock to 4 | the ledger under arbitrary callers |
| `lifecycle_races` | 1 trade of 3 lots, 2 attempts, OrderApproved up to twice, no faults | every interleaving of worker, venue, monitor, accounting and clock |
| `lifecycle_faults` | 2 lots, 1 crash, 1 failing database step (any but `record_fill`) | the same under failure |
| `lifecycle_liveness` | 2 lots, no faults, fairness | completion |
| `monitor` | 1 position that may be restored, a second symbol, journals of 2 ticks and 1 symbol, 2 ticks, 2 worker events, 1 outage | touches, slots, hand-over |
| `decisions` | per stage: 2 entries for 1 place with 1 disturbance; 2 strategy versions, 2 timeframes, candles 0 to 2, the second of them in a session; 2 candidates, 1 selection, 2 trades; 2 symbols, prices 2 to 5; candles to minute 5 in days of 4 | from candles to approved entries |
| `market` | per component: see `MCMarket.cfg` | the market's path, backtests, measurement |
| `services` | per component: see `MCServices.cfg` | providers, bus, recorder, context, scanner, lifespan |
| `lifecycle_fill_lost`, `lifecycle_status_back`, `monitor_stale_marker`, `entry_limit` | as small as shows it | disagreements, section 4 |

Why the bounds are enough. *Execution*: trades share no row and no symbol and every guard
reads the rows of one trade, except the cursor over `fills` and the worker, which may
serve trades in any order; one trade shows every guard. Two lots are the least for a
partial fill and three for one on both sides of a cancelled entry's read-back. Two
attempts show a retry with the expiry. A day has three instants, regular hours, the EOD
window and the night; clock 4 is the second day's window. *Monitor*: a journal of two
ticks is full with the third owed one, and the second symbol evicts the first. *Joined
runs*: each component has the smallest instance in which its hazards occur: two bridges
for a hand-over, three minutes for a late tick, two requests for a race, one crash, one
fault or failed read, two days for what is carried over. A fault leads to states that the
fault-free rules must survive, and a second one to no new kind of state. The venue has one
time stamp there, for stamps are copied into fills and compared nowhere in it.
`CHECK_DEADLOCK FALSE` is set because the bounds (clock, attempts, candles, events) end
every behaviour. More faults, trades and attempts than these are not what TLC was asked;
the proofs of section 5 cover any number of them.

The properties of the execution core:

* `ledger`. `OneActiveClose`: the unique index on active closes is never the guard.
  `UnsentCancellationIsProof`, `MarkerRecordsDispatch`, `EvidenceImmutable`: evidence of
  dispatch. `ReduceOnly`: what sent closes may still fill plus their unreceipted fills
  never exceeds the position, and no entry works beside them. `AccountingAccepts`:
  `apply_fill` never refuses a fill of the ledger (it would block the cursor).
  `NoUnsafeExit`: the branches `UNSAFE` and "reason differs" are unreachable for
  reserved closes. `DispatchOnlyWhenPlaceable`, `StatusMovesForward`, `RetryDelayKept`:
  what a step may never do.
* `lifecycle_races`. `AtRestOrdersAgree`: at rest (idle worker, empty queue, everything
  applied) the ledger's statuses are the venue's. `ExitContract` and `LedgerContract`:
  refinement of the abstract exit and of the ledger under its own assumptions.
* `lifecycle_faults`. The same contracts with lost acknowledgements, roll-backs and a
  restart, and `AtRestPositionsAgree`: at rest each position is the venue's net lots. The
  statuses of orders are not claimed here: a lost `submitted` commit leaves the entry
  approved until its fill or the next start-up, as `engine.py:448-454` says.
* `lifecycle_liveness`. `ExitCompletes`, `PositionsFollowVenue`.
* `monitor`. `TouchNotLost`: a touch of an open position is in a slot, or in the journal to
  be read, or reported lost. `EodOnlyUntouched`: an EOD observation only where nothing
  journaled touches. `SlotContract`: the refinement. `TouchIsLatched`: liveness.

The properties of the joined runs are conjunctions, each part guarded by its component:

* `decisions`. `SnapshotSound` = `ReadyIsCurrent` (a ready snapshot is not behind the
  ledger) and `MarksAndClosings`. `RiskBounded` = `LimitUnlessBlind` (places are exceeded
  only by approvals decided before a commit was notified) and `LossStaysWithinCap` (open
  risk plus realised loss, but for slippage). `ChoiceSound`: a proposal's direction and
  stop are of one candle, is made once, a range is complete (`ProposalsSound`,
  `ProposedOnce`, `RangeComplete`); candidates under an outage or from before a reset are
  not shown, and outside of sessions none of a session before, unless the reader slept
  through that session (`CandidatesSound`; `_roll_session`, `candidate_observation.py:214`,
  compares sessions only when it is asked or told something); a candidate is accepted once, by a selection that chose it,
  attempts promote nobody, the choice fits and is told (`AcceptedOnce`,
  `AttemptsPromoteNobody`, `ChoiceFits`, `DecisionsTold`). `RecordsStand`: records, journal
  and claims are never taken back. `Settles`: the snapshot is ready again after any
  failure, the newest candle is evaluated.
* `market`. `PendingAgrees` and `UpdatesTellTheBook` of the venue; `DataTrue`, whose parts
  are listed by component in `MCMarket`: ticks are counted once in one minute of one source,
  rows and wider candles follow from minutes, touches and resolutions form a chain,
  features are made of each candle once over restarts, levels keep ids, the composite does
  not go back, replays leave no trace, measured messages are counted once. `SettledStays`:
  the venue's book is never rewritten and a level's id stays its own.
* `services`. `DeliveryKept`: order and inventory, by component in `MCServices`: lanes in
  order, what the feed says it has requested was requested, results are of live engines,
  additions are tracked, start and stop are whole, calls stay within the budget, roles
  belong to whoever is connected, outcomes are of whole trades.
  `NothingUndone`: restorations are complete, verdicts stand, nothing acts after its stop.
  `ServicesDeliver`: protected symbols are requested again, critical events get through
  past a hanging normal handler, every closed trade is judged; and trailing months are
  twelve (`TwelveMonths`, an invariant that stands here because `DeliveryKept` is the part
  that is also proved).

### Fairness

All fairness is weak, which is enough because each of these stays enabled until taken.

* `lifecycle_liveness`: the worker (an asyncio task that takes its next item or times out
  after 0.5 s and services the exits; its database calls return), Portfolio State's worker,
  start-up, the clock, and ticks of a symbol with a waiting order. The last is an assumption
  about the market and not about the code: without a tick no market order fills.
  Approvals, observations, crashes and faults are not fair. `ExitCompletes` allows one
  ending with the position open, an EOD request that expired without fallback (dormant, as
  the design intends); `BeyondClock` excludes attempts due after the bounded clock stops.
* `monitor`: `Work` and the recovery timer.
* `decisions`: the bus's delivery, Portfolio State's worker and its retry timer, the
  authorizer; the throttle's ceiling task, Market State's worker, delivery to strategies.
* `services`: the feed's supervisor, the calls under way, the reconciler and the
  notifications to it; the start of the bus and its critical consumer, and not the normal
  one, whose handler may hang; the recorder's start, scans, drain and worker. The scanner,
  context, lifespan and the rest have safety properties only.

## 4. Where code and documents disagree

1. **A failed `record_fill` loses the fill** (`lifecycle_fill_lost`).
   `engine.py:488-493` logs and returns; nothing retries. Design invariant I14 says
   "a venue-reported fill is never discarded". For this reason `lifecycle_faults`
   lets every step fail except this one.
2. **A late fill moves a terminal status back** (`lifecycle_status_back`).
   `fill_ledger.py:188` gives terminal statuses without a rank the value 0. If the
   read-back of a cancelled entry's fill fails to commit, the queued copy moves the
   order from `cancelled` to `partially_filled`. Design invariant I11 says "order status
   only moves forward". It takes the injected partial-fill planner.
3. **A closing fill leaves its symbol fill-pending** (`monitor_stale_marker`).
   `position_monitor/engine.py:515` marks the symbol of every fill, and only a visible
   position of that symbol removes the mark; after a full close there is none, and its
   ticks are owed for ever.
4. **Two approvals for one place** (`entry_limit`). The authorizer's next opportunity may be
   decided from the snapshot that precedes the notification of its last approval, and
   `commit_decision` does not look at the limit again; the design says "at any moment".

Other behaviour the models show, which properties excuse or which no run is spent on:

* Providers: a take-over looks at the old provider before an await and two may run at once
  (`broker_registry.py:172`); `disconnect` reads the provider again after an await
  (`market_data.py:129`); a failed take-over may leave a disconnected provider in the role;
  an IBKR adapter that lost both roles stays connected with no route to it (`broker.py:67`);
  two subscriptions of a symbol that race in IB's qualification request it twice
  (`ibkr_adapter.py:191`); a late poll after an unsubscription is recorded
  (`polygon_provider.py:297`); a bar that cannot be converted, or a callback that raises,
  ends Polygon's poll task while the feed counts as connected, and the bar stays recorded
  (`polygon_provider.py:298`), so `FirstTickComes` excuses it; ticks queued for a dropped symbol re-create its bar
  (`live_tick_relay.py:188`).
* Execution: a position's opening refuses an older tick (`accounting.py:132`); a close
  fill lost by finding 1 leaves its exit waiting; the loss of `PositionClosed` with the
  process; a position missing from the snapshot between commit and notice.
* Strategies: an evaluation repeated by the throttle's ceiling counts as a candle of the
  range (`orb_strategy.py:413`); Momentum's swing may lie on the wrong side of the entry,
  which `plan_entry` refuses; a level's stamp is written before its touches
  (`level_interaction_engine.py:573`); the composite may carry a candle none of its scores
  is from (`market_state_engine/engine.py:433`).
* Features: a failed read in the middle of a candle leaves earlier updates
  (`feature_engine/engine.py:1188`); the comment at `:661` says the date is stamped in any
  case, the code stamps only where nothing is kept; `candle_store.py:32` says an unreachable
  database is "caught and logged", and nothing catches it; the first two candles of a
  session share one elapsed minute in RVOL.
* Backtests: an entry candle is never checked for its own exit, against the module's "walk
  forward from the entry candle"; a fill beyond the stop (`fill_simulator.py:203`) counts
  the stop as its exit, at a profit; a provider that comes or goes at the end of a replay is
  undone by the restore (`historical_provider_guard.py:119`).
* Process: a crashed loop makes the context engine's stop raise and `main.py:557` does not
  guard it, so the rest of the shutdown is left out; during a rollback engines take entries
  while their venue is unregistered (`main.py:471`).
* Measurement, fundamentals, outcomes: messages handled while the socket closes are counted
  past the end the report tells (`streaming_coverage.py:1285`); a loss quarter within a year
  is taken for the beginning of one, against "never mid-year"
  (`fundamentals_derivation.py:100`); a trade judged while its entry order has a remainder
  is blocked for good, although the remainder may be cancelled later
  (`outcome_recorder.py:388`).

## 5. What is proved

TLAPS checks each theorem below for every value of the constants that the named
assumption allows; TLC checked the invariants on small instances first. Theorems marked
with a property state one that a run checks.

| Module | Assumes | Theorems |
|---|---|---|
| `ExecutionLedgerProofs` | `LedgerAssumption`: positive quantities, an EOD window that is not empty and lies in regular hours | `TypeCorrect` (`TypeOK`), `Inductive` (`IInv`), `OneActiveCloseTheorem`, `UnsentCancellationTheorem`, `MarkerTheorem`, `EvidenceTheorem`, `RetryDelayTheorem`, `DispatchTheorem`, `StatusTheorem`; of the quantities `AccountsInductive` (`AInv`), `AccountingTheorem` (`AccountingAccepts`), `ReduceOnlyTheorem` (`ReduceOnly`), `UnsafeExitTheorem` (`NoUnsafeExit`), `BooksTheorem` |
| `LifecycleProofs` | `LedgerAssumption`, `LifecycleAssumption`, and `record_fill` not among `FaultySteps`: finding 1 shows that the theorems fail with it. Every other database step may fail, any number of processes may crash | `LifecycleInductive` (`LInv`), `LifecycleTypes` (`LifecycleTypeOK`), `LedgerContractTheorem` (`LedgerContract`), `PositionsAgree` (`AtRestPositionsAgree`), `ExitContractTheorem` (`ExitContract`), `VenueNeverReverses`, `LedgerKeptTheorem`, `StatusOnlyForward` (`OrderStatusOnlyForward`), `NoFillLost` (`NoFillDiscarded`). Also with `ack` and `set_status` not among `FaultySteps`: `OrdersAgree` (`AtRestOrdersAgree`) |
| `ReduceOnlyExit` | nothing | `NeverReverses` of the abstract exit |
| `DataPathProofs` | `VenueAssumption`, `TickAssumption`, `CompositeAssumption`, `RequestAssumption`, `SeriesAssumption`, `PipelineAssumption`: bounds are numbers, the named values are apart, candles are of numbers | of the venue `VenueInductive` (`VenueInv`), `VenueTypeTheorem` (`TypeOK`), `PendingTheorem` (`PendingAgrees`), `UpdatesTheorem` (`UpdatesTellTheBook`), `BookTheorem` (its part of `SettledStays`); lemmas about the others |
| `MarketProofs` | the same, `RelayAssumption` and `CoverageAssumption` | `PartsAreTrue` (seven parts of `DataTrue`) |
| `DecisionsProofs` | `PortfolioAssumption`, `AuthorizationAssumption`, `RulesAssumption`, `CandidateAssumption`, `SelectionAssumption`, `SignalsAssumption` | `DecisionsInductive` (`DecisionsInv`), `TypesAlwaysOK` (`TypesOK`), `SnapshotAlwaysSound` (`SnapshotSound`), `RiskAlwaysBounded` (`RiskBounded`), `ChoiceAlwaysSound` (`ChoiceSound`), `RecordsAlwaysStand` (`RecordsStand`) |
| `ServicesProofs` | the assumption each service's module names: periods, budgets, lots, pages and clocks are positive, bounds are natural numbers, a company earns for all quarters it may report first | `ServicesInductive` (`ServicesInv`), `DeliveryIsKept` (`DeliveryKept`), `NothingIsUndone` (`NothingUndone`), `ServicesTypeCorrect` (`TypeOK` of `MCServices`) |
| `PositionMonitorProofs` | `MonitorAssumption`: numbers are numbers, limits are positive, the EOD window is not empty | `MonitorInductive` (`MonitorInv`), `MonitorTypeTheorem` (`TypeOK`), `TouchTheorem` (`TouchNotLost`), `EodTheorem` (`EodOnlyUntouched`), `SlotContractTheorem` (`SlotContract`) |

### The ledger

The properties are not inductive: "a closed window was never sent" needs
that a marker means sent, which needs that a request precedes its closes, which needs
that attempts are numbered without gaps. `IInv` adds these per trade (`TradeInv`):

* `FreshLegs`: a leg beyond the attempt counter has no row, so a reservation never
  overwrites one;
* `AtMostOneActive`, `RequestComesFirst`, `SentExists`;
* `MarkerIsSent`: in an EOD lifecycle marker and `sent` coincide;
* `WindowClosedUnsent`: a row cancelled for its window was not sent, and is final;
* `CloseShape`: a close has a reason and a quantity, and an EOD close an EOD request;
* `RequestClock`: an expiry is never recorded early, and a retry delay never exceeds
  the present by more than `RetryDelay`.

Instead of checking every conjunct for every action, `EveryTradeSteps` shows that any
step, seen from one trade, is one of four kinds: its rows *move* forward, it *stores* a
request, *reserves* a close, or *dispatches* one. Four lemmas show that each kind keeps
`TradeInv`, and the action properties follow from the kinds.

### Its accounting

`ReduceOnly`, `AccountingAccepts` and `NoUnsafeExit` relate rows to `fills`, the cursor
and `position`. `AInv` is `IInv` and, per trade, `Accounts`:

* `FillsKnown`, `LotsNumbered`, `FillsInOrder`: an order with fills has been submitted,
  its fills are its lots 1, 2, ... without gap or repetition and no more than it was for,
  and a trade's fills have the order of their exchange times;
* `OpenedByFill`, `PositionShape`: a position was opened by a receipted entry fill, and it
  has lots exactly while it is open or closing;
* `EntryOver`, `Covered`, `ReservedWhole`: once a close was ever reserved no entry works
  and none of its fills waits for a receipt; what the active close may still sell, and what
  closes sold without receipt yet, is within the position; a close not yet sent is for the
  whole of it;
* `ReasonInForce`: an EOD close not yet sent has the reason of the request in force.

Fills are counted as sets of positions in `fills` (`FillsOf`, `PendingLots`), so that a
step adds or removes one element and the library's facts about cardinalities apply; sums
over a sequence would need induction.

`BooksTheorem` adds what only the composition needs (`Books`): the lots of an order are
recorded in their order, no fill is of the future, an entry's row is for its full quantity,
and position, unreceipted entry fills and lots sold always balance what was bought.

### The lifecycle

`LInv` is an invariant of the whole process: the ledger's `BooksInv` with

* `BookRow`, `WaitingOne`: how an order of the venue's book stands, and that a symbol has at
  most one order in the market, the one that waits for its ticks;
* `Linked`: an order of the book was permitted by the ledger, has a row of the same
  quantity, no more lots recorded than filled, and a row no longer active only when the
  venue has no more to tell of it (`Over`);
* `LateLots`: a lot not yet recorded is no older than those that are, so `record_fill` and
  later `apply_fill` meet times in order;
* `QueueTells`, `QueueInOrder`, `QueueHolds`: the queue tells of each order's lots in order,
  its cancellation last, and holds every lot the ledger lacks;
* `WorkerInv`: what the worker holds across an await is still true after it, and the fills
  it read back with a cancellation (`ReadBack`) are the last lots of an entry that works no
  more;
* `Alive` or `Done`: in a running process a trade has all its fills from this process, or
  was over before it began. `Recover` establishes it, by blocking otherwise;
* `PendingInv`, `Modes`.

`LInvStep` has one lemma per action. Ledger steps reach it through a few facts each about
the tables (`PlacedMoves`, `TickMoves` for the venue), not through their definitions.

`LedgerContractTheorem` is the refinement of `ExecutionLedger`: each guard the ledger's
environment has (a report is about an order that was permitted and still works, ticks do
not go back) is derived from `LInv`. With it `LedgerKeptTheorem` carries the ledger's
theorems over to the process. `StatusOnlyForward` needs `Linked`: a fill is recorded only
while its row is active, so `fill_ledger.py:188` never sees the statuses it has no rank for.

`ExitContractTheorem` maps the lots held, `entering` and `closing` to the venue's book. Every
action is shown to leave the three counters alone (`ExitStands`) or to be one step of the
abstract exit: a tick fills one lot of the one order in the market (`TickRefines`), a
placement needs that nothing is held for an entry, and for a close that what is held is
exactly what it is for (`PlaceEntryRefines`, `PlaceCloseRefines`), a crash empties the book
(`CrashRefines`). The lots held at the venue are counted as sets of lot numbers
(`NetLotsAre`), and agree with `Balance` of the ledger when the queue is empty
(`PositionsAgree`).

`OrdersAgree` needs one invariant more, `FollowInv`: the status of an order that the venue
knows is where its recorded lots have brought it, or what the venue ended it with, or its
cancellation is on its way, in the queue or in the worker's hands; while the worker holds an
acknowledgement, the row is still approved and without lots. A crash between venue and
ledger leaves no trace of this in the book, which is lost with the process. The theorem
supposes `ReportsRecorded`: a status that fails to be recorded is not reported again.

### The venue

`PendingAgrees` and the book need each other: a tick fills whatever waits, and a fill of an
order that is not open would break the book. `VenueInv` joins the types, `PendingSound` (an
order waits exactly while it is open, once) and `OrderSound` (how status, quantity and
fills of an order go together). `Keep` is defined by ranks instead of `SelectSeq`, about
which nothing can be proved without induction; `RanksDistinct` and `RanksTaken` show that
it keeps what it should, once.

### The data path

`PartsAreTrue` is about the behaviours of `MarketSpec` whose component is one of
`ProvedParts`; each has an inductive invariant of its own, and a step of one component is
that component's (`PartsMove`). What each invariant adds to its part of `DataTrue`:

* the bridges (`TickInv`): a bridge is in one hand at a time, a task that closes a bucket
  holds what it closes (`ClosingHolds`, `HeldIsClosed`), an open bucket is ahead of every
  candle closed (`BucketAhead`), and a bridge not yet made or retired stands still;
* the live relay (`RelayInv`): the ticks of a bar have been numbered;
* the pipeline of a backtest (`PipelineInv`): `Progress`, the places a candle's work can be
  in between the three lanes, of which exactly one holds;
* the composite (`CompositeInv`): the newest candle of a ticker is in its state, on its way
  there, or left out, and so are trend and composite after it;
* replays (`GuardInv`): who holds the run lock and who waits for it (`LockUse`), that the
  engine is the one the holder installed (`EngineOf`), and what its restoring has put back
  (`Traces`);
* a run (`RunInv`): outcomes and the open trade are of distinct signals in their order, and
  each is the trade the simulator makes of the candles after its signal (`RunFits`);
* a measurement (`CovInv`): what is counted where (`CovWindow`, `CovEnds`, `CovBackend`).

Sums over channels and candles are folds: `SumsExist` and `SumsAgree` show, by induction on
the number of elements as a fact about the least failing number, that a sum exists and does
not depend on the element taken next, `SumChanged` what one changed summand makes of it.

### The Position Monitor

`TouchNotLost` speaks of open positions. Its invariant must speak of more, and of less:

* `TouchesKept` speaks of every position that is `Minded`: open, or closed in the ledger
  and still held in the snapshot, because a reading in between looks at it as open;
* `RecentKept`: every tick younger than the retention is journaled, or told lost. It is
  what a position that opens *now* starts from: ticks that may touch it are not of before
  this instant, no tick is of the future, and the retention is positive;
* `TicksSound`, `PositionsSound`, `JournalSound`, `MarkersSound`: arrivals are numbered in
  the order of time; nothing is read beyond the last arrival; what the snapshot holds was
  opened; both limits hold;
* `QueueSound`: one wake-up of a kind is queued; `SlotsTyped`: no slot is half empty;
  `LossTold`.

`ReplayFacts` says what one replay does to a position and to a symbol's journal
(`Replayed`, `Pruned`); every lemma on `Process` rests on it and on nothing of its
definition. Least and greatest ticks exist because the naturals are well-founded
(`LeastExists`), for a journal is finite.

`SlotContractTheorem` is a refinement: the states of the slots, `visible` and `closed`
implement `ExitObservations`. `ProcessReads` shows that what replay, candle and pulse do
together is one reading: forget, leave, or fill one slot of an open position. The other
four steps correspond to the consumer's calls, and everything else stutters.

### The decisions

Every safety property of the run `decisions` is a theorem. The five stages share no
variable, so `DecisionsInv` joins five invariants and `StagesMove` shows that a step of one
is a stutter of the others.

*Portfolio State and the authorizer* (`PortfolioInv`). `ReadyIsCurrent` speaks of ready
snapshots, but the worker earns them while it is not ready:

* `CacheSound`: what is installed is the ledger at its cursor;
* `WorkerSound`: every entry reserved when the worker woke up is counted, over, announced,
  or in the batch still to be applied (`Heeded`), and the batch is the next stretch of
  `fills`; `FillsTold`: a fill of after that wake-up has its notification on the way;
* `ClosingsSound`: a closing announced is the receipt of one fill, and `FillsSound`: an
  entry is filled and closed once, in this order. This is why no closing is told twice;
* `DecisionSound` and `LimitKept`: only the one opportunity in hand may reserve, and from
  decision to commit exposures only end, so the place that was free (`PlaceLeft`) still is.

*Rules on losses* (`RulesInv`). `LossStaysWithinCap` is inductive once types are known and
no two exposures are of one symbol. The work is in its sums. `MapThenSumSet` is recursive
over sets, and the library's induction is out of reach here, so a total is characterised
as a function on the subsets of a finite set (`IsTotal`: a set has the value of one element
more than the set without it). That such functions exist (`TotalExists`), that they agree
where their values do (`TotalsAgree`), add up (`TotalsAdd`) and are compared (`TotalsLess`) is
shown each time by a smallest counterexample, for sets are finite and numbers well-founded;
`RiskIsTotal` and `WorstIsTotal` connect them with the fold. A fill at another price than the planned one adds to the
risk what it adds to `slippage`, no more.

*Candidates* (`CandidateInv`). The properties, their types, and that no candle is before the
boundary of a reset. TLC and this proof corrected a first form of `ShownIsOfSession`, which
did not allow for a session that passes while nobody asks.

*Selection* (`SelectionInv`). A selection that was made is what `Selected` and `Reasons` say
of its own inputs, with rows and claims typed; groups of conflicting survivors cover them
(`GroupsCover`).

*Strategies* (`SignalsInv`). `ProposedOnce` needs `ProposalsKept`: what was proposed today is
remembered (`Fired`), and `StatesSound`: a state on its way is of the latest candle, and then
of its side, or older and ignored. `RangeComplete` is proved by counting: a candle of the
opening window is counted once unless a candle was evaluated again, so a count of all of
them means that the window is a subset of what was evaluated (`WindowWhole`).

The constants' assumptions say no more than the code: slots, notional, loss cap and prices
are positive (the validator in `core/config.py:314-324`, a tick without a positive price is
not taken), ids and lists are finite, minutes and counts are numbers, and a session is
named by a time not after the instants in it.

### The services

The types of the run `services` and its two safety properties are theorems. The
components share no variable, and `MovesAlone` shows that a step of one is a stutter of all
others, so `ServicesInv` joins eleven invariants, each proved for itself:

* *Bus* (`BusInv`): the events of a lane are sorted by number, from the one in the
  consumer's hands to the last in the queue, and what a handler got of a lane is before all
  of them (`ReceivedBefore`), so the next one it gets is later.
* *Protected feed* (`FeedInv`): who holds the send lock and what the frame on its way is for
  (`SenderKnown`), so what is in the inventory of a socket was sent on this socket
  (`InventoryFollowed`); a restoration still has to send what it has not sent
  (`RestoreFollowed`); the reconciler that goes to sleep looked after the last news
  (`CycleFollowed`).
* *Scanner* (`ScanInv`): a worker's generation against the running one, and the outcome an
  attempt is going to record (`AttemptFollowed`). *Request for history* (`BatchInv`): what
  was read is streamed, or still to be asked.
* *Context* (`ContextInv`): the order in which a stop cancels (`StoppedInOrder`), and for
  each addition under way what a refresh would see of it (`RefreshSees`).
* *Outcomes* (`RecorderInv`): what the worker is about to record is of a trade that is
  closed, and what it holds of an entry tells a closing only of such a trade
  (`ItemHonest`); a snapshot of an entry is taken before its trade closes, an outcome is of
  all its fills.
* *Lifespan* (`LifespanInv`): what is up and who takes entries, at every step of start-up,
  roll-back and shutdown.
* *Polling* (`BudgetInv`): the deque of the limiter is the tail of all calls granted, and
  what was dropped from it is a period old. So each call granted is a period later than the
  one a budget before it (`CallsWithinBudget`). `TicksInv`: a watched symbol's last tick is
  of no newer bar than the one last recorded, and a bar recorded without a tick is of a
  poll that was under way when the symbol was given up, or of one that ended the task.
* *Roles* (`RolesInv`): what each route's call found and still has to do, and the adapters it
  made; `Sequential` states what holds when at most one route is under way.
* *Fundamentals* (`FundamentalsInv`): figures are never of a later quarter than is filed, a
  request under way read no less than what is installed. *IBKR* (`IBKRInv`): a symbol that
  one call asks for is not requested before that call requests it (`AskedOnce`).

The types (`ServicesTypeCorrect`) take a second invariant, `ServicesCounted`, on top of
`ServicesInv`: what counts is within its bound. It is inductive only with what makes the
counting right: a scanner's generation is odd exactly while it runs, so a start within the
bound leaves room for its stop; calls to IB that may still ask for a symbol are counted
with its requests (`AskersOf`); an entry that is "working" has a lot left; the queue of the
recorder holds keys, which its pages of closed trades are shown to be (`ListedIn`: a
finite set of numbers is listed by rank, by the pigeonhole principle).

### What is only model-checked

Liveness, which is out of the prover's reach (`ExitCompletes`, `PositionsFollowVenue`,
`TouchIsLatched`, `Settles`, `ServicesDeliver`). Of `market`: `IdsKept` and the parts of
`DataTrue` about candle storage, the session clock, levels and their signals, features,
daily levels and fetched history.
`TwelveMonths`, whose figures are `FoldSeq` over the history of a company: what a
recursion over data computes for every input needs induction, which the provers cannot do.
`Merged` likewise.

## 6. What is not modelled, and what is left

* Execution: malformed or foreign events, the unused hand-off `on_exit_intent`, graceful
  stop, broker venues, overfills, configuration changes between restarts, reconciliation
  against a venue that kept its book (no caller keeps one), `portfolio_state/legacy.py`
  beyond the two helpers the ledger uses.
* Monitor: `stop()`, which drains the queue by the same handlers; incident records.
* Decisions: start and stop of the authorizer, evidence and its validation, ranking
  evidence, confidence scores, sizes of numbers. Nothing in the application calls ranking
  and selection yet but the audit.
* Features: the arithmetic of indicators. A feature is the set of candles it is made of.
* Routes that only read, acceptance harnesses, the frontend, migrations, scripts:
  presentation or tools around the system, with no state of the program.
* Composition of the joined components: bus, bridge and features are each checked alone,
  with any input the others may give. A run that composes the bus's lanes with bridge,
  recorder and feature worker would be the next step, then the lost fill of a close with
  several lots, and debounce with backtests.

Proofs left: the seven other parts of `DataTrue`, and `IdsKept`.

## 7. Running

```
tlc -config MCLifecycleRaces.cfg MCExecutionLifecycle.tla
tlc -config MCServices.cfg MCServices.tla
tlapm PositionMonitorProofs.tla
tlapm DecisionsProofs.tla
tlapm LifecycleProofs.tla
tlapm MarketProofs.tla
```

The largest runs (`market`, `services`, `decisions`) have about a million states and take
some two minutes each with two workers.
