-------------------------- MODULE ExecutionLifecycle --------------------------
(***************************************************************************)
(* One process of the application: the execution engine's worker and its   *)
(* queue (execution_engine/engine.py), the simulated venue, Portfolio      *)
(* State's worker and the restart sequence of main.py, composed over the   *)
(* execution ledger.                                                       *)
(*                                                                         *)
(* The worker runs on the event loop and awaits one database transaction   *)
(* at a time.  Between two of its awaits ticks fill orders at the venue,   *)
(* callbacks enter the queue, Portfolio State commits receipts and the     *)
(* clock advances, so each transaction and each venue call is a step.      *)
(* The venue's methods never suspend: what follows one up to the next      *)
(* await belongs to the same step.                                         *)
(***************************************************************************)
EXTENDS ExecutionLedger

CONSTANTS
  MaxDeliveries,  \* deliveries of one OrderApproved event
  MaxCrashes,     \* bound on the process's crashes
  MaxFaults,      \* bound on failed database steps
  FaultySteps     \* the database steps that may fail

VARIABLES
  connected, listening, book, waiting,                  \* the venue
  queue,      \* the engine's queue: approvals, venue updates and wake-ups
  worker,     \* where the worker is, with the locals it holds there
  pending,    \* pending[p]: the monitor's unacknowledged intents, oldest first
  mode,       \* "down", "starting", "ready" or "blocked"
  delivered,  \* delivered[p]: deliveries of the trade's OrderApproved
  crashes, faults

Venue == INSTANCE SimulatedVenue
           WITH MaxLots <- EntryQty, Stamps <- Times, dispatched <- queue

ledgerVars == vars  \* the tables, the clock and the permissions
bookVars == <<connected, listening, book, waiting>>
venueVars == <<connected, listening, book, waiting, queue>>
boundVars == <<delivered, crashes, faults>>
lifecycleVars == <<ledgerVars, venueVars, worker, pending, mode, boundVars>>

DbSteps == {"insert", "ack", "record_fill", "set_status", "observe", "prepare", "claim"}

ASSUME LifecycleAssumption ==
  /\ MaxDeliveries \in Nat
  /\ MaxCrashes \in Nat
  /\ MaxFaults \in Nat
  /\ FaultySteps \subseteq DbSteps

Approval(p) == [type |-> "approved", trade |-> p]
Wake == [type |-> "wake"]

Idle == [step |-> "idle"]
Servicing(todo) == [step |-> "service", todo |-> todo]
(* The worker at `step' of the exit of p, with the other positions to do. *)
At(step, p, n) == [step |-> step, trade |-> p, leg |-> n, todo |-> worker.todo \ {p}]
NextPosition == worker' = Servicing(worker.todo \ {worker.trade})

LifecycleInit ==
  /\ Init
  /\ Venue!Init
  /\ worker = Idle
  /\ pending = [p \in Trades |-> <<>>]
  /\ mode = "down"
  /\ delivered = [p \in Trades |-> 0]
  /\ crashes = 0
  /\ faults = 0

(***************************************************************************)
(* A database step: the transaction commits and returns, or the worker     *)
(* sees an exception, and then the transaction was rolled back or its      *)
(* acknowledgement was lost.                                               *)
(***************************************************************************)
DbStep(name, Transaction, Success, Failure) ==
  \/ Transaction /\ Success /\ UNCHANGED faults
  \/ /\ name \in FaultySteps /\ faults < MaxFaults
     /\ faults' = faults + 1
     /\ Transaction \/ UNCHANGED ledgerVars
     /\ Failure

NoChange == UNCHANGED ledgerVars

(* set_status, update_order_status and record_fill, no-ops included. *)
SetStatusTx(p, n, status) ==
  IF StatusChanges(p, n, status) THEN SetStatus(p, n, status) ELSE NoChange
EntryStatusTx_OnlySubmitted(p, status) ==
  IF status = "submitted" /\ AckAdvances(orders[p][0].status, status)
  THEN UpdateEntryStatus(p, status) ELSE NoChange
EntryStatusTx(p, status) ==
  IF AckAdvances(orders[p][0].status, status)
  THEN UpdateEntryStatus(p, status) ELSE NoChange
RecordFillTx_OncePerOrder(u) ==
  IF FillsOf(u.trade, u.leg) # {} THEN NoChange
  ELSE RecordFill(u.trade, u.leg, u.lot, u.ts)
RecordFillTx_AssumesNext(u) ==
  LET next == Cardinality(FillsOf(u.trade, u.leg)) + 1 IN
  IF next > orders[u.trade][u.leg].qty THEN NoChange
  ELSE RecordFill(u.trade, u.leg, next, u.ts)
RecordFillTx(u) ==
  IF Recorded(u.trade, u.leg, u.lot) THEN NoChange
  ELSE RecordFill(u.trade, u.leg, u.lot, u.ts)

(***************************************************************************)
(* The worker: _worker_loop.                                               *)
(***************************************************************************)
WorkerAt(step) == mode = "ready" /\ worker.step = step
Take(type) == /\ WorkerAt("idle")
              /\ queue # <<>> /\ Head(queue).type = type
              /\ queue' = Tail(queue)

(* _process_one up to the venue: a duplicate delivery ends here. *)
TakeApproval ==
  /\ Take("approved")
  /\ LET p == Head(queue).trade IN
     IF orders[p][0].status # "none"
     THEN NoChange /\ UNCHANGED <<worker, faults>>
     ELSE DbStep("insert", InsertEntry(p),
                 worker' = [step |-> "place_entry", trade |-> p], UNCHANGED worker)
  /\ UNCHANGED <<bookVars, pending, mode, delivered, crashes>>

PlaceEntry ==
  /\ WorkerAt("place_entry")
  /\ Venue!PlaceOrder(worker.trade, 0, EntryQty, now \in RegularSession)
  /\ worker' = [step |-> "ack_entry", trade |-> worker.trade,
                ack |-> Venue!Ack(book'[worker.trade][0])]
  /\ UNCHANGED <<ledgerVars, pending, mode, boundVars>>

AckEntry ==
  /\ WorkerAt("ack_entry")
  /\ DbStep("ack", EntryStatusTx(worker.trade, worker.ack), worker' = Idle, worker' = Idle)
  /\ UNCHANGED <<venueVars, pending, mode, delivered, crashes>>

(* _process_venue_update: a fill that cannot be recorded is logged and     *)
(* dropped, like a status that cannot be set.                              *)
TakeUpdate ==
  /\ Take("update")
  /\ LET u == Head(queue) IN
     IF u.lot > 0
     THEN DbStep("record_fill", RecordFillTx(u), UNCHANGED worker, UNCHANGED worker)
     ELSE DbStep("set_status", SetStatusTx(u.trade, u.leg, "cancelled"),
                 UNCHANGED worker, UNCHANGED worker)
  /\ UNCHANGED <<bookVars, pending, mode, delivered, crashes>>

(* _service_exits runs on a wake-up, and when the queue stays empty for    *)
(* half a second; it works through the observations pending at its start.  *)
BeginObservations_WakeOnly ==
  /\ Take("wake")
  /\ worker' = [step |-> "observe", left |-> [p \in Trades |-> Len(pending[p])]]
  /\ UNCHANGED <<ledgerVars, bookVars, pending, mode, boundVars>>
BeginObservations ==
  /\ WorkerAt("idle")
  /\ \/ queue = <<>> /\ UNCHANGED queue
     \/ Take("wake")
  /\ worker' = [step |-> "observe", left |-> [p \in Trades |-> Len(pending[p])]]
  /\ UNCHANGED <<ledgerVars, bookVars, pending, mode, boundVars>>

Released == {"window_closed", "position_closed", "invalid"}

(* A failed commit, or WINDOW_NOT_OPEN, keeps the position's slots. *)
ObserveOne(p) ==
  LET intent == Head(pending[p])
      result == ObserveResult(p, intent.reason, intent.ts, TRUE)
      keep == /\ worker' = [worker EXCEPT !.left[p] = 0]
              /\ UNCHANGED pending
      done == /\ worker' = [worker EXCEPT !.left[p] = @ - 1]
              /\ pending' = [pending EXCEPT ![p] = Tail(@)]
  IN /\ WorkerAt("observe")
     /\ worker.left[p] > 0
     /\ DbStep("observe", ObserveExit(p, intent.reason, intent.ts, TRUE),
               IF result \in Acknowledged \cup Released THEN done ELSE keep, keep)
     /\ UNCHANGED <<venueVars, mode, delivered, crashes>>

(* pending_exit_position_ids *)
Serviceable(p) == /\ request[p].reason # "none"
                  /\ ~Flat(p)
                  /\ ~(/\ Lifecycle(request[p])
                       /\ request[p].expired
                       /\ request[p].fallback = "none")

BeginService ==
  /\ WorkerAt("observe")
  /\ \A p \in Trades : worker.left[p] = 0
  /\ worker' = Servicing({p \in Trades : Serviceable(p)})
  /\ UNCHANGED <<ledgerVars, venueVars, pending, mode, boundVars>>

EndService ==
  /\ WorkerAt("service")
  /\ worker.todo = {}
  /\ worker' = Idle
  /\ UNCHANGED <<ledgerVars, venueVars, pending, mode, boundVars>>

(* _service_exit_position *)
Prepared(p) ==
  CASE PrepareResult(p) = "cancel_entry" -> At("cancel_entry", p, 0)
    [] PrepareResult(p) = "submit" ->
         At("claim", p, FirstActiveClose(OrdersAfterExpiry(p)))
    [] PrepareResult(p) = "reserve" -> At("claim", p, position[p].attempt + 1)
    [] OTHER -> Servicing(worker.todo \ {p})

Prepare(p) ==
  /\ WorkerAt("service")
  /\ p \in worker.todo
  /\ DbStep("prepare", PrepareExit(p),
            worker' = Prepared(p), worker' = Servicing(worker.todo \ {p}))
  /\ UNCHANGED <<venueVars, pending, mode, delivered, crashes>>

(* The working entry is cancelled and its fills read back in one go ... *)
CancelEntry_NoReadBack ==
  /\ WorkerAt("cancel_entry")
  /\ Venue!CancelOrder(worker.trade, 0)
  /\ worker' = [step |-> "record_entry", trade |-> worker.trade, todo |-> worker.todo,
                lots |-> <<>>]
  /\ UNCHANGED <<ledgerVars, pending, mode, boundVars>>
CancelEntry ==
  /\ WorkerAt("cancel_entry")
  /\ Venue!CancelOrder(worker.trade, 0)
  /\ worker' = [step |-> "record_entry", trade |-> worker.trade, todo |-> worker.todo,
                lots |-> Venue!FillReports(worker.trade, 0)]
  /\ UNCHANGED <<ledgerVars, pending, mode, boundVars>>

(* ... recorded one by one ... *)
RecordEntryFill ==
  LET next == worker' = [worker EXCEPT !.lots = Tail(@)] IN
  /\ WorkerAt("record_entry")
  /\ worker.lots # <<>>
  /\ DbStep("record_fill", RecordFillTx(Head(worker.lots)), next, next)
  /\ UNCHANGED <<venueVars, pending, mode, delivered, crashes>>

(* ... and the ledger's order is cancelled if the venue's is. *)
EntryCancelled ==
  /\ WorkerAt("record_entry")
  /\ worker.lots = <<>>
  /\ IF Venue!StatusReport(worker.trade, 0) \in {"none", "cancelled"}
     THEN DbStep("set_status", SetStatusTx(worker.trade, 0, "cancelled"),
                 NextPosition, NextPosition)
     ELSE NoChange /\ NextPosition /\ UNCHANGED faults
  /\ UNCHANGED <<venueVars, pending, mode, delivered, crashes>>

Claim_PlacesOnError ==
  LET p == worker.trade
      n == worker.leg
      send == worker' = At("place_close", p, n)
  IN /\ WorkerAt("claim")
     /\ DbStep("claim", ClaimDispatch(p, n),
               IF ClaimResult(p, n) = "claimed" THEN send ELSE NextPosition, send)
     /\ UNCHANGED <<venueVars, pending, mode, delivered, crashes>>
Claim ==
  LET p == worker.trade
      n == worker.leg
      claimed == ClaimResult(p, n) = "claimed"
  IN /\ WorkerAt("claim")
     /\ DbStep("claim", ClaimDispatch(p, n),
               IF claimed THEN worker' = At("place_close", p, n) ELSE NextPosition,
               NextPosition)
     /\ UNCHANGED <<venueVars, pending, mode, delivered, crashes>>

PlaceClose ==
  LET p == worker.trade
      n == worker.leg
  IN /\ WorkerAt("place_close")
     /\ Venue!PlaceOrder(p, n, orders[p][n].qty, now \in RegularSession)
     /\ worker' = [step |-> "ack_close", trade |-> p, leg |-> n, todo |-> worker.todo,
                   ack |-> Venue!Ack(book'[p][n])]
     /\ UNCHANGED <<ledgerVars, pending, mode, boundVars>>

AckClose ==
  /\ WorkerAt("ack_close")
  /\ DbStep("ack", SetStatusTx(worker.trade, worker.leg, worker.ack),
            NextPosition, NextPosition)
  /\ UNCHANGED <<venueVars, pending, mode, delivered, crashes>>

Worker ==
  \/ TakeApproval \/ PlaceEntry \/ AckEntry \/ TakeUpdate
  \/ BeginObservations \/ (\E p \in Trades : ObserveOne(p)) \/ BeginService
  \/ (\E p \in Trades : Prepare(p)) \/ CancelEntry \/ RecordEntryFill
  \/ EntryCancelled \/ Claim \/ PlaceClose \/ AckClose \/ EndService

(***************************************************************************)
(* The worker's surroundings.                                              *)
(***************************************************************************)
(* The bus delivers OrderApproved, a second time perhaps. *)
Approve(p) ==
  /\ mode = "ready"
  /\ delivered[p] < MaxDeliveries
  /\ delivered' = [delivered EXCEPT ![p] = @ + 1]
  /\ queue' = Append(queue, Approval(p))
  /\ UNCHANGED <<ledgerVars, bookVars, worker, pending, mode, crashes, faults>>

(* A tick on the symbol of p. *)
MarketTick(p) ==
  /\ mode = "ready"
  /\ Venue!IngestTick(p, now)
  /\ UNCHANGED <<ledgerVars, worker, pending, mode, boundVars>>

(* Position Monitor latches an EOD and a protective observation of an open *)
(* position, once each and no EOD one after a protective one, and wakes    *)
(* the worker.  Its price evaluation is abstracted: any touch may happen.  *)
Observable_NotLatched(p, reason) ==
  /\ ~Flat(p)
  /\ request[p].reason = "none"
Observable(p, reason) ==
  /\ ~Flat(p)
  /\ request[p].reason = "none" \/ (/\ reason \in Protective
                                    /\ Lifecycle(request[p])
                                    /\ request[p].fallback = "none")
  /\ \A i \in DOMAIN pending[p] :
       pending[p][i].reason = "eod_flatten" /\ reason # "eod_flatten"
  /\ reason = "eod_flatten" => /\ EodFlattenAt[position[p].opened] <= now
                               /\ now < EodCloseAt[position[p].opened]

Latch(p, reason) ==
  /\ mode = "ready"
  /\ Observable(p, reason)
  /\ pending' = [pending EXCEPT ![p] = Append(@, [reason |-> reason, ts |-> now])]
  /\ queue' = Append(queue, Wake)
  /\ UNCHANGED <<ledgerVars, bookVars, worker, mode, boundVars>>

(* Portfolio State's worker, from its start-up restore on. *)
ApplyNextFill ==
  /\ mode \in {"starting", "ready"}
  /\ CommitFill
  /\ UNCHANGED <<venueVars, worker, pending, mode, boundVars>>

Clock ==
  /\ Tick
  /\ UNCHANGED <<venueVars, worker, pending, mode, boundVars>>

(***************************************************************************)
(* Crash and restart.  The venue's book, the queue and the monitor's slots *)
(* live in the process; only the ledger survives.                          *)
(***************************************************************************)
Crash ==
  /\ mode \in {"starting", "ready"}
  /\ crashes < MaxCrashes
  /\ crashes' = crashes + 1
  /\ mode' = "down"
  /\ connected' = FALSE
  /\ listening' = FALSE
  /\ book' = [p \in Trades |-> [n \in Legs |-> Venue!NoSimOrder]]
  /\ waiting' = [p \in Trades |-> <<>>]
  /\ queue' = <<>>
  /\ worker' = Idle
  /\ pending' = [p \in Trades |-> <<>>]
  /\ UNCHANGED <<ledgerVars, delivered, faults>>

Start ==
  /\ mode = "down"
  /\ mode' = "starting"
  /\ Venue!Connect
  /\ UNCHANGED <<ledgerVars, worker, pending, boundVars>>

(* reconcile_with_venue, after Portfolio State applied every fill, against *)
(* the new, empty book: any open position is a discrepancy, and so is an   *)
(* approved close that was marked or no longer fits its position.          *)
Discrepancy_OrdersOnly(p) ==
  \E n \in CloseLegs : /\ orders[p][n].status = "approved"
                              /\ \/ orders[p][n].dispatched
                                 \/ position[p].status = "closed"
                                 \/ position[p].qty # orders[p][n].qty
Discrepancy(p) ==
  \/ ~Flat(p)
  \/ \E n \in CloseLegs : /\ orders[p][n].status = "approved"
                                 /\ \/ orders[p][n].dispatched
                                    \/ position[p].status = "closed"
                                    \/ position[p].qty # orders[p][n].qty

Recover ==
  /\ mode = "starting"
  /\ cursor = Len(fills)
  /\ ReconcileLostBook
  /\ IF \E p \in Trades : Discrepancy(p)
     THEN mode' = "blocked" /\ Venue!Disconnect
     ELSE mode' = "ready" /\ Venue!Register
  /\ UNCHANGED <<worker, pending, boundVars>>

LifecycleNext ==
  \/ Worker
  \/ ApplyNextFill
  \/ Clock
  \/ Crash
  \/ Start
  \/ Recover
  \/ \E p \in Trades :
       \/ Approve(p)
       \/ MarketTick(p)
       \/ \E r \in ExitReasons : Latch(p, r)

LifecycleSpec == LifecycleInit /\ [][LifecycleNext]_lifecycleVars

(* The worker and Portfolio State keep running, time passes, and the       *)
(* symbols keep ticking; approvals, observations, crashes and failures     *)
(* need not happen.                                                        *)
Fairness ==
  /\ WF_lifecycleVars(Worker)
  /\ WF_lifecycleVars(ApplyNextFill)
  /\ WF_lifecycleVars(Clock)
  /\ WF_lifecycleVars(Start)
  /\ WF_lifecycleVars(Recover)
  /\ \A p \in Trades : WF_lifecycleVars(MarketTick(p))

FairSpec == LifecycleSpec /\ Fairness

(***************************************************************************)
(* Properties.                                                             *)
(***************************************************************************)
WorkerStates ==
  {Idle}
  \cup [step : {"place_entry"}, trade : Trades]
  \cup [step : {"ack_entry"}, trade : Trades, ack : {"submitted", "rejected"}]
  \cup [step : {"observe"}, left : [Trades -> 0..2]]
  \cup [step : {"service"}, todo : SUBSET Trades]
  \cup [step : {"cancel_entry", "claim", "place_close"}, trade : Trades,
         leg : Legs, todo : SUBSET Trades]
  \cup [step : {"ack_close"}, trade : Trades, leg : Legs,
         todo : SUBSET Trades, ack : {"submitted", "rejected"}]
  \cup [step : {"record_entry"}, trade : Trades, todo : SUBSET Trades,
         lots : Seq(Venue!Updates)]

(* The worker's locals, the monitor's two slots per position, and the mode *)
(* have their types.                                                       *)
LifecycleTypeOK ==
  /\ worker \in WorkerStates
  /\ mode \in {"down", "starting", "ready", "blocked"}
  /\ \A p \in Trades : Len(pending[p]) <= 2
  /\ connected <=> mode \in {"starting", "ready"}

(* Whenever the worker rests with nothing queued and every fill applied,   *)
(* the ledger's positions are the venue's, whatever ticks, cancellations   *)
(* and read-backs raced: no fill is lost and none is counted twice.        *)
AtRest == WorkerAt("idle") /\ queue = <<>> /\ cursor = Len(fills)
AtRestPositionsAgree ==
  AtRest => \A p \in Trades : position[p].qty = Venue!NetLots(p)

(* At such a rest the ledger also knows how every order of the venue's     *)
(* book stands.                                                            *)
AtRestOrdersAgree ==
  AtRest => \A p \in Trades, n \in Legs :
              book[p][n].status # "none" => orders[p][n].status = book[p][n].status

(* The composed system keeps the promise of ReduceOnlyExit about the lots  *)
(* in the market: what the worker sends, after every await, is still one   *)
(* close for exactly what is held.                                         *)
LotsAtVenue(p) ==
  {x \in CloseLegs \X (1..EntryQty) :
     /\ book[p][x[1]].status \in Venue!Open
     /\ Venue!Filled(p, x[1]) < x[2] /\ x[2] <= book[p][x[1]].qty}

Exit == INSTANCE ReduceOnlyExit WITH
  MaxHeld  <- EntryQty,
  held     <- [p \in Trades |-> Venue!NetLots(p)],
  entering <- [p \in Trades |-> book[p][0].status \in Venue!Open],
  closing  <- [p \in Trades |-> Cardinality(LotsAtVenue(p))]

ExitContract == Exit!Spec

(* The worker, the venue and the restart use the ledger only in the ways   *)
(* ExecutionLedger allows its callers: in particular a fill is recorded    *)
(* for an order that was permitted and still works, in its venue's order.  *)
LedgerContract == Spec

(* An exit the ledger holds for an open position completes.  It may end    *)
(* with the position open only as an EOD exit that expired with nothing to *)
(* fall back on, and then no close is left active; or its next attempt is  *)
(* due after the end of the bounded clock.                                 *)
Settled(p) == \/ Flat(p)
              \/ ~Serviceable(p) /\ ActiveCloses(orders[p]) = {}
BeyondClock(p) == request[p].retryAfter > MaxTime
ExitCompletes ==
  \A p \in Trades :
    (mode = "ready" /\ request[p].reason # "none")
      ~> (mode # "ready" \/ Settled(p) \/ BeyondClock(p))

(* A fill at the venue reaches the position: however often they part, the  *)
(* ledger's position meets the venue's again.                              *)
PositionsFollowVenue ==
  \A p \in Trades : []<>(mode # "ready" \/ position[p].qty = Venue!NetLots(p))

(* What the design states, and a database failure disproves.  Invariant    *)
(* I14: "a venue-reported fill is never discarded".  At rest, every fill   *)
(* of the venue's book is in the ledger.                                   *)
NoFillDiscarded ==
  AtRest => \A p \in Trades, n \in Legs :
              \A lot \in 1..Venue!Filled(p, n) : Recorded(p, n, lot)

(* Invariant I11: "order status only moves forward".                       *)
OrderStatusOnlyForward ==
  [][\A p \in Trades, n \in Legs :
       StatusForward(orders[p][n].status, orders'[p][n].status)]_lifecycleVars

=============================================================================
