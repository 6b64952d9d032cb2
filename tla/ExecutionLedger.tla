--------------------------- MODULE ExecutionLedger ---------------------------
(***************************************************************************)
(* The PostgreSQL execution ledger of simulated trades: the tables orders, *)
(* fills, positions, position_fill_receipts and exit_requests, and the     *)
(* transactions that write them                                            *)
(*   execution_engine/postgres.py     PostgresOrderLedger  (entry orders)  *)
(*   execution_engine/fill_ledger.py  PostgresFillLedger   (record_fill)   *)
(*   portfolio_state/postgres.py      PostgresPositionLedger (commit_fill) *)
(*   execution_engine/exit_ledger.py  PostgresExitLedger   (exits)         *)
(* Every method takes SHARE ROW EXCLUSIVE locks on the tables it writes,   *)
(* so each method is one atomic step.  The callers are left unconstrained: *)
(* any of them may call any method at any time, on stale knowledge.  What  *)
(* the venue reports is constrained (ReportStatus, VenueFill): a fill      *)
(* belongs to an order that was sent and is still working.                 *)
(* ExecutionLifecycle replaces both by the real worker and the real venue. *)
(*                                                                         *)
(* A trade has one entry order, leg 0, and close orders, legs 1, 2, ...    *)
(* Quantities are counted in lots: one fill is one lot, and an order for q *)
(* lots is filled by the fills numbered 1..q of its venue_fill_id.         *)
(***************************************************************************)
EXTENDS Integers, Sequences, FiniteSets

CONSTANTS
  Trades,          \* approved trades, each on a symbol of its own
  EntryQty,        \* lots authorised for the entry of a trade
  MaxAttempts,     \* bound on positions.exit_attempt
  MaxTime,         \* bound on the clock
  RetryDelay,      \* RETRY_DELAY after a cancelled or rejected close
  RegularSession,  \* the instants at which is_regular_session() holds
  TradingDay,      \* TradingDay[t]: the exchange day of instant t
  EodFlattenAt,    \* EodFlattenAt[t], EodCloseAt[t]: eod_session_window() of a
  EodCloseAt       \*   position opened at t

Times == 0..MaxTime
Legs == 0..MaxAttempts
CloseLegs == 1..MaxAttempts

(* What core/session_window.py guarantees of the window of an entry day:   *)
(* it is not empty (1 <= lead) and it ends with the regular session that   *)
(* contains it (lead <= 900 seconds).                                      *)
ASSUME LedgerAssumption ==
  /\ EntryQty \in Nat \ {0}
  /\ MaxAttempts \in Nat \ {0}
  /\ MaxTime \in Nat
  /\ RetryDelay \in Nat \ {0}
  /\ RegularSession \subseteq Times
  /\ TradingDay \in [Times -> Nat]
  /\ EodFlattenAt \in [Times -> Nat]
  /\ EodCloseAt \in [Times -> Nat]
  /\ \A t \in Times : EodFlattenAt[t] < EodCloseAt[t]
  /\ \A t, u \in Times :
       (EodFlattenAt[t] <= u /\ u < EodCloseAt[t]) => u \in RegularSession

Active == {"approved", "submitted", "partially_filled"}
Terminal == {"filled", "cancelled", "rejected", "expired"}
Protective == {"stop", "target"}
ExitReasons == Protective \cup {"eod_flatten"}

VARIABLES
  now,       \* the ledger's clock
  orders,    \* orders[p][n]: leg n of trade p
  position,  \* position[p]: the position of trade p
  request,   \* request[p]: the exit_requests row of that position
  fills,     \* the fills table in ledger_seq order
  cursor,    \* how many of them have a position_fill_receipts row
  sent       \* history: the <<trade, leg>> a venue call was permitted for

vars == <<now, orders, position, request, fills, cursor, sent>>

(***************************************************************************)
(* Rows.                                                                   *)
(***************************************************************************)
NoOrder == [status |-> "none", qty |-> 0, reason |-> "none",
            dispatched |-> FALSE, windowClosed |-> FALSE]
OrderRows == [status : {"none"} \cup Active \cup Terminal, qty : Nat,
              reason : {"none"} \cup ExitReasons,
              dispatched : BOOLEAN,     \* exit_dispatch_started_at IS NOT NULL
              windowClosed : BOOLEAN]   \* reject_reason = 'eod_window_closed'

NoPosition == [status |-> "none", qty |-> 0, opened |-> 0, attempt |-> 0]
PositionRows == [status : {"none", "open", "closing", "closed", "reopened"},
                 qty : Nat, opened : Times, attempt : Legs]

NoRequest == [reason |-> "none", flattenAt |-> 0, closeAt |-> 0,
              expired |-> FALSE, fallback |-> "none", retryAfter |-> 0]
RequestRows == [reason : {"none"} \cup ExitReasons,
                flattenAt : Nat, closeAt : Nat,
                expired : BOOLEAN,                 \* eod_expired_at IS NOT NULL
                fallback : {"none"} \cup Protective,
                retryAfter : Nat]

FillRows == [trade : Trades, leg : Legs, lot : Nat \ {0}, ts : Times]

Init ==
  /\ now = 0
  /\ orders = [p \in Trades |-> [n \in Legs |-> NoOrder]]
  /\ position = [p \in Trades |-> NoPosition]
  /\ request = [p \in Trades |-> NoRequest]
  /\ fills = <<>>
  /\ cursor = 0
  /\ sent = {}

(***************************************************************************)
(* Guards shared by the transactions.                                      *)
(***************************************************************************)
FillsOf(p, n) == {i \in DOMAIN fills : fills[i].trade = p /\ fills[i].leg = n}
PendingFill_EntryOnly(p) ==
  \E i \in DOMAIN fills : i > cursor /\ fills[i].trade = p /\ fills[i].leg = 0
PendingFill(p) == \E i \in DOMAIN fills : i > cursor /\ fills[i].trade = p
Flat(p) == position[p].status = "closed" \/ position[p].qty = 0
Lifecycle(r) == r.reason = "eod_flatten"

ActiveCloses(o) == {n \in CloseLegs : o[n].status \in Active}
FirstActiveClose(o) == CHOOSE n \in ActiveCloses(o) :
                         \A m \in ActiveCloses(o) : n <= m

(* prepare_exit's scan of the orders for a close that is still active. *)
CloseInTheWay_NoPartial(o) ==
  \E n \in CloseLegs : o[n].status \in {"approved", "submitted"}
CloseInTheWay(o) == ActiveCloses(o) # {}

LastActiveClose(o) == CHOOSE n \in ActiveCloses(o) :
                         \A m \in ActiveCloses(o) : m <= n

ExpiryDue(r) == Lifecycle(r) /\ ~r.expired /\ now >= r.closeAt

(* A reservation the ledger can prove was never sent. *)
UnsentEod_IgnoresMarker(o) == o.status = "approved" /\ o.reason = "eod_flatten"
UnsentEod(o) == /\ o.status = "approved"
                /\ ~o.dispatched
                /\ o.reason = "eod_flatten"

WindowClosed(o) == [o EXCEPT !.status = "cancelled", !.windowClosed = TRUE]

(* _advance_expiry: what it leaves in the request row and in the orders. *)
RequestAfterExpiry_Forgets(p) ==
  [request[p] EXCEPT !.expired = ExpiryDue(request[p])]
RequestAfterExpiry_ResetsRetry(p) ==
  [request[p] EXCEPT !.expired = @ \/ ExpiryDue(request[p]),
                     !.retryAfter = IF ExpiryDue(request[p]) THEN 0 ELSE @]
RequestAfterExpiry(p) ==
  [request[p] EXCEPT !.expired = @ \/ ExpiryDue(request[p])]
ExpireOrders_KeepsReservation(r, o) == o
ExpireOrders(r, o) ==
  IF ExpiryDue(r) /\ ActiveCloses(o) # {} /\ UnsentEod(o[LastActiveClose(o)])
  THEN [o EXCEPT ![LastActiveClose(o)] = WindowClosed(@)]
  ELSE o
OrdersAfterExpiry(p) == ExpireOrders(request[p], orders[p])

(* _effective: the placement state of a request, and the reason in force. *)
EffectiveState(r) ==
  IF ~Lifecycle(r) THEN "protective"
  ELSE IF ~r.expired
       THEN IF r.flattenAt <= now /\ now < r.closeAt THEN "eod" ELSE "not_open"
       ELSE IF r.fallback # "none" THEN "fallback" ELSE "dormant"
EffectiveReason(r) ==
  IF EffectiveState(r) = "fallback" THEN r.fallback ELSE r.reason

(* _protective_outside_session *)
OutsideSession(reason) == reason \in Protective /\ now \notin RegularSession

(***************************************************************************)
(* Entry orders.  The commitment of the authorisation decision is not      *)
(* modelled here: every trade of Trades has one.                           *)
(***************************************************************************)
(* insert_order: True inserts the approved row, a second delivery of the   *)
(* same OrderApproved finds it and changes nothing.                        *)
InsertEntry(p) ==
  /\ orders[p][0].status = "none"
  /\ orders' = [orders EXCEPT ![p][0] =
                  [NoOrder EXCEPT !.status = "approved", !.qty = EntryQty]]
  /\ sent' = sent \cup {<<p, 0>>}
  /\ UNCHANGED <<now, position, request, fills, cursor>>

(* update_order_status: an acknowledgement never moves a status back. *)
AckAdvances(from, to) ==
  \/ from = "approved" /\ to \in {"submitted", "rejected"}
  \/ from = "submitted" /\ to = "rejected"

UpdateEntryStatus(p, status) ==
  /\ AckAdvances(orders[p][0].status, status)
  /\ orders' = [orders EXCEPT ![p][0].status = status]
  /\ UNCHANGED <<now, position, request, fills, cursor, sent>>

(***************************************************************************)
(* observe_exit.  `ts' is the intent's trigger_ts; `wellFormed' says that  *)
(* the argument checks pass (price finite and positive, aware timestamp,   *)
(* supplied EOD bounds equal to the derived window).                       *)
(***************************************************************************)
EodLabelValid(p, ts) ==
  /\ position[p].opened <= ts /\ ts <= now
  /\ TradingDay[ts] = TradingDay[position[p].opened]

ObserveResult(p, reason, ts, wellFormed) ==
  IF ~wellFormed \/ position[p].status = "none" THEN "invalid"
  ELSE IF Flat(p) THEN "position_closed"
  ELSE IF request[p].reason # "none"
  THEN IF reason = "eod_flatten"
       THEN IF Lifecycle(request[p]) THEN "already_stored" ELSE "superseded"
       ELSE IF ~Lifecycle(request[p]) THEN "already_stored"
       ELSE IF request[p].fallback # "none" THEN "fallback_already_stored"
       ELSE "fallback_stored"
  ELSE IF reason \in Protective THEN "stored"
  ELSE IF ~EodLabelValid(p, ts) THEN "invalid"
  ELSE IF now < EodFlattenAt[position[p].opened] THEN "window_not_open"
  ELSE IF now >= EodCloseAt[position[p].opened] THEN "window_closed"
  ELSE "stored"

NewRequest(p, reason) ==
  IF reason = "eod_flatten"
  THEN [NoRequest EXCEPT !.reason = reason,
                         !.flattenAt = EodFlattenAt[position[p].opened],
                         !.closeAt = EodCloseAt[position[p].opened]]
  ELSE [NoRequest EXCEPT !.reason = reason]

ObserveStored(p, reason) ==
  /\ request' = [request EXCEPT ![p] = NewRequest(p, reason)]
  /\ UNCHANGED orders

(* An existing row records a due expiry before it looks at the intent. *)
ObserveExisting(p, reason, result) ==
  /\ request' = [request EXCEPT ![p] =
                   IF result = "fallback_stored"
                   THEN [RequestAfterExpiry(p) EXCEPT !.fallback = reason]
                   ELSE RequestAfterExpiry(p)]
  /\ orders' = [orders EXCEPT ![p] = OrdersAfterExpiry(p)]

Acknowledged == {"stored", "already_stored", "fallback_stored",
                 "fallback_already_stored", "superseded"}

ObserveExit(p, reason, ts, wellFormed) ==
  LET result == ObserveResult(p, reason, ts, wellFormed) IN
  /\ \/ result = "stored" /\ ObserveStored(p, reason)
     \/ result \in Acknowledged \ {"stored"} /\ ObserveExisting(p, reason, result)
     \/ result \notin Acknowledged /\ UNCHANGED <<orders, request>>
  /\ UNCHANGED <<now, position, fills, cursor, sent>>

(* advance_eod_expiry: records a due expiry, on restart or from a timer. *)
AdvanceEodExpiry(p) ==
  /\ IF Flat(p)
     THEN UNCHANGED <<orders, request>>
     ELSE /\ request' = [request EXCEPT ![p] = RequestAfterExpiry(p)]
          /\ orders' = [orders EXCEPT ![p] = OrdersAfterExpiry(p)]
  /\ UNCHANGED <<now, position, fills, cursor, sent>>

(***************************************************************************)
(* prepare_exit.  "reserve" is a SUBMIT that commits a new close order,    *)
(* "submit" one that reuses the unsent reservation; "error" is an          *)
(* exception, which rolls the transaction back.                            *)
(***************************************************************************)
WorkingEntry(p) == /\ orders[p][0].status \in Active
                   /\ Cardinality(FillsOf(p, 0)) < orders[p][0].qty

(* What prepare_exit does about an active close order. *)
ReservationResult(o, r) ==
  IF o.status # "approved" THEN "wait_active_order"
  ELSE IF Lifecycle(r) /\ o.dispatched THEN "wait_uncertain_dispatch"
  ELSE IF Lifecycle(r) /\ o.reason # EffectiveReason(r) THEN "error"
  ELSE IF OutsideSession(EffectiveReason(r)) THEN "wait_outside_regular_session"
  ELSE "submit"

PrepareResult(p) ==
  LET r == RequestAfterExpiry(p)
      o == OrdersAfterExpiry(p)
  IN IF request[p].reason = "none" \/ position[p].status = "none" THEN "no_request"
     ELSE IF Flat(p) THEN "position_closed"
     ELSE IF EffectiveState(r) = "dormant" THEN "dormant"
     ELSE IF EffectiveState(r) = "not_open" THEN "wait_window_not_open"
     ELSE IF WorkingEntry(p) THEN "cancel_entry"
     ELSE IF PendingFill(p) THEN "wait_pending_fill"
     ELSE IF CloseInTheWay(o) THEN ReservationResult(o[FirstActiveClose(o)], r)
     ELSE IF r.retryAfter > now THEN "wait_retry_delay"
     ELSE IF OutsideSession(EffectiveReason(r)) THEN "wait_outside_regular_session"
     ELSE "reserve"

(* prepare_exit returns before _advance_expiry, or rolls it back. *)
PrepareTouchesNothing == {"no_request", "position_closed", "error"}

(* The close order prepare_exit reserves, `<trade>:exit:<attempt + 1>'. *)
Reservation_Swapped(p) ==
  [NoOrder EXCEPT !.status = "approved", !.qty = position[p].qty,
                  !.reason = EffectiveState(RequestAfterExpiry(p))]
Reservation(p) ==
  [NoOrder EXCEPT !.status = "approved", !.qty = position[p].qty,
                  !.reason = EffectiveReason(RequestAfterExpiry(p))]

PrepareRefuse(p) ==
  /\ PrepareResult(p) \in PrepareTouchesNothing
  /\ UNCHANGED <<orders, request, position>>

PrepareNoReservation(p) ==
  /\ PrepareResult(p) \notin PrepareTouchesNothing \cup {"reserve"}
  /\ request' = [request EXCEPT ![p] = RequestAfterExpiry(p)]
  /\ orders' = [orders EXCEPT ![p] = OrdersAfterExpiry(p)]
  /\ UNCHANGED position

PrepareReserve(p) ==
  LET attempt == position[p].attempt + 1 IN
  /\ PrepareResult(p) = "reserve"
  /\ attempt <= MaxAttempts
  /\ request' = [request EXCEPT ![p] = RequestAfterExpiry(p)]
  /\ orders' = [orders EXCEPT ![p] =
                  [OrdersAfterExpiry(p) EXCEPT ![attempt] = Reservation(p)]]
  /\ position' = [position EXCEPT ![p].attempt = attempt]

PrepareExit(p) ==
  /\ PrepareRefuse(p) \/ PrepareNoReservation(p) \/ PrepareReserve(p)
  /\ UNCHANGED <<now, fills, cursor, sent>>

(***************************************************************************)
(* claim_dispatch, the final guard: only "claimed" permits a venue call.   *)
(***************************************************************************)
(* The EOD-lifecycle guards, evaluated after _advance_expiry. *)
ClaimLifecycleResult(o, r) ==
  IF o.status = "cancelled" THEN "window_expired"
  ELSE IF o.reason = "eod_flatten"
  THEN IF r.expired THEN "window_expired"
       ELSE IF EffectiveState(r) = "not_open" THEN "wait_window_not_open"
       ELSE "eligible"
  ELSE IF EffectiveState(r) = "fallback" /\ o.reason = EffectiveReason(r)
  THEN "eligible"
  ELSE "unsafe"

(* The guards every close passes last. *)
ClaimFinalResult_NoSession(p, o) ==
  IF orders[p][0].status \in Active THEN "wait_entry_activity"
  ELSE IF PendingFill(p) THEN "wait_pending_fill"
  ELSE IF position[p].qty # o.qty THEN "unsafe"
  ELSE "claimed"
ClaimFinalResult(p, o) ==
  IF OutsideSession(o.reason) THEN "wait_outside_regular_session"
  ELSE IF orders[p][0].status \in Active THEN "wait_entry_activity"
  ELSE IF PendingFill(p) THEN "wait_pending_fill"
  ELSE IF position[p].qty # o.qty THEN "unsafe"
  ELSE "claimed"

(* Whether claim_dispatch gets past the identity and staleness checks. *)
Claimable(p, n) ==
  /\ position[p].status # "closed"
  /\ orders[p][n].status = "approved"
  /\ ~(Lifecycle(request[p]) /\ orders[p][n].dispatched)

ClaimResult(p, n) ==
  LET o == OrdersAfterExpiry(p)[n]
      lifecycle == IF Lifecycle(request[p])
                   THEN ClaimLifecycleResult(o, RequestAfterExpiry(p))
                   ELSE "eligible"
  IN IF orders[p][n].status = "none" THEN "unsafe"
     ELSE IF position[p].status = "closed" THEN "stale"
     ELSE IF ~Claimable(p, n)
     THEN IF orders[p][n].status = "approved" THEN "already_claimed" ELSE "stale"
     ELSE IF lifecycle = "eligible" THEN ClaimFinalResult(p, o)
     ELSE lifecycle

ClaimRefuse(p, n) ==
  /\ orders[p][n].status = "none" \/ ~Claimable(p, n)
  /\ UNCHANGED <<orders, request, sent>>

ClaimNoDispatch(p, n) ==
  /\ Claimable(p, n)
  /\ ClaimResult(p, n) # "claimed"
  /\ request' = [request EXCEPT ![p] = RequestAfterExpiry(p)]
  /\ orders' = [orders EXCEPT ![p] =
                  IF ClaimResult(p, n) = "window_expired"
                  THEN [OrdersAfterExpiry(p) EXCEPT ![n] = WindowClosed(@)]
                  ELSE OrdersAfterExpiry(p)]
  /\ UNCHANGED sent

(* The dispatch marker of an EOD-lifecycle close, a fallback included,     *)
(* commits with the claim; a close of a stop/target request has none.      *)
Marked_EodOnly(o, r) == [o EXCEPT !.dispatched = @ \/ o.reason = "eod_flatten"]
Marked(o, r) == [o EXCEPT !.dispatched = @ \/ Lifecycle(r)]

ClaimCommit(p, n) ==
  /\ Claimable(p, n)
  /\ ClaimResult(p, n) = "claimed"
  /\ request' = [request EXCEPT ![p] = RequestAfterExpiry(p)]
  /\ orders' = [orders EXCEPT ![p] =
                  [OrdersAfterExpiry(p) EXCEPT ![n] = Marked(@, request[p])]]
  /\ sent' = sent \cup {<<p, n>>}

ClaimDispatch(p, n) ==
  /\ ClaimRefuse(p, n) \/ ClaimNoDispatch(p, n) \/ ClaimCommit(p, n)
  /\ UNCHANGED <<now, position, fills, cursor>>

(***************************************************************************)
(* set_status.  An EOD-lifecycle close without a dispatch marker raises.   *)
(***************************************************************************)
StatusAllowed_LateAck(from, to) ==
  \/ from \in {"approved", "partially_filled"} /\ to = "submitted"
  \/ from \in Active /\ to \in {"cancelled", "rejected"}
StatusAllowed(from, to) ==
  \/ from = "approved" /\ to \in {"submitted", "cancelled", "rejected"}
  \/ from \in {"submitted", "partially_filled"} /\ to \in {"cancelled", "rejected"}

Unclaimed(p, n) == /\ n # 0
                   /\ Lifecycle(request[p])
                   /\ orders[p][n].status = "approved"
                   /\ ~orders[p][n].dispatched

StatusChanges(p, n, status) == /\ StatusAllowed(orders[p][n].status, status)
                               /\ ~Unclaimed(p, n)

(* A cancelled or rejected close delays the next attempt, and a status     *)
(* change of an EOD-lifecycle close records a due expiry.                  *)
SetStatus(p, n, status) ==
  LET o == [orders[p] EXCEPT ![n].status = status] IN
  /\ StatusChanges(p, n, status)
  /\ orders' = [orders EXCEPT ![p] = IF n = 0 THEN o ELSE ExpireOrders(request[p], o)]
  /\ request' = IF n = 0 THEN request
                ELSE [request EXCEPT ![p] =
                        [RequestAfterExpiry(p) EXCEPT
                           !.retryAfter = IF status \in {"cancelled", "rejected"}
                                          THEN now + RetryDelay ELSE @]]
  /\ UNCHANGED <<now, position, fills, cursor, sent>>

(***************************************************************************)
(* record_fill: a second delivery of a venue_fill_id changes nothing; the  *)
(* status advances only to a higher rank.  A status without a rank counts  *)
(* as 0, the terminal ones but "filled" included.                          *)
(***************************************************************************)
FillProgressRank(status) ==
  CASE status = "filled" -> 3
    [] status = "partially_filled" -> 2
    [] status = "submitted" -> 1
    [] OTHER -> 0

(* The status the venue reports with lot k of an order for q lots. *)
FillStatus(k, q) == IF k = q THEN "filled" ELSE "partially_filled"

Recorded(p, n, lot) == \E i \in FillsOf(p, n) : fills[i].lot = lot

RecordFill(p, n, lot, ts) ==
  LET reported == FillStatus(lot, orders[p][n].qty)
      advances == FillProgressRank(reported) > FillProgressRank(orders[p][n].status)
  IN /\ ~Recorded(p, n, lot)
     /\ fills' = Append(fills, [trade |-> p, leg |-> n, lot |-> lot, ts |-> ts])
     /\ orders' = [orders EXCEPT ![p][n].status = IF advances THEN reported ELSE @]
     /\ UNCHANGED <<now, position, request, cursor, sent>>

(***************************************************************************)
(* commit_fill: applies the first fill without a receipt to its position,  *)
(* with the receipt and the cursor.  accounting.apply_fill refuses to      *)
(* reduce a position that holds nothing and a fill older than its          *)
(* position, and then no later fill is applied either.  An entry fill      *)
(* after the close would open a second position for the trade, whose exit  *)
(* requests this model does not follow: "reopened".                        *)
(***************************************************************************)
HeadFill == fills[cursor + 1]
Applicable(f) ==
  /\ f.leg # 0 => position[f.trade].qty > 0
  /\ position[f.trade].qty > 0 => position[f.trade].opened <= f.ts

Opened(x, f) ==
  CASE x.status = "none" ->
         [x EXCEPT !.status = "open", !.qty = 1, !.opened = f.ts]
    [] x.status \in {"open", "closing"} -> [x EXCEPT !.qty = @ + 1]
    [] OTHER -> [x EXCEPT !.status = "reopened"]

Reduced(x) ==
  [x EXCEPT !.qty = @ - 1,
            !.status = IF x.qty = 1 THEN "closed" ELSE "closing"]

ApplyFill(x, f) == IF f.leg = 0 THEN Opened(x, f) ELSE Reduced(x)

CommitFill ==
  /\ cursor < Len(fills)
  /\ Applicable(HeadFill)
  /\ position' = [position EXCEPT ![HeadFill.trade] = ApplyFill(@, HeadFill)]
  /\ cursor' = cursor + 1
  /\ UNCHANGED <<now, orders, request, fills, sent>>

Tick ==
  /\ now < MaxTime
  /\ now' = now + 1
  /\ UNCHANGED <<orders, position, request, fills, cursor, sent>>

(***************************************************************************)
(* What a venue may report about the orders it received.                   *)
(***************************************************************************)
Working(p, n) == <<p, n>> \in sent /\ orders[p][n].status \in Active

(* A venue report: the acknowledgement, a rejection, or a cancellation. *)
ReportStatus(p, n, status) ==
  /\ Working(p, n)
  /\ SetStatus(p, n, status)

(* The next lot of a working order, at the exchange time of the tick that  *)
(* filled it.  A tick may arrive late, but a feed does not go back in time *)
(* within a symbol.                                                        *)
VenueFill(p, n, ts) ==
  LET lot == Cardinality(FillsOf(p, n)) + 1 IN
  /\ Working(p, n)
  /\ lot <= orders[p][n].qty
  /\ ts <= now
  /\ \A i \in DOMAIN fills : fills[i].trade = p => fills[i].ts <= ts
  /\ RecordFill(p, n, lot, ts)

(* Restart reconciliation with a venue that lost its book: an approved     *)
(* entry is cancelled, an order that was acknowledged expires, an approved *)
(* close is left for the exit worker.                                      *)
Reconciled(n, status) ==
  CASE status = "approved" -> IF n = 0 THEN "cancelled" ELSE "approved"
    [] status \in {"submitted", "partially_filled"} -> "expired"
    [] OTHER -> status

ReconcileLostBook ==
  /\ orders' = [p \in Trades |-> [n \in Legs |->
                  [orders[p][n] EXCEPT !.status = Reconciled(n, @)]]]
  /\ UNCHANGED <<now, position, request, fills, cursor, sent>>

Next ==
  \/ Tick
  \/ CommitFill
  \/ ReconcileLostBook
  \/ \E p \in Trades :
       \/ InsertEntry(p)
       \/ \E s \in {"submitted", "rejected"} : UpdateEntryStatus(p, s)
       \/ \E r \in ExitReasons, ts \in Times, ok \in BOOLEAN :
            ObserveExit(p, r, ts, ok)
       \/ AdvanceEodExpiry(p)
       \/ PrepareExit(p)
       \/ \E n \in CloseLegs : ClaimDispatch(p, n)
       \/ \E n \in Legs, s \in Active \cup Terminal : ReportStatus(p, n, s)
       \/ \E n \in Legs, ts \in Times : VenueFill(p, n, ts)

Spec == Init /\ [][Next]_vars

(***************************************************************************)
(* Properties.                                                             *)
(***************************************************************************)
(* Every table holds rows of its columns' types. *)
TypeOK ==
  /\ now \in Times
  /\ orders \in [Trades -> [Legs -> OrderRows]]
  /\ position \in [Trades -> PositionRows]
  /\ request \in [Trades -> RequestRows]
  /\ fills \in Seq(FillRows)
  /\ cursor \in 0..Len(fills)
  /\ sent \subseteq Trades \X Legs

(* The index uq_orders_active_exit_per_position is never what stops a      *)
(* transaction: whatever callers race, a position has at most one close    *)
(* that is approved, submitted or partially filled.                        *)
OneActiveClose == \A p \in Trades : Cardinality(ActiveCloses(orders[p])) <= 1

(* A reservation cancelled as eod_window_closed, the ledger's proof that   *)
(* it was never sent, is one no venue call was ever permitted for, and its *)
(* cancellation stands (_advance_expiry, claim_dispatch).                  *)
UnsentCancellationIsProof ==
  \A p \in Trades, n \in CloseLegs :
    orders[p][n].windowClosed =>
      /\ <<p, n>> \notin sent
      /\ orders[p][n].status = "cancelled"

(* In an EOD lifecycle the dispatch marker records exactly the closes a    *)
(* venue call was permitted for, so a second claim is always refused.      *)
MarkerRecordsDispatch ==
  \A p \in Trades, n \in CloseLegs :
    (Lifecycle(request[p]) /\ orders[p][n].status # "none") =>
      /\ orders[p][n].dispatched <=> <<p, n>> \in sent
      /\ orders[p][n].dispatched => ClaimResult(p, n) # "claimed"

(* The lots a sent close may still fill, and its fills not yet receipted,  *)
(* never exceed the position; while it works the entry is out of the way   *)
(* (claim_dispatch's last guards).                                         *)
OutstandingLots(p) ==
  {x \in CloseLegs \X (1..EntryQty) :
     /\ Working(p, x[1])
     /\ x[2] <= orders[p][x[1]].qty
     /\ ~Recorded(p, x[1], x[2])}
PendingLots(p, legs) ==
  {i \in DOMAIN fills : i > cursor /\ fills[i].trade = p /\ fills[i].leg \in legs}

ReduceOnly ==
  \A p \in Trades :
    /\ Cardinality(OutstandingLots(p)) + Cardinality(PendingLots(p, CloseLegs))
         <= position[p].qty
    /\ (\E n \in CloseLegs : Working(p, n)) =>
          /\ orders[p][0].status \notin Active
          /\ PendingLots(p, {0}) = {}

(* accounting.apply_fill accepts every fill of the ledger: none reduces an *)
(* empty position, none is older than its position, none opens a trade's   *)
(* position a second time.                                                 *)
AccountingAccepts ==
  /\ cursor < Len(fills) => Applicable(HeadFill)
  /\ \A p \in Trades : position[p].status # "reopened"

(* The exits' defensive branches are unreachable: prepare_exit never       *)
(* raises over the reason of an unsent reservation, and claim_dispatch     *)
(* never finds a reserved close unsafe.                                    *)
NoUnsafeExit ==
  \A p \in Trades :
    /\ PrepareResult(p) # "error"
    /\ \A n \in CloseLegs :
         orders[p][n].status # "none" => ClaimResult(p, n) # "unsafe"

(* A venue call is permitted only for an exit that is placeable when it is *)
(* claimed: an EOD close inside its window, any other close in regular     *)
(* hours, a fallback only after the EOD attempt expired, always for all    *)
(* the position holds.                                                     *)
PlaceableNow(p, n) ==
  /\ IF orders[p][n].reason = "eod_flatten"
     THEN request[p].flattenAt <= now /\ now < request[p].closeAt
     ELSE now \in RegularSession
  /\ (Lifecycle(request[p]) /\ orders[p][n].reason # "eod_flatten") =>
       now >= request[p].closeAt
  /\ orders[p][n].qty = position[p].qty /\ ~Flat(p)

DispatchOnlyWhenPlaceable ==
  [][\A p \in Trades, n \in CloseLegs :
       <<p, n>> \in sent' \ sent => PlaceableNow(p, n)]_vars

(* What the triggers of migration 0016 enforce, and the transactions never *)
(* rely on: the original request, a recorded expiry, the first fallback    *)
(* and the dispatch marker stand.                                          *)
RequestStands(r, s) ==
  /\ r.reason # "none" => /\ s.reason = r.reason
                          /\ s.flattenAt = r.flattenAt
                          /\ s.closeAt = r.closeAt
  /\ r.expired => s.expired
  /\ r.fallback # "none" => s.fallback = r.fallback

EvidenceImmutable ==
  [][\A p \in Trades :
       /\ RequestStands(request[p], request'[p])
       /\ \A n \in CloseLegs : orders[p][n].dispatched => orders'[p][n].dispatched]_vars

(* Order status only moves forward: a terminal status is final, and a      *)
(* partially filled order is never again approved or submitted.            *)
StatusForward(from, to) ==
  /\ from \in Terminal => to = from
  /\ from = "partially_filled" => to \in {from} \cup Terminal
  /\ from = "submitted" => to # "approved"

StatusMovesForward ==
  [][\A p \in Trades, n \in Legs :
       StatusForward(orders[p][n].status, orders'[p][n].status)]_vars

(* retry_after is a lower bound for the next attempt that nothing shortens *)
(* or resets, an expiry or a fallback included.                            *)
RetryDelayKept ==
  [][\A p \in Trades :
       /\ request[p].retryAfter <= request'[p].retryAfter
       /\ position'[p].attempt > position[p].attempt => request[p].retryAfter <= now]_vars

=============================================================================
