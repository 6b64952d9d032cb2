------------------------ MODULE ExecutionLedgerProofs ------------------------
(***************************************************************************)
(* Proofs about ExecutionLedger, for every number of trades, lots and      *)
(* attempts, every calendar and every length of the run.                   *)
(***************************************************************************)
EXTENDS ExecutionLedger, FiniteSetTheorems, SequenceTheorems, TLAPS

(***************************************************************************)
(* What the helpers of the transactions return.                            *)
(***************************************************************************)
LEMMA WindowClosedType ==
  ASSUME NEW o \in OrderRows
  PROVE  WindowClosed(o) \in OrderRows
BY DEF WindowClosed, OrderRows, Active, Terminal

(* _advance_expiry touches no order but an unsent EOD reservation.         *)
LEMMA ExpireShape ==
  ASSUME NEW r, NEW o \in [Legs -> OrderRows]
  PROVE  /\ ExpireOrders(r, o) \in [Legs -> OrderRows]
         /\ \A n \in Legs :
              \/ ExpireOrders(r, o)[n] = o[n]
              \/ /\ ExpiryDue(r)
                 /\ UnsentEod(o[n])
                 /\ ExpireOrders(r, o)[n] = WindowClosed(o[n])
<1> DEFINE k == LastActiveClose(o)
<1>1. CASE ExpiryDue(r) /\ ActiveCloses(o) # {} /\ UnsentEod(o[k])
  <2> HIDE DEF k
  <2>1. ExpireOrders(r, o) = [o EXCEPT ![k] = WindowClosed(@)]
    BY <1>1 DEF ExpireOrders, k
  <2>2. \A n \in Legs : WindowClosed(o[n]) \in OrderRows
    BY WindowClosedType
  <2> QED BY <1>1, <2>1, <2>2
<1>2. CASE ~(ExpiryDue(r) /\ ActiveCloses(o) # {} /\ UnsentEod(o[k]))
  BY <1>2 DEF ExpireOrders
<1> QED BY <1>1, <1>2

LEMMA RequestAfterExpiryType ==
  ASSUME TypeOK, NEW p \in Trades
  PROVE  /\ RequestAfterExpiry(p) \in RequestRows
         /\ RequestAfterExpiry(p) =
              [request[p] EXCEPT !.expired = RequestAfterExpiry(p).expired]
         /\ RequestAfterExpiry(p).expired <=>
              request[p].expired \/ ExpiryDue(request[p])
BY DEF TypeOK, RequestRows, RequestAfterExpiry, ExpiryDue, Lifecycle

LEMMA OrdersAfterExpiryShape ==
  ASSUME TypeOK, NEW p \in Trades
  PROVE  /\ OrdersAfterExpiry(p) \in [Legs -> OrderRows]
         /\ \A n \in Legs :
              \/ OrdersAfterExpiry(p)[n] = orders[p][n]
              \/ /\ ExpiryDue(request[p])
                 /\ UnsentEod(orders[p][n])
                 /\ OrdersAfterExpiry(p)[n] = WindowClosed(orders[p][n])
<1>1. orders[p] \in [Legs -> OrderRows]
  BY DEF TypeOK
<1> QED BY <1>1, ExpireShape DEF OrdersAfterExpiry

LEMMA FillsOfFinite ==
  ASSUME TypeOK, NEW p \in Trades, NEW n \in Legs
  PROVE  Cardinality(FillsOf(p, n)) \in Nat
<1>1. DOMAIN fills = 1..Len(fills) /\ Len(fills) \in Nat
  BY DEF TypeOK
<1>2. IsFiniteSet(1..Len(fills))
  BY <1>1, FS_Interval
<1>3. FillsOf(p, n) \subseteq 1..Len(fills)
  BY <1>1 DEF FillsOf
<1> QED BY <1>2, <1>3, FS_Subset, FS_CardinalityType

(***************************************************************************)
(* Type correctness.                                                       *)
(***************************************************************************)
LEMMA EffectiveReasonType ==
  ASSUME NEW r \in RequestRows
  PROVE  EffectiveReason(r) \in {"none"} \cup ExitReasons
BY DEF EffectiveReason, RequestRows, ExitReasons

LEMMA StatusRowType ==
  ASSUME NEW o \in OrderRows, NEW s \in Active \cup Terminal
  PROVE  [o EXCEPT !.status = s] \in OrderRows
BY DEF OrderRows

LEMMA OrdersStep ==
  ASSUME TypeOK, NEW p \in Trades, NEW o \in [Legs -> OrderRows],
         orders' = [orders EXCEPT ![p] = o]
  PROVE  /\ orders' \in [Trades -> [Legs -> OrderRows]]
         /\ orders'[p] = o
         /\ \A q \in Trades : q # p => orders'[q] = orders[q]
BY DEF TypeOK

LEMMA RequestStep ==
  ASSUME TypeOK, NEW p \in Trades, NEW r \in RequestRows,
         request' = [request EXCEPT ![p] = r]
  PROVE  /\ request' \in [Trades -> RequestRows]
         /\ request'[p] = r
         /\ \A q \in Trades : q # p => request'[q] = request[q]
BY DEF TypeOK

LEMMA NewRequestType ==
  ASSUME TypeOK, NEW p \in Trades, NEW reason \in ExitReasons
  PROVE  NewRequest(p, reason) \in RequestRows
BY LedgerAssumption DEF TypeOK, NewRequest, NoRequest, RequestRows, PositionRows

LEMMA ObserveType ==
  ASSUME TypeOK, NEW p \in Trades, NEW reason \in ExitReasons,
         NEW ts \in Times, NEW ok \in BOOLEAN, ObserveExit(p, reason, ts, ok)
  PROVE  TypeOK'
<1> DEFINE result == ObserveResult(p, reason, ts, ok)
<1>1. CASE ObserveStored(p, reason)
  <2>1. request' \in [Trades -> RequestRows]
    BY <1>1, NewRequestType DEF TypeOK, ObserveStored
  <2> QED BY <1>1, <2>1 DEF TypeOK, ObserveStored, ObserveExit
<1>2. CASE ObserveExisting(p, reason, result)
  <2>1. request' \in [Trades -> RequestRows]
    <3>1. reason \in {"none"} \cup Protective \/ result # "fallback_stored"
      BY DEF result, ObserveResult, ExitReasons
    <3>2. [RequestAfterExpiry(p) EXCEPT !.fallback = reason] \in RequestRows
          \/ result # "fallback_stored"
      BY <3>1, RequestAfterExpiryType DEF RequestRows
    <3> QED BY <1>2, <3>2, RequestAfterExpiryType DEF TypeOK, ObserveExisting
  <2>2. orders' \in [Trades -> [Legs -> OrderRows]]
    BY <1>2, OrdersAfterExpiryShape DEF TypeOK, ObserveExisting
  <2> QED BY <2>1, <2>2 DEF TypeOK, ObserveExit
<1>3. CASE UNCHANGED <<orders, request>>
  BY <1>3 DEF TypeOK, ObserveExit
<1> QED BY <1>1, <1>2, <1>3 DEF ObserveExit, result

LEMMA AdvanceType ==
  ASSUME TypeOK, NEW p \in Trades, AdvanceEodExpiry(p)
  PROVE  TypeOK'
BY RequestAfterExpiryType, OrdersAfterExpiryShape DEF TypeOK, AdvanceEodExpiry

LEMMA ReservationType ==
  ASSUME TypeOK, NEW p \in Trades
  PROVE  Reservation(p) \in OrderRows
<1>1. position[p].qty \in Nat
  BY DEF TypeOK, PositionRows
<1>2. EffectiveReason(RequestAfterExpiry(p)) \in {"none"} \cup ExitReasons
  BY RequestAfterExpiryType, EffectiveReasonType
<1> QED BY <1>1, <1>2 DEF Reservation, NoOrder, OrderRows, Active

LEMMA PrepareType ==
  ASSUME TypeOK, NEW p \in Trades, PrepareExit(p)
  PROVE  TypeOK'
<1>1. CASE PrepareRefuse(p)
  BY <1>1 DEF TypeOK, PrepareExit, PrepareRefuse
<1>2. CASE PrepareNoReservation(p)
  BY <1>2, RequestAfterExpiryType, OrdersAfterExpiryShape
  DEF TypeOK, PrepareExit, PrepareNoReservation
<1>3. CASE PrepareReserve(p)
  <2> DEFINE attempt == position[p].attempt + 1
             o == [OrdersAfterExpiry(p) EXCEPT ![attempt] = Reservation(p)]
  <2>1. attempt \in Legs
    BY <1>3, LedgerAssumption DEF TypeOK, PrepareReserve, PositionRows, Legs
  <2>2. position' \in [Trades -> PositionRows]
    BY <1>3, <2>1 DEF TypeOK, PrepareReserve, PositionRows
  <2>3. o \in [Legs -> OrderRows]
    BY ReservationType, OrdersAfterExpiryShape
  <2>4. orders' \in [Trades -> [Legs -> OrderRows]]
    BY <1>3, <2>3 DEF TypeOK, PrepareReserve
  <2>5. request' \in [Trades -> RequestRows]
    BY <1>3, RequestAfterExpiryType DEF TypeOK, PrepareReserve
  <2> QED BY <2>2, <2>4, <2>5 DEF TypeOK, PrepareExit
<1> QED BY <1>1, <1>2, <1>3 DEF PrepareExit

LEMMA MarkedType ==
  ASSUME NEW o \in OrderRows, NEW r \in RequestRows
  PROVE  Marked(o, r) \in OrderRows
BY DEF Marked, OrderRows, Lifecycle

LEMMA ClaimType ==
  ASSUME TypeOK, NEW p \in Trades, NEW n \in CloseLegs, ClaimDispatch(p, n)
  PROVE  TypeOK'
<1> DEFINE o == OrdersAfterExpiry(p)
<1>0. n \in Legs /\ o \in [Legs -> OrderRows] /\ request[p] \in RequestRows
  BY OrdersAfterExpiryShape, LedgerAssumption DEF TypeOK, Legs, CloseLegs
<1>1. CASE ClaimRefuse(p, n)
  BY <1>1 DEF TypeOK, ClaimDispatch, ClaimRefuse
<1>2. CASE ClaimNoDispatch(p, n)
  <2>1. [o EXCEPT ![n] = WindowClosed(@)] \in [Legs -> OrderRows]
    BY <1>0, WindowClosedType
  <2>2. orders' \in [Trades -> [Legs -> OrderRows]]
    BY <1>0, <1>2, <2>1 DEF TypeOK, ClaimNoDispatch
  <2>3. request' \in [Trades -> RequestRows]
    BY <1>2, RequestAfterExpiryType DEF TypeOK, ClaimNoDispatch
  <2> QED BY <1>2, <2>2, <2>3 DEF TypeOK, ClaimDispatch, ClaimNoDispatch
<1>3. CASE ClaimCommit(p, n)
  <2>1. [o EXCEPT ![n] = Marked(@, request[p])] \in [Legs -> OrderRows]
    BY <1>0, MarkedType
  <2>2. orders' \in [Trades -> [Legs -> OrderRows]]
    BY <1>3, <2>1 DEF TypeOK, ClaimCommit
  <2>3. request' \in [Trades -> RequestRows]
    BY <1>3, RequestAfterExpiryType DEF TypeOK, ClaimCommit
  <2>4. sent' \subseteq Trades \X Legs
    BY <1>0, <1>3 DEF TypeOK, ClaimCommit
  <2> QED BY <2>2, <2>3, <2>4 DEF TypeOK, ClaimDispatch
<1> QED BY <1>1, <1>2, <1>3 DEF ClaimDispatch

LEMMA SetStatusType ==
  ASSUME TypeOK, NEW p \in Trades, NEW n \in Legs,
         NEW s \in Active \cup Terminal, SetStatus(p, n, s)
  PROVE  TypeOK'
<1> DEFINE o == [orders[p] EXCEPT ![n].status = s]
<1>1. o \in [Legs -> OrderRows]
  <2>1. orders[p] \in [Legs -> OrderRows] /\ orders[p][n] \in OrderRows
    BY DEF TypeOK
  <2>2. [orders[p][n] EXCEPT !.status = s] \in OrderRows
    BY <2>1, StatusRowType
  <2> QED BY <2>1, <2>2
<1>2. ExpireOrders(request[p], o) \in [Legs -> OrderRows]
  BY <1>1, ExpireShape
<1>3. orders' \in [Trades -> [Legs -> OrderRows]]
  BY <1>1, <1>2 DEF TypeOK, SetStatus
<1>4. now + RetryDelay \in Nat
  BY LedgerAssumption DEF TypeOK, Times
<1>5. \A t \in Nat : [RequestAfterExpiry(p) EXCEPT !.retryAfter = t] \in RequestRows
  BY RequestAfterExpiryType DEF RequestRows
<1>6. RequestAfterExpiry(p).retryAfter \in Nat
  BY RequestAfterExpiryType DEF RequestRows
<1>7. request' \in [Trades -> RequestRows]
  BY <1>4, <1>5, <1>6 DEF TypeOK, SetStatus
<1> QED BY <1>3, <1>7 DEF TypeOK, SetStatus

LEMMA RecordFillType ==
  ASSUME TypeOK, NEW p \in Trades, NEW n \in Legs, NEW lot \in Nat \ {0},
         NEW ts \in Times, RecordFill(p, n, lot, ts)
  PROVE  TypeOK'
<1> DEFINE reported == FillStatus(lot, orders[p][n].qty)
<1>1. reported \in Active \cup Terminal
  BY DEF FillStatus, Active, Terminal
<1>2. orders[p][n] \in OrderRows
  BY DEF TypeOK
<1>3. [orders[p][n] EXCEPT !.status = reported] \in OrderRows
  BY <1>1, <1>2, StatusRowType
<1>4. orders' \in [Trades -> [Legs -> OrderRows]]
  <2> HIDE DEF reported
  <2>1. PICK b \in BOOLEAN :
          orders' = [orders EXCEPT ![p][n].status = IF b THEN reported ELSE @]
    BY DEF RecordFill, reported
  <2>2. CASE b
    BY <1>3, <2>1, <2>2 DEF TypeOK
  <2>3. CASE ~b
    BY <1>2, <2>1, <2>3 DEF TypeOK, OrderRows
  <2> QED BY <2>2, <2>3
<1>5. [trade |-> p, leg |-> n, lot |-> lot, ts |-> ts] \in FillRows
  BY DEF FillRows
<1>6. fills' \in Seq(FillRows) /\ cursor' \in 0..Len(fills')
  BY <1>5 DEF TypeOK, RecordFill
<1> QED BY <1>4, <1>6 DEF TypeOK, RecordFill

LEMMA CommitFillType ==
  ASSUME TypeOK, CommitFill
  PROVE  TypeOK'
<1> DEFINE f == HeadFill
<1>1. f \in FillRows
  BY DEF TypeOK, CommitFill, HeadFill
<1>2. position[f.trade] \in PositionRows
  BY <1>1 DEF TypeOK, FillRows
<1> DEFINE x == position[f.trade]
<1>3. ApplyFill(x, f) \in PositionRows
  <2> HIDE DEF f, x
  <2>1. Applicable(f) /\ (f.leg # 0 => x.qty > 0)
    BY DEF CommitFill, Applicable, f, x
  <2>2. CASE f.leg = 0
    <3>1. Opened(x, f) \in PositionRows
      <4>1. CASE x.status = "none"
        BY <1>1, <1>2, <4>1 DEF Opened, FillRows, PositionRows, x
      <4>2. CASE x.status \in {"open", "closing"}
        BY <1>2, <4>2 DEF Opened, PositionRows, x
      <4>3. CASE x.status \notin {"none", "open", "closing"}
        BY <1>2, <4>3 DEF Opened, PositionRows, x
      <4> QED BY <4>1, <4>2, <4>3
    <3> QED BY <2>2, <3>1 DEF ApplyFill
  <2>3. CASE f.leg # 0
    <3>1. x.qty - 1 \in Nat
      BY <1>2, <2>1, <2>3 DEF PositionRows, x
    <3>2. Reduced(x) \in PositionRows
      BY <1>2, <3>1 DEF Reduced, PositionRows, x
    <3> QED BY <2>3, <3>2 DEF ApplyFill
  <2> QED BY <2>2, <2>3
<1>4. position' \in [Trades -> PositionRows]
  BY <1>3 DEF TypeOK, CommitFill
<1>5. cursor' \in 0..Len(fills)
  BY DEF TypeOK, CommitFill
<1> QED BY <1>4, <1>5 DEF TypeOK, CommitFill

LEMMA ReconcileType ==
  ASSUME TypeOK, ReconcileLostBook
  PROVE  TypeOK'
<1>1. ASSUME NEW p \in Trades, NEW n \in Legs
      PROVE  [orders[p][n] EXCEPT !.status = Reconciled(n, @)] \in OrderRows
  <2>1. orders[p][n] \in OrderRows
    BY DEF TypeOK
  <2>2. Reconciled(n, orders[p][n].status) \in {"none"} \cup Active \cup Terminal
    <3> DEFINE status == orders[p][n].status
    <3>1. CASE status = "approved"
      BY <3>1 DEF Reconciled, Active, Terminal
    <3>2. CASE status \in {"submitted", "partially_filled"}
      BY <3>2 DEF Reconciled, Terminal
    <3>3. CASE status \notin {"approved", "submitted", "partially_filled"}
      BY <2>1, <3>3 DEF Reconciled, OrderRows
    <3> QED BY <3>1, <3>2, <3>3
  <2> QED BY <2>1, <2>2 DEF OrderRows
<1> QED BY <1>1 DEF TypeOK, ReconcileLostBook

LEMMA TypeStep ==
  ASSUME TypeOK, [Next]_vars
  PROVE  TypeOK'
<1>1. CASE Tick
  BY <1>1, LedgerAssumption DEF TypeOK, Tick, Times
<1>2. CASE CommitFill
  BY <1>2, CommitFillType
<1>3. CASE ReconcileLostBook
  BY <1>3, ReconcileType
<1>4. ASSUME NEW p \in Trades, InsertEntry(p)
      PROVE  TypeOK'
  <2>1. [NoOrder EXCEPT !.status = "approved", !.qty = EntryQty] \in OrderRows
    BY LedgerAssumption DEF NoOrder, OrderRows, Active
  <2>2. 0 \in Legs
    BY LedgerAssumption DEF Legs
  <2> QED BY <1>4, <2>1, <2>2 DEF TypeOK, InsertEntry
<1>5. ASSUME NEW p \in Trades, NEW s \in {"submitted", "rejected"},
             UpdateEntryStatus(p, s)
      PROVE  TypeOK'
  <2>1. 0 \in Legs /\ s \in Active \cup Terminal
    BY LedgerAssumption DEF Legs, Active, Terminal
  <2>2. [orders[p][0] EXCEPT !.status = s] \in OrderRows
    BY <2>1, StatusRowType DEF TypeOK
  <2> QED BY <1>5, <2>1, <2>2 DEF TypeOK, UpdateEntryStatus
<1>6. ASSUME NEW p \in Trades, NEW r \in ExitReasons, NEW ts \in Times,
             NEW ok \in BOOLEAN, ObserveExit(p, r, ts, ok)
      PROVE  TypeOK'
  BY <1>6, ObserveType
<1>7. ASSUME NEW p \in Trades, AdvanceEodExpiry(p)
      PROVE  TypeOK'
  BY <1>7, AdvanceType
<1>8. ASSUME NEW p \in Trades, PrepareExit(p)
      PROVE  TypeOK'
  BY <1>8, PrepareType
<1>9. ASSUME NEW p \in Trades, NEW n \in CloseLegs, ClaimDispatch(p, n)
      PROVE  TypeOK'
  BY <1>9, ClaimType
<1>10. ASSUME NEW p \in Trades, NEW n \in Legs, NEW s \in Active \cup Terminal,
              ReportStatus(p, n, s)
       PROVE  TypeOK'
  BY <1>10, SetStatusType DEF ReportStatus
<1>11. ASSUME NEW p \in Trades, NEW n \in Legs, NEW ts \in Times,
              VenueFill(p, n, ts)
       PROVE  TypeOK'
  <2>1. Cardinality(FillsOf(p, n)) + 1 \in Nat \ {0}
    BY FillsOfFinite
  <2> QED BY <1>11, <2>1, RecordFillType DEF VenueFill
<1>12. CASE UNCHANGED vars
  BY <1>12 DEF TypeOK, vars
<1> QED
  BY <1>1, <1>2, <1>3, <1>4, <1>5, <1>6, <1>7, <1>8, <1>9, <1>10, <1>11, <1>12
  DEF Next

(* Every state of the ledger has the types of its tables, in particular no *)
(* transaction ever takes a quantity below zero or an attempt past its     *)
(* bound.                                                                  *)
THEOREM TypeCorrect == Spec => []TypeOK
<1>1. Init => TypeOK
  BY LedgerAssumption
  DEF Init, TypeOK, Times, Legs, NoOrder, OrderRows, NoPosition, PositionRows,
      NoRequest, RequestRows
<1>2. TypeOK /\ [Next]_vars => TypeOK'
  BY TypeStep
<1> QED BY <1>1, <1>2, PTL DEF Spec

(***************************************************************************)
(* The inductive invariant.  The properties are about single rows and      *)
(* about sent; what makes them inductive is how the request, the legs and  *)
(* the attempt counter of one trade hang together.                         *)
(***************************************************************************)
FreshLegs(p) ==
  \A n \in CloseLegs : n > position[p].attempt => orders[p][n] = NoOrder

AtMostOneActive(p) ==
  \A m, n \in CloseLegs :
    (orders[p][m].status \in Active /\ orders[p][n].status \in Active) => m = n

RequestComesFirst(p) ==
  request[p].reason = "none" =>
    /\ request[p] = NoRequest
    /\ \A n \in CloseLegs : orders[p][n] = NoOrder

SentExists(p) ==
  \A n \in CloseLegs : <<p, n>> \in sent => orders[p][n].status # "none"

MarkerIsSent(p) ==
  Lifecycle(request[p]) =>
    \A n \in CloseLegs : orders[p][n].dispatched <=> <<p, n>> \in sent

WindowClosedUnsent(p) ==
  \A n \in CloseLegs :
    orders[p][n].windowClosed =>
      /\ <<p, n>> \notin sent
      /\ orders[p][n].status = "cancelled"

CloseShape(p) ==
  \A n \in CloseLegs :
    orders[p][n].status # "none" =>
      /\ orders[p][n].reason \in ExitReasons
      /\ orders[p][n].qty # 0
      /\ orders[p][n].reason = "eod_flatten" => Lifecycle(request[p])

RequestClock(p) ==
  /\ request[p].expired => now >= request[p].closeAt
  /\ request[p].retryAfter <= now + RetryDelay

TradeInv(p) ==
  /\ FreshLegs(p)
  /\ AtMostOneActive(p)
  /\ RequestComesFirst(p)
  /\ SentExists(p)
  /\ MarkerIsSent(p)
  /\ WindowClosedUnsent(p)
  /\ CloseShape(p)
  /\ RequestClock(p)

IInv == TypeOK /\ \A p \in Trades : TradeInv(p)

(***************************************************************************)
(* Every step of the ledger, seen from one trade, is one of four: it moves *)
(* its rows, stores its request, reserves a close or permits a venue call. *)
(***************************************************************************)
LegMoves(p, n) ==
  LET o == orders[p][n]
      u == orders'[p][n]
  IN \/ u = o
     \/ /\ o.status \in Active
        /\ u.status \in Active \cup Terminal
        /\ StatusForward(o.status, u.status)
        /\ u.qty = o.qty /\ u.reason = o.reason /\ u.dispatched = o.dispatched
        /\ u.windowClosed => u.status = "cancelled" /\ <<p, n>> \notin sent

RequestMoves(p) ==
  LET r == request[p]
      s == request'[p]
  IN \/ s = r
     \/ /\ r.reason # "none"
        /\ s.reason = r.reason /\ s.flattenAt = r.flattenAt /\ s.closeAt = r.closeAt
        /\ r.expired => s.expired
        /\ s.expired => now >= r.closeAt
        /\ r.fallback # "none" => s.fallback = r.fallback
        /\ r.retryAfter <= s.retryAfter
        /\ s.retryAfter <= now + RetryDelay

(* An expiry, once recorded, leaves no EOD reservation unsent. *)
ExpiryCancels(p) ==
  (request'[p].expired /\ ~request[p].expired) =>
    \A n \in CloseLegs : ~UnsentEod(orders'[p][n])

SentStands(p) == \A n \in CloseLegs : <<p, n>> \in sent' <=> <<p, n>> \in sent

Moves(p) ==
  /\ \A n \in CloseLegs : LegMoves(p, n)
  /\ RequestMoves(p)
  /\ ExpiryCancels(p)
  /\ SentStands(p)
  /\ position'[p].attempt = position[p].attempt
  /\ now <= now'

Stores(p) ==
  /\ request[p].reason = "none"
  /\ \E reason \in ExitReasons : request'[p] = NewRequest(p, reason)
  /\ UNCHANGED <<now, orders, position, sent>>

Reserves(p) ==
  LET attempt == position[p].attempt + 1 IN
  /\ attempt \in CloseLegs
  /\ request[p].reason # "none"
  /\ request[p].retryAfter <= now
  /\ position[p].qty # 0
  /\ ~WorkingEntry(p) /\ ~PendingFill(p)
  /\ EffectiveState(RequestAfterExpiry(p)) \notin {"dormant", "not_open"}
  /\ request'[p] = RequestAfterExpiry(p)
  /\ orders'[p][attempt] = Reservation(p)
  /\ \A n \in CloseLegs \ {attempt} :
       LegMoves(p, n) /\ orders'[p][n].status \notin Active
  /\ RequestMoves(p)
  /\ position'[p].attempt = attempt
  /\ UNCHANGED <<now, sent>>

Dispatches(p, n) ==
  /\ Claimable(p, n)
  /\ ClaimResult(p, n) = "claimed"
  /\ orders'[p][n] = Marked(orders[p][n], request[p])
  /\ \A m \in CloseLegs \ {n} : LegMoves(p, m)
  /\ RequestMoves(p)
  /\ sent' = sent \cup {<<p, n>>}
  /\ UNCHANGED <<now, position>>

TradeStep(p) ==
  \/ Moves(p)
  \/ Stores(p)
  \/ Reserves(p)
  \/ \E n \in CloseLegs : Dispatches(p, n)

LEMMA StandingMoves ==
  ASSUME NEW q \in Trades,
         \A n \in CloseLegs : orders'[q][n] = orders[q][n],
         request'[q] = request[q], SentStands(q),
         position'[q].attempt = position[q].attempt, now <= now'
  PROVE  Moves(q)
BY DEF Moves, LegMoves, RequestMoves, ExpiryCancels

(* _advance_expiry cancels the one close that can be an unsent EOD         *)
(* reservation.                                                            *)
LEMMA ExpiryLeavesNoneUnsent ==
  ASSUME NEW r, NEW o \in [Legs -> OrderRows], ExpiryDue(r),
         \A m, n \in CloseLegs :
           (o[m].status \in Active /\ o[n].status \in Active) => m = n,
         NEW n \in CloseLegs
  PROVE  ~UnsentEod(ExpireOrders(r, o)[n])
<1> SUFFICES ASSUME UnsentEod(ExpireOrders(r, o)[n])
             PROVE  FALSE
  OBVIOUS
<1>1. n \in Legs /\ o[n] \in OrderRows
  BY LedgerAssumption DEF CloseLegs, Legs
<1>2. ~UnsentEod(WindowClosed(o[n]))
  BY <1>1 DEF UnsentEod, WindowClosed, OrderRows
<1>3. UnsentEod(o[n])
  BY <1>1, <1>2, ExpireShape
<1>4. ActiveCloses(o) = {n}
  BY <1>3 DEF ActiveCloses, UnsentEod, Active
<1>5. LastActiveClose(o) = n
  BY <1>4 DEF LastActiveClose, CloseLegs
<1>6. ExpireOrders(r, o) = [o EXCEPT ![n] = WindowClosed(@)]
  BY <1>3, <1>4, <1>5 DEF ExpireOrders
<1> QED BY <1>1, <1>2, <1>6

LEMMA ExpiryCancelsIt ==
  ASSUME IInv, NEW p \in Trades,
         request'[p].expired <=> RequestAfterExpiry(p).expired,
         \A n \in CloseLegs : \/ orders'[p][n] = OrdersAfterExpiry(p)[n]
                             \/ orders'[p][n].status # "approved"
  PROVE  ExpiryCancels(p)
<1> SUFFICES ASSUME ExpiryDue(request[p]), NEW n \in CloseLegs
             PROVE  ~UnsentEod(orders'[p][n])
  BY RequestAfterExpiryType DEF IInv, ExpiryCancels
<1>1. orders[p] \in [Legs -> OrderRows] /\ AtMostOneActive(p)
  BY DEF IInv, TypeOK, TradeInv
<1>2. ~UnsentEod(OrdersAfterExpiry(p)[n])
  BY <1>1, ExpiryLeavesNoneUnsent DEF AtMostOneActive, OrdersAfterExpiry
<1> QED BY <1>2 DEF UnsentEod

LEMMA ExpiryRequestMoves ==
  ASSUME IInv, NEW p \in Trades, request'[p] = RequestAfterExpiry(p)
  PROVE  RequestMoves(p)
<1>1. request[p] \in RequestRows /\ TradeInv(p) /\ now \in Nat
  BY LedgerAssumption DEF IInv, TypeOK, Times
<1>2. CASE request[p].reason = "none"
  <2>1. ~ExpiryDue(request[p])
    BY <1>2 DEF ExpiryDue, Lifecycle
  <2> QED BY <1>1, <2>1 DEF RequestMoves, RequestAfterExpiry, RequestRows
<1>3. CASE request[p].reason # "none"
  BY <1>1, <1>3
  DEF RequestMoves, RequestAfterExpiry, RequestRows, ExpiryDue, TradeInv, RequestClock
<1> QED BY <1>2, <1>3

LEMMA ExpiryLegMoves ==
  ASSUME IInv, NEW p \in Trades, NEW n \in CloseLegs,
         orders'[p][n] = OrdersAfterExpiry(p)[n]
  PROVE  LegMoves(p, n)
<1>1. n \in Legs /\ orders[p][n] \in OrderRows /\ TradeInv(p)
  BY LedgerAssumption DEF IInv, TypeOK, Legs, CloseLegs
<1>2. CASE OrdersAfterExpiry(p)[n] = orders[p][n]
  BY <1>2 DEF LegMoves
<1>3. CASE /\ ExpiryDue(request[p])
           /\ UnsentEod(orders[p][n])
           /\ OrdersAfterExpiry(p)[n] = WindowClosed(orders[p][n])
  <2>1. <<p, n>> \notin sent
    BY <1>1, <1>3 DEF ExpiryDue, UnsentEod, TradeInv, MarkerIsSent
  <2> QED
    BY <1>1, <1>3, <2>1
    DEF LegMoves, WindowClosed, UnsentEod, OrderRows, StatusForward, Active, Terminal
<1> QED BY <1>1, <1>2, <1>3, OrdersAfterExpiryShape DEF IInv

LEMMA ObserveStep ==
  ASSUME IInv, NEW p \in Trades, NEW reason \in ExitReasons,
         NEW ts \in Times, NEW ok \in BOOLEAN, ObserveExit(p, reason, ts, ok),
         NEW q \in Trades
  PROVE  TradeStep(q)
<1> DEFINE result == ObserveResult(p, reason, ts, ok)
<1>0. now' = now /\ position' = position /\ sent' = sent /\ now \in Nat
  BY LedgerAssumption DEF IInv, TypeOK, Times, ObserveExit
<1>1. CASE q # p
  <2>1. orders'[q] = orders[q] /\ request'[q] = request[q]
    BY <1>1 DEF IInv, TypeOK, ObserveExit, ObserveStored, ObserveExisting
  <2> QED BY <1>0, <2>1, StandingMoves DEF TradeStep, SentStands
<1>2. CASE q = p /\ result = "stored" /\ ObserveStored(p, reason)
  <2>1. request[p].reason = "none"
    BY <1>2 DEF result, ObserveResult
  <2>2. request'[p] = NewRequest(p, reason)
    BY <1>2 DEF IInv, TypeOK, ObserveStored
  <2> QED BY <1>0, <1>2, <2>1, <2>2 DEF TradeStep, Stores, ObserveStored
<1>3. CASE /\ q = p
           /\ result \in Acknowledged \ {"stored"}
           /\ ObserveExisting(p, reason, result)
  <2>1. request[p].reason # "none"
    BY <1>3 DEF result, ObserveResult, Acknowledged
  <2>2. result = "fallback_stored" => request[p].fallback = "none"
    BY DEF result, ObserveResult
  <2>3. orders'[p] = OrdersAfterExpiry(p)
    BY <1>3 DEF IInv, TypeOK, ObserveExisting
  <2>4. RequestMoves(p)
    <3>1. request[p] \in RequestRows /\ TradeInv(p)
      BY DEF IInv, TypeOK
    <3>2. CASE result = "fallback_stored"
      <4>1. request'[p] = [RequestAfterExpiry(p) EXCEPT !.fallback = reason]
        BY <1>3, <3>2 DEF IInv, TypeOK, ObserveExisting
      <4> QED
        BY <1>0, <2>1, <2>2, <3>1, <3>2, <4>1
        DEF RequestMoves, RequestAfterExpiry, RequestRows, ExpiryDue, TradeInv,
            RequestClock
    <3>3. CASE result # "fallback_stored"
      <4>1. request'[p] = RequestAfterExpiry(p)
        BY <1>3, <3>3 DEF IInv, TypeOK, ObserveExisting
      <4> QED BY <4>1, ExpiryRequestMoves
    <3> QED BY <3>2, <3>3
  <2>5. request'[p].expired <=> RequestAfterExpiry(p).expired
    <3>1. request'[p] \in {RequestAfterExpiry(p),
                          [RequestAfterExpiry(p) EXCEPT !.fallback = reason]}
      BY <1>3 DEF IInv, TypeOK, ObserveExisting
    <3>2. RequestAfterExpiry(p) \in RequestRows
      BY RequestAfterExpiryType DEF IInv
    <3> QED BY <3>1, <3>2 DEF RequestRows
  <2> QED
    BY <1>0, <1>3, <2>3, <2>4, <2>5, ExpiryLegMoves, ExpiryCancelsIt
    DEF TradeStep, Moves, SentStands
<1>4. CASE q = p /\ UNCHANGED <<orders, request>>
  BY <1>0, <1>4, StandingMoves DEF TradeStep, SentStands
<1> QED BY <1>1, <1>2, <1>3, <1>4 DEF ObserveExit, result

LEMMA AdvanceStep ==
  ASSUME IInv, NEW p \in Trades, AdvanceEodExpiry(p), NEW q \in Trades
  PROVE  TradeStep(q)
<1>0. now' = now /\ position' = position /\ sent' = sent /\ now \in Nat
  BY LedgerAssumption DEF IInv, TypeOK, Times, AdvanceEodExpiry
<1>1. CASE orders'[q] = orders[q] /\ request'[q] = request[q]
  BY <1>0, <1>1, StandingMoves DEF TradeStep, SentStands
<1>2. CASE q = p /\ request'[p] = RequestAfterExpiry(p)
             /\ orders'[p] = OrdersAfterExpiry(p)
  BY <1>0, <1>2, ExpiryLegMoves, ExpiryRequestMoves, ExpiryCancelsIt
  DEF TradeStep, Moves, SentStands
<1> QED BY <1>1, <1>2 DEF IInv, TypeOK, AdvanceEodExpiry

LEMMA PrepareStep ==
  ASSUME IInv, NEW p \in Trades, PrepareExit(p), NEW q \in Trades
  PROVE  TradeStep(q)
<1> DEFINE attempt == position[p].attempt + 1
<1>0. now' = now /\ sent' = sent /\ now \in Nat
  BY LedgerAssumption DEF IInv, TypeOK, Times, PrepareExit
<1>1. CASE orders'[q] = orders[q] /\ request'[q] = request[q]
             /\ position'[q].attempt = position[q].attempt
  BY <1>0, <1>1, StandingMoves DEF TradeStep, SentStands
<1>2. CASE q = p /\ PrepareNoReservation(p)
  <2>1. /\ request'[p] = RequestAfterExpiry(p)
        /\ orders'[p] = OrdersAfterExpiry(p)
        /\ position'[p] = position[p]
    BY <1>2 DEF IInv, TypeOK, PrepareNoReservation
  <2> QED
    BY <1>0, <1>2, <2>1, ExpiryLegMoves, ExpiryRequestMoves, ExpiryCancelsIt
    DEF TradeStep, Moves, SentStands
<1>3. CASE q = p /\ PrepareReserve(p)
  <2>1. attempt \in CloseLegs
    BY <1>3, LedgerAssumption
    DEF IInv, TypeOK, PrepareReserve, PositionRows, Legs, CloseLegs
  <2>2. CloseLegs \subseteq Legs
    BY LedgerAssumption DEF CloseLegs, Legs
  <2>3. PrepareResult(p) = "reserve"
    BY <1>3 DEF PrepareReserve
  <2>4. /\ request[p].reason # "none"
        /\ ~Flat(p)
        /\ ~WorkingEntry(p) /\ ~PendingFill(p)
        /\ EffectiveState(RequestAfterExpiry(p)) \notin {"dormant", "not_open"}
        /\ ~CloseInTheWay(OrdersAfterExpiry(p))
        /\ ~(RequestAfterExpiry(p).retryAfter > now)
    <3> DEFINE o == OrdersAfterExpiry(p)
               r == RequestAfterExpiry(p)
               k == FirstActiveClose(o)
    <3>1. ReservationResult(o[k], r) # "reserve"
      BY DEF ReservationResult
    <3> QED BY <2>3, <3>1 DEF PrepareResult
  <2>5. request[p].retryAfter <= now
    <3>1. request[p] \in RequestRows
      BY DEF IInv, TypeOK
    <3> QED BY <1>0, <2>4, <3>1 DEF RequestAfterExpiry, RequestRows
  <2>6. /\ orders'[p] = [OrdersAfterExpiry(p) EXCEPT ![attempt] = Reservation(p)]
        /\ request'[p] = RequestAfterExpiry(p)
        /\ position'[p] = [position[p] EXCEPT !.attempt = attempt]
    BY <1>3 DEF IInv, TypeOK, PrepareReserve
  <2>7. OrdersAfterExpiry(p) \in [Legs -> OrderRows]
    BY OrdersAfterExpiryShape DEF IInv
  <2>8. \A n \in CloseLegs \ {attempt} :
          LegMoves(p, n) /\ orders'[p][n].status \notin Active
    <3> TAKE n \in CloseLegs \ {attempt}
    <3>1. orders'[p][n] = OrdersAfterExpiry(p)[n]
      BY <2>2, <2>6, <2>7
    <3>2. orders'[p][n].status \notin Active
      BY <2>4, <3>1 DEF CloseInTheWay, ActiveCloses
    <3> QED BY <3>1, <3>2, ExpiryLegMoves
  <2>9. orders'[p][attempt] = Reservation(p)
    BY <2>1, <2>2, <2>6, <2>7
  <2>10. position'[p].attempt = attempt
    BY <2>6 DEF IInv, TypeOK, PositionRows
  <2>11. position[p].qty # 0
    BY <2>4 DEF Flat
  <2>12. Reserves(p)
    BY <1>0, <2>1, <2>4, <2>5, <2>6, <2>8, <2>9, <2>10, <2>11, ExpiryRequestMoves
    DEF Reserves
  <2> QED BY <1>3, <2>12 DEF TradeStep
<1> QED
  BY <1>1, <1>2, <1>3
  DEF IInv, TypeOK, PrepareExit, PrepareRefuse, PrepareNoReservation, PrepareReserve

LEMMA ClaimStep ==
  ASSUME IInv, NEW p \in Trades, NEW n \in CloseLegs, ClaimDispatch(p, n),
         NEW q \in Trades
  PROVE  TradeStep(q)
<1> DEFINE o == OrdersAfterExpiry(p)
<1>0. now' = now /\ position' = position /\ now \in Nat
  BY LedgerAssumption DEF IInv, TypeOK, Times, ClaimDispatch
<1>1. CloseLegs \subseteq Legs /\ o \in [Legs -> OrderRows]
      /\ \A m \in CloseLegs : orders[p][m] \in OrderRows
  BY LedgerAssumption, OrdersAfterExpiryShape DEF IInv, TypeOK, CloseLegs, Legs
<1>2. CASE orders'[q] = orders[q] /\ request'[q] = request[q] /\ SentStands(q)
  BY <1>0, <1>2, StandingMoves DEF TradeStep
<1>3. CASE q = p /\ ClaimNoDispatch(p, n)
  <2>1. request'[p] = RequestAfterExpiry(p) /\ SentStands(p)
    BY <1>3 DEF IInv, TypeOK, ClaimNoDispatch, SentStands
  <2>2. CASE ClaimResult(p, n) # "window_expired"
    <3>1. orders'[p] = o
      BY <1>3, <2>2 DEF IInv, TypeOK, ClaimNoDispatch
    <3> QED
      BY <1>0, <1>3, <2>1, <3>1, ExpiryLegMoves, ExpiryRequestMoves, ExpiryCancelsIt
      DEF TradeStep, Moves
  <2>3. CASE ClaimResult(p, n) = "window_expired"
    <3>1. orders'[p] = [o EXCEPT ![n] = WindowClosed(@)]
      BY <1>3, <2>3 DEF IInv, TypeOK, ClaimNoDispatch
    <3>2. \A m \in CloseLegs \ {n} : LegMoves(p, m)
      <4> TAKE m \in CloseLegs \ {n}
      <4>1. orders'[p][m] = o[m]
        BY <1>1, <3>1
      <4> QED BY <4>1, ExpiryLegMoves
    <3>3. Lifecycle(request[p])
      <4>1. ClaimFinalResult(p, o[n]) # "window_expired"
        BY DEF ClaimFinalResult
      <4> QED BY <1>3, <2>3, <4>1 DEF ClaimNoDispatch, ClaimResult
    <3>4. orders[p][n].status = "approved" /\ ~orders[p][n].dispatched
      BY <1>3, <3>3 DEF ClaimNoDispatch, Claimable
    <3>5. <<p, n>> \notin sent
      BY <3>3, <3>4 DEF IInv, TradeInv, MarkerIsSent
    <3>6. orders'[p][n] = WindowClosed(orders[p][n])
      <4>1. orders'[p][n] = WindowClosed(o[n])
        BY <1>1, <3>1
      <4>2. o[n] = orders[p][n] \/ o[n] = WindowClosed(orders[p][n])
        BY <1>1, OrdersAfterExpiryShape DEF IInv
      <4> QED BY <1>1, <4>1, <4>2 DEF WindowClosed, OrderRows
    <3>7. LegMoves(p, n)
      BY <1>1, <3>4, <3>5, <3>6
      DEF LegMoves, WindowClosed, OrderRows, StatusForward, Active, Terminal
    <3>8. orders'[p][n].status # "approved"
      BY <1>1, <3>6 DEF WindowClosed, OrderRows
    <3>9. ExpiryCancels(p)
      BY <1>1, <2>1, <3>1, <3>8, ExpiryCancelsIt
    <3> QED
      BY <1>0, <1>3, <2>1, <3>2, <3>7, <3>9, ExpiryRequestMoves DEF TradeStep, Moves
  <2> QED BY <2>2, <2>3
<1>4. CASE q = p /\ ClaimCommit(p, n)
  <2>1. /\ request'[p] = RequestAfterExpiry(p)
        /\ orders'[p] = [o EXCEPT ![n] = Marked(@, request[p])]
        /\ sent' = sent \cup {<<p, n>>}
        /\ Claimable(p, n)
        /\ ClaimResult(p, n) = "claimed"
    BY <1>4 DEF IInv, TypeOK, ClaimCommit
  <2>2. o[n] = orders[p][n]
    <3>1. SUFFICES ASSUME ExpiryDue(request[p]),
                          o[n] = WindowClosed(orders[p][n])
                   PROVE  FALSE
      BY <1>1, OrdersAfterExpiryShape DEF IInv
    <3>2. o[n].status = "cancelled"
      BY <1>1, <3>1 DEF WindowClosed, OrderRows
    <3>3. ClaimLifecycleResult(o[n], RequestAfterExpiry(p)) = "window_expired"
      BY <3>2 DEF ClaimLifecycleResult
    <3>4. ClaimResult(p, n) \in {"unsafe", "stale", "already_claimed", "window_expired"}
      BY <3>1, <3>3 DEF ClaimResult, ExpiryDue
    <3> QED BY <2>1, <3>4
  <2>3. orders'[p][n] = Marked(orders[p][n], request[p])
    BY <1>1, <2>1, <2>2
  <2>4. \A m \in CloseLegs \ {n} : LegMoves(p, m)
    <3> TAKE m \in CloseLegs \ {n}
    <3>1. orders'[p][m] = o[m]
      BY <1>1, <2>1
    <3> QED BY <3>1, ExpiryLegMoves
  <2>5. Dispatches(p, n)
    BY <1>0, <2>1, <2>3, <2>4, ExpiryRequestMoves DEF Dispatches
  <2> QED BY <1>4, <2>5 DEF TradeStep
<1>5. CASE q # p
  <2>1. orders'[q] = orders[q] /\ request'[q] = request[q] /\ SentStands(q)
    BY <1>5
    DEF IInv, TypeOK, ClaimDispatch, ClaimRefuse, ClaimNoDispatch, ClaimCommit,
        SentStands
  <2> QED BY <1>2, <2>1
<1>6. CASE q = p /\ ClaimRefuse(p, n)
  BY <1>2, <1>6 DEF ClaimRefuse, SentStands
<1> QED BY <1>3, <1>4, <1>5, <1>6 DEF ClaimDispatch

LEMMA ReportStep ==
  ASSUME IInv, NEW p \in Trades, NEW n \in Legs,
         NEW s \in Active \cup Terminal, ReportStatus(p, n, s), NEW q \in Trades
  PROVE  TradeStep(q)
<1> DEFINE o == [orders[p] EXCEPT ![n].status = s]
<1>0. now' = now /\ position' = position /\ sent' = sent /\ now \in Nat
      /\ RetryDelay \in Nat
  BY LedgerAssumption DEF IInv, TypeOK, Times, ReportStatus, SetStatus
<1>1. CloseLegs \subseteq Legs /\ o \in [Legs -> OrderRows] /\ 0 \notin CloseLegs
  BY LedgerAssumption, StatusRowType DEF IInv, TypeOK, CloseLegs, Legs
<1>2. CASE q # p \/ n = 0
  <2>1. request'[q] = request[q] /\ \A m \in CloseLegs : orders'[q][m] = orders[q][m]
    BY <1>1, <1>2 DEF IInv, TypeOK, ReportStatus, SetStatus
  <2> QED BY <1>0, <2>1, StandingMoves DEF TradeStep, SentStands
<1>3. CASE q = p /\ n # 0
  <2>1. n \in CloseLegs /\ orders[p][n] \in OrderRows /\ TradeInv(p)
    BY <1>3, LedgerAssumption DEF IInv, TypeOK, CloseLegs, Legs
  <2>2. /\ orders'[p] = ExpireOrders(request[p], o)
        /\ request'[p] = [RequestAfterExpiry(p) EXCEPT
                            !.retryAfter = IF s \in {"cancelled", "rejected"}
                                           THEN now + RetryDelay ELSE @]
        /\ StatusAllowed(orders[p][n].status, s)
    BY <1>3 DEF IInv, TypeOK, ReportStatus, SetStatus, StatusChanges
  <2>3. RequestMoves(p)
    <3>1. request[p].reason # "none"
      BY <2>1, <2>2 DEF TradeInv, RequestComesFirst, NoOrder, StatusAllowed
    <3>2. request[p] \in RequestRows
      BY DEF IInv, TypeOK
    <3> QED
      BY <1>0, <2>1, <2>2, <3>1, <3>2
      DEF RequestMoves, RequestAfterExpiry, RequestRows, ExpiryDue, TradeInv,
          RequestClock
  <2>4. LegMoves(p, n)
    <3>1. o[n] = [orders[p][n] EXCEPT !.status = s]
      BY <2>1 DEF IInv, TypeOK
    <3>2. orders'[p][n] = o[n]
      BY <1>1, <2>1, <2>2, <3>1, ExpireShape DEF UnsentEod, StatusAllowed, OrderRows
    <3>3. ~orders[p][n].windowClosed
      BY <2>1, <2>2 DEF TradeInv, WindowClosedUnsent, StatusAllowed
    <3> QED
      BY <2>1, <2>2, <3>1, <3>2, <3>3
      DEF LegMoves, StatusForward, StatusAllowed, Active, Terminal, OrderRows
  <2>5. ASSUME NEW m \in CloseLegs, m # n
        PROVE  LegMoves(p, m)
    <3>1. o[m] = orders[p][m] /\ m \in Legs /\ o[m] \in OrderRows
      BY <1>1, <2>5 DEF IInv, TypeOK
    <3>2. CASE orders'[p][m] = o[m]
      BY <3>1, <3>2 DEF LegMoves
    <3>3. CASE /\ ExpiryDue(request[p])
               /\ UnsentEod(o[m])
               /\ orders'[p][m] = WindowClosed(o[m])
      <4>1. <<p, m>> \notin sent
        BY <2>1, <3>1, <3>3 DEF ExpiryDue, UnsentEod, TradeInv, MarkerIsSent
      <4> QED
        BY <3>1, <3>3, <4>1
        DEF LegMoves, WindowClosed, UnsentEod, OrderRows, StatusForward, Active,
            Terminal
    <3> QED BY <1>1, <2>2, <3>1, <3>2, <3>3, ExpireShape
  <2>6. ExpiryCancels(p)
    <3> SUFFICES ASSUME request'[p].expired, ~request[p].expired, NEW m \in CloseLegs
                 PROVE  ~UnsentEod(orders'[p][m])
      BY DEF ExpiryCancels
    <3>1. ExpiryDue(request[p])
      <4>1. request'[p].expired <=> RequestAfterExpiry(p).expired
        BY <2>2, RequestAfterExpiryType DEF IInv, RequestRows
      <4> QED BY <4>1, RequestAfterExpiryType DEF IInv
    <3>2. \A k \in CloseLegs : o[k].status \in Active => orders[p][k].status \in Active
      BY <1>1, <2>1, <2>2 DEF IInv, TypeOK, StatusAllowed, Active
    <3>3. \A k, l \in CloseLegs :
            (o[k].status \in Active /\ o[l].status \in Active) => k = l
      BY <2>1, <3>2 DEF TradeInv, AtMostOneActive
    <3> HIDE DEF o
    <3> QED BY <1>1, <2>2, <3>1, <3>3, ExpiryLeavesNoneUnsent
  <2> QED
    BY <1>0, <1>3, <2>3, <2>4, <2>5, <2>6 DEF TradeStep, Moves, SentStands
<1> QED BY <1>2, <1>3

LEMMA FillStep ==
  ASSUME IInv, NEW p \in Trades, NEW n \in Legs, NEW ts \in Times,
         VenueFill(p, n, ts), NEW q \in Trades
  PROVE  TradeStep(q)
<1> DEFINE u == orders'[p][n]
<1>0. now' = now /\ position' = position /\ sent' = sent /\ request' = request
      /\ now \in Nat
  BY LedgerAssumption DEF IInv, TypeOK, Times, VenueFill, RecordFill
<1>1. /\ q # p => orders'[q] = orders[q]
      /\ \A m \in Legs \ {n} : orders'[p][m] = orders[p][m]
      /\ \/ u = orders[p][n]
         \/ \E s \in {"filled", "partially_filled"} :
              u = [orders[p][n] EXCEPT !.status = s]
  <2> DEFINE reported == FillStatus(Cardinality(FillsOf(p, n)) + 1, orders[p][n].qty)
  <2>1. reported \in {"filled", "partially_filled"}
    BY DEF FillStatus
  <2> HIDE DEF reported
  <2>2. PICK b \in BOOLEAN :
          orders' = [orders EXCEPT ![p][n].status = IF b THEN reported ELSE @]
    BY DEF VenueFill, RecordFill, reported
  <2>3. orders \in [Trades -> [Legs -> OrderRows]]
    BY DEF IInv, TypeOK
  <2>4. CASE b
    BY <2>1, <2>2, <2>3, <2>4
  <2>5. CASE ~b
    <3>1. [orders[p][n] EXCEPT !.status = @] = orders[p][n]
      BY <2>3 DEF OrderRows
    <3>2. orders' = [orders EXCEPT ![p][n] = orders[p][n]]
      BY <2>2, <2>3, <2>5, <3>1
    <3> QED BY <2>3, <3>2
  <2> QED BY <2>4, <2>5
<1>2. LegMoves(p, n) \/ n = 0
  <2>1. orders[p][n] \in OrderRows /\ orders[p][n].status \in Active /\ TradeInv(p)
    BY DEF IInv, TypeOK, VenueFill, Working
  <2>2. n # 0 => ~orders[p][n].windowClosed
    <3>1. n # 0 => n \in CloseLegs
      BY LedgerAssumption DEF Legs, CloseLegs
    <3> QED BY <2>1, <3>1 DEF TradeInv, WindowClosedUnsent, Active
  <2>3. CASE u = orders[p][n]
    BY <2>3 DEF LegMoves
  <2>4. ASSUME n # 0, NEW s \in {"filled", "partially_filled"},
               u = [orders[p][n] EXCEPT !.status = s]
        PROVE  LegMoves(p, n)
    <3>1. /\ u.status = s /\ u.qty = orders[p][n].qty
          /\ u.reason = orders[p][n].reason
          /\ u.dispatched = orders[p][n].dispatched
          /\ u.windowClosed = orders[p][n].windowClosed
      BY <2>1, <2>4 DEF OrderRows
    <3> QED
      BY <2>1, <2>2, <2>4, <3>1 DEF LegMoves, StatusForward, Active, Terminal
  <2> QED BY <1>1, <2>3, <2>4
<1>3. \A m \in CloseLegs : LegMoves(q, m)
  BY <1>1, <1>2, LedgerAssumption DEF LegMoves, CloseLegs, Legs
<1> QED BY <1>0, <1>3 DEF TradeStep, Moves, RequestMoves, ExpiryCancels, SentStands

LEMMA EveryTradeSteps ==
  ASSUME IInv, Next, NEW q \in Trades
  PROVE  TradeStep(q)
<1>0. now \in Nat /\ CloseLegs \subseteq Legs /\ 0 \notin CloseLegs
  BY LedgerAssumption DEF IInv, TypeOK, Times, CloseLegs, Legs
<1>1. CASE Tick
  <2>1. now <= now'
    BY <1>0, <1>1 DEF Tick
  <2> QED BY <1>1, <2>1, StandingMoves DEF Tick, TradeStep, SentStands
<1>2. CASE CommitFill
  <2>1. HeadFill.trade \in Trades
    <3>1. HeadFill \in FillRows
      BY <1>2 DEF IInv, TypeOK, CommitFill, HeadFill
    <3> QED BY <3>1 DEF FillRows
  <2>2. \A x \in PositionRows : ApplyFill(x, HeadFill).attempt = x.attempt
    BY DEF ApplyFill, Opened, Reduced, PositionRows
  <2>3. position'[q].attempt = position[q].attempt
    BY <1>2, <2>1, <2>2 DEF IInv, TypeOK, CommitFill
  <2> QED
    BY <1>0, <1>2, <2>3, StandingMoves DEF CommitFill, TradeStep, SentStands
<1>3. CASE ReconcileLostBook
  <2>1. ASSUME NEW n \in CloseLegs
        PROVE  LegMoves(q, n)
    <3>1. orders[q][n] \in OrderRows /\ TradeInv(q)
      BY <1>0 DEF IInv, TypeOK
    <3>2. orders'[q][n] = [orders[q][n] EXCEPT
                             !.status = Reconciled(n, orders[q][n].status)]
      BY <1>0, <1>3 DEF ReconcileLostBook
    <3>3. CASE orders[q][n].status \in {"submitted", "partially_filled"}
      <4>1. orders'[q][n] = [orders[q][n] EXCEPT !.status = "expired"]
        BY <3>2, <3>3 DEF Reconciled
      <4>2. ~orders[q][n].windowClosed
        BY <3>1, <3>3 DEF TradeInv, WindowClosedUnsent
      <4> QED
        BY <3>1, <3>3, <4>1, <4>2
        DEF LegMoves, StatusForward, Active, Terminal, OrderRows
    <3>4. CASE orders[q][n].status \notin {"submitted", "partially_filled"}
      <4>1. Reconciled(n, orders[q][n].status) = orders[q][n].status
        BY <1>0, <3>4 DEF Reconciled
      <4> QED BY <3>1, <3>2, <4>1 DEF LegMoves, OrderRows
    <3> QED BY <3>3, <3>4
  <2> QED
    BY <1>0, <1>3, <2>1
    DEF ReconcileLostBook, TradeStep, Moves, RequestMoves, ExpiryCancels, SentStands
<1>4. ASSUME NEW p \in Trades, InsertEntry(p)
      PROVE  TradeStep(q)
  <2>1. \A n \in CloseLegs : orders'[q][n] = orders[q][n]
    BY <1>0, <1>4 DEF IInv, TypeOK, InsertEntry
  <2>2. SentStands(q)
    BY <1>0, <1>4 DEF SentStands, InsertEntry
  <2> QED
    BY <1>0, <1>4, <2>1, <2>2, StandingMoves DEF InsertEntry, TradeStep
<1>5. ASSUME NEW p \in Trades, NEW s \in {"submitted", "rejected"},
             UpdateEntryStatus(p, s)
      PROVE  TradeStep(q)
  <2>1. \A n \in CloseLegs : orders'[q][n] = orders[q][n]
    BY <1>0, <1>5 DEF IInv, TypeOK, UpdateEntryStatus
  <2> QED
    BY <1>0, <1>5, <2>1, StandingMoves DEF UpdateEntryStatus, TradeStep, SentStands
<1>6. ASSUME NEW p \in Trades, NEW r \in ExitReasons, NEW ts \in Times,
             NEW ok \in BOOLEAN, ObserveExit(p, r, ts, ok)
      PROVE  TradeStep(q)
  BY <1>6, ObserveStep
<1>7. ASSUME NEW p \in Trades, AdvanceEodExpiry(p)
      PROVE  TradeStep(q)
  BY <1>7, AdvanceStep
<1>8. ASSUME NEW p \in Trades, PrepareExit(p)
      PROVE  TradeStep(q)
  BY <1>8, PrepareStep
<1>9. ASSUME NEW p \in Trades, NEW n \in CloseLegs, ClaimDispatch(p, n)
      PROVE  TradeStep(q)
  BY <1>9, ClaimStep
<1>10. ASSUME NEW p \in Trades, NEW n \in Legs, NEW s \in Active \cup Terminal,
              ReportStatus(p, n, s)
       PROVE  TradeStep(q)
  BY <1>10, ReportStep
<1>11. ASSUME NEW p \in Trades, NEW n \in Legs, NEW ts \in Times,
              VenueFill(p, n, ts)
       PROVE  TradeStep(q)
  BY <1>11, FillStep
<1> QED
  BY <1>1, <1>2, <1>3, <1>4, <1>5, <1>6, <1>7, <1>8, <1>9, <1>10, <1>11
  DEF Next

(***************************************************************************)
(* Each of the four kinds of step preserves the invariant of the trade.    *)
(***************************************************************************)
LEMMA MovesKeepsInv ==
  ASSUME IInv, TypeOK', NEW p \in Trades, Moves(p)
  PROVE  TradeInv(p)'
<1>0. /\ TradeInv(p)
      /\ CloseLegs \subseteq Legs
      /\ \A n \in CloseLegs : orders[p][n] \in OrderRows
      /\ request[p] \in RequestRows
      /\ now \in Nat /\ now' \in Nat /\ RetryDelay \in Nat
  BY LedgerAssumption DEF IInv, TypeOK, CloseLegs, Legs, Times
<1>a. NoOrder.status = "none" /\ "none" \notin Active
  BY DEF NoOrder, Active
<1>b. \A n \in CloseLegs : orders[p][n] = NoOrder => orders'[p][n] = NoOrder
  BY <1>a DEF Moves, LegMoves
<1>c. \/ request'[p] = request[p]
      \/ request[p].reason # "none" /\ request'[p].reason = request[p].reason
  BY DEF Moves, RequestMoves
<1>1. FreshLegs(p)'
  BY <1>0, <1>b DEF Moves, TradeInv, FreshLegs
<1>2. AtMostOneActive(p)'
  BY <1>0 DEF Moves, LegMoves, TradeInv, AtMostOneActive
<1>3. RequestComesFirst(p)'
  BY <1>0, <1>b, <1>c DEF TradeInv, RequestComesFirst
<1>4. SentExists(p)'
  BY <1>0
  DEF Moves, LegMoves, SentStands, TradeInv, SentExists, Active, Terminal
<1>5. MarkerIsSent(p)'
  BY <1>0
  DEF Moves, LegMoves, RequestMoves, SentStands, TradeInv, MarkerIsSent, Lifecycle
<1>6. WindowClosedUnsent(p)'
  BY <1>0 DEF Moves, LegMoves, SentStands, TradeInv, WindowClosedUnsent
<1>7. CloseShape(p)'
  <2> SUFFICES ASSUME NEW n \in CloseLegs, orders'[p][n].status # "none"
               PROVE  /\ orders'[p][n].reason \in ExitReasons
                      /\ orders'[p][n].qty # 0
                      /\ orders'[p][n].reason = "eod_flatten" => Lifecycle(request'[p])
    BY DEF CloseShape
  <2>1. /\ orders[p][n].status # "none"
        /\ orders'[p][n].reason = orders[p][n].reason
        /\ orders'[p][n].qty = orders[p][n].qty
    BY <1>a DEF Moves, LegMoves
  <2> QED BY <1>0, <1>c, <2>1 DEF TradeInv, CloseShape, Lifecycle
<1>8. RequestClock(p)'
  <2>1. CASE request'[p] = request[p]
    <3>1. now <= now' /\ request[p].closeAt \in Nat /\ request[p].retryAfter \in Nat
      BY <1>0 DEF Moves, RequestRows
    <3>2. now >= request[p].closeAt => now' >= request[p].closeAt
      BY <1>0, <3>1
    <3>3. request[p].retryAfter <= now + RetryDelay =>
            request[p].retryAfter <= now' + RetryDelay
      BY <1>0, <3>1
    <3> QED BY <1>0, <2>1, <3>2, <3>3 DEF TradeInv, RequestClock
  <2>2. CASE request'[p] # request[p]
    <3>1. /\ now <= now'
          /\ request[p].closeAt \in Nat /\ request'[p].retryAfter \in Nat
          /\ request'[p].closeAt = request[p].closeAt
          /\ request'[p].expired => now >= request[p].closeAt
          /\ request'[p].retryAfter <= now + RetryDelay
      BY <1>0, <2>2 DEF Moves, RequestMoves, RequestRows, TypeOK
    <3>2. now >= request[p].closeAt => now' >= request[p].closeAt
      BY <1>0, <3>1
    <3>3. request'[p].retryAfter <= now' + RetryDelay
      BY <1>0, <3>1
    <3> QED BY <3>1, <3>2, <3>3 DEF RequestClock
  <2> QED BY <2>1, <2>2
<1> QED BY <1>1, <1>2, <1>3, <1>4, <1>5, <1>6, <1>7, <1>8 DEF TradeInv

LEMMA StoresKeepsInv ==
  ASSUME IInv, TypeOK', NEW p \in Trades, Stores(p)
  PROVE  TradeInv(p)'
<1>1. PICK reason \in ExitReasons : request'[p] = NewRequest(p, reason)
  BY DEF Stores
<1>2. /\ TradeInv(p)
      /\ \A n \in CloseLegs : orders'[p][n] = NoOrder /\ <<p, n>> \notin sent'
  BY DEF IInv, TradeInv, RequestComesFirst, SentExists, NoOrder, Stores
<1>3. /\ request'[p].reason # "none"
      /\ ~request'[p].expired
      /\ request'[p].retryAfter = 0
  BY <1>1 DEF NewRequest, NoRequest, ExitReasons, Protective
<1>4. now' \in Nat /\ RetryDelay \in Nat
  BY LedgerAssumption DEF TypeOK, Times
<1>5. RequestClock(p)'
  <2>1. request'[p].retryAfter <= now' + RetryDelay
    BY <1>3, <1>4
  <2> QED BY <1>3, <2>1 DEF RequestClock
<1>6. /\ NoOrder.status = "none" /\ "none" \notin Active
      /\ ~NoOrder.dispatched /\ ~NoOrder.windowClosed
  BY DEF NoOrder, Active
<1>7. FreshLegs(p)' /\ AtMostOneActive(p)'
  BY <1>2, <1>6 DEF FreshLegs, AtMostOneActive
<1>8. RequestComesFirst(p)'
  BY <1>3 DEF RequestComesFirst
<1>9. SentExists(p)' /\ MarkerIsSent(p)'
  BY <1>2, <1>6 DEF SentExists, MarkerIsSent
<1>10. WindowClosedUnsent(p)' /\ CloseShape(p)'
  BY <1>2, <1>6 DEF WindowClosedUnsent, CloseShape
<1> QED BY <1>5, <1>7, <1>8, <1>9, <1>10 DEF TradeInv

LEMMA ReservesKeepsInv ==
  ASSUME IInv, TypeOK', NEW p \in Trades, Reserves(p)
  PROVE  TradeInv(p)'
<1> DEFINE attempt == position[p].attempt + 1
<1>0. /\ TradeInv(p)
      /\ position[p].attempt \in Nat
      /\ attempt \in CloseLegs
      /\ now' = now /\ sent' = sent /\ position'[p].attempt = attempt
      /\ RequestMoves(p) /\ request[p].reason # "none"
      /\ \A n \in CloseLegs \ {attempt} :
           LegMoves(p, n) /\ orders'[p][n].status \notin Active
      /\ orders'[p][attempt] = Reservation(p)
  BY DEF IInv, TypeOK, PositionRows, Legs, Reserves
<1>1. request'[p].reason = request[p].reason
  BY <1>0 DEF RequestMoves
<1>2. orders[p][attempt] = NoOrder
  BY <1>0 DEF TradeInv, FreshLegs
<1>3. <<p, attempt>> \notin sent
  BY <1>0, <1>2 DEF TradeInv, SentExists, NoOrder
<1>4. /\ Reservation(p).status = "approved"
      /\ Reservation(p).qty = position[p].qty
      /\ Reservation(p).reason = EffectiveReason(RequestAfterExpiry(p))
      /\ ~Reservation(p).dispatched
      /\ ~Reservation(p).windowClosed
  BY DEF Reservation, NoOrder
<1>5. NoOrder.status = "none" /\ "none" \notin Active
  BY DEF NoOrder, Active
<1>6. FreshLegs(p)'
  <2> SUFFICES ASSUME NEW n \in CloseLegs, n > attempt
               PROVE  orders'[p][n] = NoOrder
    BY <1>0 DEF FreshLegs
  <2>1. n > position[p].attempt /\ n # attempt
    <3>1. n \in Int
      BY DEF CloseLegs
    <3> QED BY <1>0, <3>1
  <2>2. orders[p][n] = NoOrder
    BY <1>0, <2>1 DEF TradeInv, FreshLegs
  <2>3. LegMoves(p, n)
    BY <1>0, <2>1
  <2> QED BY <1>5, <2>2, <2>3 DEF LegMoves
<1>7. AtMostOneActive(p)'
  BY <1>0 DEF AtMostOneActive
<1>8. RequestComesFirst(p)'
  BY <1>0, <1>1 DEF RequestComesFirst
<1>9. SentExists(p)'
  BY <1>0, <1>3 DEF TradeInv, SentExists, LegMoves, Active, Terminal
<1>10. MarkerIsSent(p)'
  BY <1>0, <1>1, <1>3, <1>4 DEF TradeInv, MarkerIsSent, LegMoves, Lifecycle
<1>11. WindowClosedUnsent(p)'
  BY <1>0, <1>4 DEF TradeInv, WindowClosedUnsent, LegMoves
<1>12. CloseShape(p)'
  <2>1. ASSUME NEW n \in CloseLegs \ {attempt}, orders'[p][n].status # "none"
        PROVE  /\ orders[p][n].status # "none"
               /\ orders'[p][n].reason = orders[p][n].reason
               /\ orders'[p][n].qty = orders[p][n].qty
    BY <1>0, <1>5, <2>1 DEF LegMoves
  <2>2. /\ orders'[p][attempt].reason \in ExitReasons
        /\ orders'[p][attempt].qty # 0
        /\ orders'[p][attempt].reason = "eod_flatten" => Lifecycle(request'[p])
    <3>1. request[p] \in RequestRows
      BY DEF IInv, TypeOK
    <3>2. /\ RequestAfterExpiry(p).reason = request[p].reason
          /\ RequestAfterExpiry(p).fallback = request[p].fallback
      BY <3>1 DEF RequestAfterExpiry, RequestRows
    <3>3. EffectiveReason(RequestAfterExpiry(p)) \in {request[p].reason} \cup Protective
      BY <3>1, <3>2 DEF EffectiveReason, EffectiveState, RequestRows
    <3> QED
      BY <1>0, <1>1, <1>4, <3>1, <3>3
      DEF Reserves, RequestRows, ExitReasons, Protective, Lifecycle
  <2> QED BY <1>0, <1>1, <2>1, <2>2 DEF TradeInv, CloseShape, Lifecycle
<1>13. RequestClock(p)'
  <2>1. CASE request'[p] = request[p]
    BY <1>0, <2>1 DEF TradeInv, RequestClock
  <2>2. CASE request'[p] # request[p]
    BY <1>0, <2>2 DEF RequestMoves, RequestClock
  <2> QED BY <2>1, <2>2
<1> QED
  BY <1>6, <1>7, <1>8, <1>9, <1>10, <1>11, <1>12, <1>13 DEF TradeInv

LEMMA DispatchesKeepsInv ==
  ASSUME IInv, TypeOK', NEW p \in Trades, NEW n \in CloseLegs, Dispatches(p, n)
  PROVE  TradeInv(p)'
<1>0. /\ TradeInv(p)
      /\ n \in Legs /\ orders[p][n] \in OrderRows
      /\ now' = now /\ position' = position /\ sent' = sent \cup {<<p, n>>}
      /\ RequestMoves(p)
      /\ \A m \in CloseLegs \ {n} : LegMoves(p, m)
      /\ orders[p][n].status = "approved"
  BY LedgerAssumption
  DEF IInv, TypeOK, CloseLegs, Legs, Dispatches, Claimable
<1>1. /\ orders'[p][n].status = "approved"
      /\ orders'[p][n].qty = orders[p][n].qty
      /\ orders'[p][n].reason = orders[p][n].reason
      /\ orders'[p][n].windowClosed = orders[p][n].windowClosed
      /\ Lifecycle(request[p]) => orders'[p][n].dispatched
  BY <1>0 DEF Dispatches, Marked, OrderRows
<1>2. NoOrder.status = "none" /\ "none" \notin Active
  BY DEF NoOrder, Active
<1>3. \A m \in CloseLegs : orders[p][m] = NoOrder => orders'[p][m] = NoOrder
  BY <1>0, <1>2 DEF LegMoves
<1>4. request[p].reason # "none" /\ request'[p].reason = request[p].reason
  BY <1>0, <1>2 DEF TradeInv, RequestComesFirst, RequestMoves
<1>5. \A m \in CloseLegs \ {n} : <<p, m>> \in sent' <=> <<p, m>> \in sent
  BY <1>0
<1>6. FreshLegs(p)'
  BY <1>0, <1>3 DEF TradeInv, FreshLegs
<1>7. AtMostOneActive(p)'
  <2>1. \A m \in CloseLegs : orders'[p][m].status \in Active =>
                               orders[p][m].status \in Active
    BY <1>0, <1>1 DEF LegMoves, Active
  <2> QED BY <1>0, <2>1 DEF TradeInv, AtMostOneActive
<1>8. RequestComesFirst(p)'
  BY <1>4 DEF RequestComesFirst
<1>9. SentExists(p)'
  BY <1>0, <1>1, <1>5 DEF TradeInv, SentExists, LegMoves, Active, Terminal
<1>10. MarkerIsSent(p)'
  BY <1>0, <1>1, <1>4, <1>5 DEF TradeInv, MarkerIsSent, LegMoves, Lifecycle
<1>11. WindowClosedUnsent(p)'
  BY <1>0, <1>1, <1>5 DEF TradeInv, WindowClosedUnsent, LegMoves
<1>12. CloseShape(p)'
  <2>1. ASSUME NEW m \in CloseLegs, orders'[p][m].status # "none"
        PROVE  /\ orders[p][m].status # "none"
               /\ orders'[p][m].reason = orders[p][m].reason
               /\ orders'[p][m].qty = orders[p][m].qty
    BY <1>0, <1>1, <1>2, <2>1 DEF LegMoves
  <2> QED BY <1>0, <1>4, <2>1 DEF TradeInv, CloseShape, Lifecycle
<1>13. RequestClock(p)'
  <2>1. CASE request'[p] = request[p]
    BY <1>0, <2>1 DEF TradeInv, RequestClock
  <2>2. CASE request'[p] # request[p]
    BY <1>0, <2>2 DEF RequestMoves, RequestClock
  <2> QED BY <2>1, <2>2
<1> QED
  BY <1>6, <1>7, <1>8, <1>9, <1>10, <1>11, <1>12, <1>13 DEF TradeInv

(***************************************************************************)
(* The theorems.                                                           *)
(***************************************************************************)
LEMMA InductiveInit == Init => IInv
<1> SUFFICES ASSUME Init
             PROVE  IInv
  OBVIOUS
<1>1. TypeOK
  BY LedgerAssumption
  DEF Init, TypeOK, Times, Legs, NoOrder, OrderRows, NoPosition, PositionRows,
      NoRequest, RequestRows
<1>2. ASSUME NEW p \in Trades
      PROVE  TradeInv(p)
  <2>1. \A n \in CloseLegs : orders[p][n] = NoOrder /\ <<p, n>> \notin sent
    BY LedgerAssumption DEF Init, CloseLegs, Legs
  <2>2. request[p] = NoRequest /\ now \in Nat /\ RetryDelay \in Nat
    BY LedgerAssumption DEF Init
  <2>3. /\ NoOrder.status = "none" /\ "none" \notin Active
        /\ ~NoOrder.dispatched /\ ~NoOrder.windowClosed
        /\ ~NoRequest.expired /\ NoRequest.retryAfter = 0
    BY DEF NoOrder, NoRequest, Active
  <2>4. request[p].retryAfter <= now + RetryDelay
    BY <2>2, <2>3
  <2> QED
    BY <2>1, <2>2, <2>3, <2>4
    DEF TradeInv, FreshLegs, AtMostOneActive, RequestComesFirst, SentExists,
        MarkerIsSent, WindowClosedUnsent, CloseShape, RequestClock
<1> QED BY <1>1, <1>2 DEF IInv

LEMMA InductiveStep == IInv /\ [Next]_vars => IInv'
<1> SUFFICES ASSUME IInv, [Next]_vars
             PROVE  IInv'
  OBVIOUS
<1>1. TypeOK'
  BY TypeStep DEF IInv
<1>2. ASSUME NEW p \in Trades
      PROVE  TradeInv(p)'
  <2>1. CASE Next
    BY <1>1, <2>1, EveryTradeSteps, MovesKeepsInv, StoresKeepsInv,
       ReservesKeepsInv, DispatchesKeepsInv DEF TradeStep
  <2>2. CASE UNCHANGED vars
    BY <2>2
    DEF IInv, vars, TradeInv, FreshLegs, AtMostOneActive, RequestComesFirst,
        SentExists, MarkerIsSent, WindowClosedUnsent, CloseShape, RequestClock,
        Lifecycle
  <2> QED BY <2>1, <2>2
<1> QED BY <1>1, <1>2 DEF IInv

(* The invariant holds in every reachable state: the rows of a trade hang  *)
(* together however the transactions of its callers are interleaved.       *)
THEOREM Inductive == Spec => []IInv
<1> QED BY InductiveInit, InductiveStep, PTL DEF Spec

(* A position never has two active closes: prepare_exit's own scan upholds *)
(* what the partial unique index of the orders table would otherwise stop. *)
THEOREM OneActiveCloseTheorem == Spec => []OneActiveClose
<1>1. IInv => OneActiveClose
  <2> SUFFICES ASSUME IInv, NEW p \in Trades
               PROVE  Cardinality(ActiveCloses(orders[p])) <= 1
    BY DEF OneActiveClose
  <2>1. AtMostOneActive(p)
    BY DEF IInv, TradeInv
  <2>2. CASE ActiveCloses(orders[p]) = {}
    <3>1. Cardinality({}) = 0
      BY FS_EmptySet
    <3> QED BY <2>2, <3>1
  <2>3. CASE ActiveCloses(orders[p]) # {}
    <3>1. PICK n : n \in ActiveCloses(orders[p])
      BY <2>3
    <3>2. ActiveCloses(orders[p]) = {n}
      BY <2>1, <3>1 DEF ActiveCloses, AtMostOneActive
    <3>3. Cardinality({n}) = 1
      BY FS_Singleton
    <3> QED BY <3>2, <3>3
  <2> QED BY <2>2, <2>3
<1> QED BY <1>1, Inductive, PTL

(* A reservation the ledger cancelled as eod_window_closed was never sent. *)
THEOREM UnsentCancellationTheorem == Spec => []UnsentCancellationIsProof
<1>1. IInv => UnsentCancellationIsProof
  BY DEF IInv, TradeInv, WindowClosedUnsent, UnsentCancellationIsProof
<1> QED BY <1>1, Inductive, PTL

(* In an EOD lifecycle the dispatch marker stands for the permission to    *)
(* call the venue, and claim_dispatch never grants it a second time.       *)
THEOREM MarkerTheorem == Spec => []MarkerRecordsDispatch
<1>1. IInv => MarkerRecordsDispatch
  <2> SUFFICES ASSUME IInv, NEW p \in Trades, NEW n \in CloseLegs,
                      Lifecycle(request[p]), orders[p][n].dispatched
               PROVE  ClaimResult(p, n) # "claimed"
    BY DEF MarkerRecordsDispatch, IInv, TradeInv, MarkerIsSent
  <2>1. ~Claimable(p, n)
    BY DEF Claimable
  <2> QED BY <2>1 DEF ClaimResult
<1> QED BY <1>1, Inductive, PTL

(* No transaction rewrites the evidence of an exit: the stored request, a  *)
(* recorded expiry, the first fallback and the dispatch markers.           *)
THEOREM EvidenceTheorem == Spec => EvidenceImmutable
<1> DEFINE Kept == \A p \in Trades :
                     /\ RequestStands(request[p], request'[p])
                     /\ \A n \in CloseLegs :
                          orders[p][n].dispatched => orders'[p][n].dispatched
<1>1. IInv /\ [Next]_vars => [Kept]_vars
  <2> SUFFICES ASSUME IInv, Next, NEW p \in Trades
               PROVE  /\ RequestStands(request[p], request'[p])
                      /\ \A n \in CloseLegs :
                           orders[p][n].dispatched => orders'[p][n].dispatched
    BY DEF Kept
  <2>1. RequestMoves(p) => RequestStands(request[p], request'[p])
    BY DEF RequestMoves, RequestStands
  <2>2. \A n \in CloseLegs : LegMoves(p, n) =>
          (orders[p][n].dispatched => orders'[p][n].dispatched)
    BY DEF LegMoves
  <2>3. CASE Moves(p)
    BY <2>1, <2>2, <2>3 DEF Moves
  <2>4. CASE Stores(p)
    BY <2>4
    DEF Stores, IInv, TradeInv, RequestComesFirst, NoRequest, RequestStands
  <2>5. CASE Reserves(p)
    <3> DEFINE attempt == position[p].attempt + 1
    <3>1. attempt > position[p].attempt
      BY DEF IInv, TypeOK, PositionRows, Legs
    <3>2. ~orders[p][attempt].dispatched
      BY <2>5, <3>1 DEF Reserves, IInv, TradeInv, FreshLegs, NoOrder
    <3> QED BY <2>1, <2>2, <2>5, <3>2 DEF Reserves
  <2>6. ASSUME NEW n \in CloseLegs, Dispatches(p, n)
        PROVE  /\ RequestStands(request[p], request'[p])
               /\ \A m \in CloseLegs :
                    orders[p][m].dispatched => orders'[p][m].dispatched
    <3>1. orders[p][n] \in OrderRows
      BY LedgerAssumption DEF IInv, TypeOK, CloseLegs, Legs
    <3>2. orders[p][n].dispatched => orders'[p][n].dispatched
      BY <2>6, <3>1 DEF Dispatches, Marked, OrderRows
    <3> QED BY <2>1, <2>2, <2>6, <3>2 DEF Dispatches
  <2> QED BY <2>3, <2>4, <2>5, <2>6, EveryTradeSteps DEF TradeStep
<1> QED BY <1>1, Inductive, PTL DEF Spec, EvidenceImmutable, Kept

(* The retry delay is kept: nothing shortens it, and a close is reserved   *)
(* only after it has passed.                                               *)
THEOREM RetryDelayTheorem == Spec => RetryDelayKept
<1> DEFINE Kept == \A p \in Trades :
                     /\ request[p].retryAfter <= request'[p].retryAfter
                     /\ position'[p].attempt > position[p].attempt =>
                          request[p].retryAfter <= now
<1>1. IInv /\ [Next]_vars => [Kept]_vars
  <2> SUFFICES ASSUME IInv, Next, NEW p \in Trades
               PROVE  /\ request[p].retryAfter <= request'[p].retryAfter
                      /\ position'[p].attempt > position[p].attempt =>
                           request[p].retryAfter <= now
    BY DEF Kept
  <2>0. request[p].retryAfter \in Nat /\ position[p].attempt \in Nat
    BY DEF IInv, TypeOK, RequestRows, PositionRows, Legs
  <2>1. RequestMoves(p) => request[p].retryAfter <= request'[p].retryAfter
    BY <2>0 DEF RequestMoves
  <2>2. ~(position[p].attempt > position[p].attempt)
    BY <2>0
  <2>3. CASE Moves(p)
    BY <2>1, <2>2, <2>3 DEF Moves
  <2>4. CASE Stores(p)
    <3>1. request[p].retryAfter = 0 /\ request'[p].retryAfter = 0
      BY <2>4
      DEF Stores, NewRequest, IInv, TradeInv, RequestComesFirst, NoRequest
    <3> QED BY <2>2, <2>4, <3>1 DEF Stores
  <2>5. CASE Reserves(p)
    BY <2>1, <2>5 DEF Reserves
  <2>6. ASSUME NEW n \in CloseLegs, Dispatches(p, n)
        PROVE  /\ request[p].retryAfter <= request'[p].retryAfter
               /\ position'[p].attempt > position[p].attempt =>
                    request[p].retryAfter <= now
    BY <2>1, <2>2, <2>6 DEF Dispatches
  <2> QED BY <2>3, <2>4, <2>5, <2>6, EveryTradeSteps DEF TradeStep
<1> QED BY <1>1, Inductive, PTL DEF Spec, RetryDelayKept, Kept

(* claim_dispatch permits a venue call only for an exit that is placeable  *)
(* at that moment, and for all that its position holds.                    *)
LEMMA ClaimedIsPlaceable ==
  ASSUME IInv, NEW p \in Trades, NEW n \in CloseLegs, Dispatches(p, n)
  PROVE  PlaceableNow(p, n)
<1> DEFINE o == orders[p][n]
           r == RequestAfterExpiry(p)
<1>1. /\ n \in Legs /\ o \in OrderRows /\ TradeInv(p)
      /\ request[p] \in RequestRows /\ now \in Nat
      /\ OrdersAfterExpiry(p)[n] \in OrderRows
  BY LedgerAssumption, OrdersAfterExpiryShape
  DEF IInv, TypeOK, CloseLegs, Legs, Times
<1>2. /\ position[p].status # "closed"
      /\ o.status = "approved"
      /\ ~(Lifecycle(request[p]) /\ o.dispatched)
      /\ ClaimResult(p, n) = "claimed"
  BY DEF Dispatches, Claimable
<1>3. /\ ClaimFinalResult(p, OrdersAfterExpiry(p)[n]) = "claimed"
      /\ Lifecycle(request[p]) =>
           ClaimLifecycleResult(OrdersAfterExpiry(p)[n], r) = "eligible"
  <2>1. ClaimLifecycleResult(OrdersAfterExpiry(p)[n], r) # "claimed"
    BY DEF ClaimLifecycleResult
  <2> QED BY <1>2, <2>1 DEF ClaimResult, Claimable
<1>4. OrdersAfterExpiry(p)[n] = o
  <2> SUFFICES ASSUME ExpiryDue(request[p]),
                      OrdersAfterExpiry(p)[n] = WindowClosed(o)
               PROVE  FALSE
    BY <1>1, OrdersAfterExpiryShape DEF IInv
  <2>1. OrdersAfterExpiry(p)[n].status = "cancelled"
    BY <1>1 DEF WindowClosed, OrderRows
  <2>2. ClaimLifecycleResult(OrdersAfterExpiry(p)[n], r) = "window_expired"
    BY <2>1 DEF ClaimLifecycleResult
  <2> QED BY <1>3, <2>2 DEF ExpiryDue
<1>5. /\ o.reason \in ExitReasons
      /\ o.qty # 0
      /\ o.reason = "eod_flatten" => Lifecycle(request[p])
      /\ request[p].expired => now >= request[p].closeAt
  BY <1>1, <1>2 DEF TradeInv, CloseShape, RequestClock
<1>6. /\ ~OutsideSession(o.reason)
      /\ position[p].qty = o.qty
  BY <1>3, <1>4 DEF ClaimFinalResult
<1>7. /\ r.closeAt = request[p].closeAt /\ r.flattenAt = request[p].flattenAt
      /\ Lifecycle(r) <=> Lifecycle(request[p])
      /\ r.expired <=> request[p].expired \/ ExpiryDue(request[p])
  BY <1>1 DEF RequestAfterExpiry, RequestRows, Lifecycle, ExpiryDue
<1>8. CASE o.reason = "eod_flatten"
  <2>1. ClaimLifecycleResult(o, r) = "eligible" /\ Lifecycle(r)
    <3>1. Lifecycle(request[p])
      BY <1>5, <1>8
    <3>2. ClaimLifecycleResult(OrdersAfterExpiry(p)[n], r) = "eligible"
      BY <1>3, <3>1
    <3>3. ClaimLifecycleResult(o, r) = "eligible"
      BY <1>4, <3>2
    <3> QED BY <1>7, <3>1, <3>3
  <2>2. ~r.expired /\ EffectiveState(r) # "not_open"
    BY <1>8, <2>1 DEF ClaimLifecycleResult
  <2>3. r.flattenAt <= now /\ now < r.closeAt
    BY <2>1, <2>2 DEF EffectiveState
  <2>4. request[p].flattenAt <= now /\ now < request[p].closeAt
    BY <1>7, <2>3
  <2> QED BY <1>2, <1>5, <1>6, <1>8, <2>4 DEF PlaceableNow, Flat
<1>9. CASE o.reason # "eod_flatten"
  <2>1. now \in RegularSession
    BY <1>5, <1>6, <1>9 DEF OutsideSession, ExitReasons
  <2>2. Lifecycle(request[p]) => now >= request[p].closeAt
    <3> SUFFICES ASSUME Lifecycle(request[p])
                 PROVE  now >= request[p].closeAt
      OBVIOUS
    <3>1. ClaimLifecycleResult(o, r) = "eligible"
      BY <1>3, <1>4
    <3>2. EffectiveState(r) = "fallback"
      BY <1>9, <3>1 DEF ClaimLifecycleResult
    <3>3. r.expired
      BY <3>2 DEF EffectiveState
    <3>4. request[p].expired \/ ExpiryDue(request[p])
      BY <1>7, <3>3
    <3>5. ExpiryDue(request[p]) => now >= request[p].closeAt
      BY DEF ExpiryDue
    <3> QED BY <1>5, <3>4, <3>5
  <2> QED BY <1>2, <1>5, <1>6, <1>9, <2>1, <2>2 DEF PlaceableNow, Flat
<1> QED BY <1>8, <1>9

(* Only a placeable exit is ever sent, whatever was true when it was       *)
(* observed and reserved.                                                  *)
THEOREM DispatchTheorem == Spec => DispatchOnlyWhenPlaceable
<1> DEFINE Placeable == \A p \in Trades, n \in CloseLegs :
                          <<p, n>> \in sent' \ sent => PlaceableNow(p, n)
<1>1. IInv /\ [Next]_vars => [Placeable]_vars
  <2> SUFFICES ASSUME IInv, Next, NEW p \in Trades, NEW n \in CloseLegs,
                      <<p, n>> \in sent' \ sent
               PROVE  PlaceableNow(p, n)
    BY DEF Placeable
  <2>1. ~Moves(p) /\ ~Stores(p) /\ ~Reserves(p)
    BY DEF Moves, SentStands, Stores, Reserves
  <2>2. PICK m \in CloseLegs : Dispatches(p, m)
    BY <2>1, EveryTradeSteps DEF TradeStep
  <2>3. m = n
    BY <2>2 DEF Dispatches
  <2> QED BY <2>2, <2>3, ClaimedIsPlaceable
<1> QED BY <1>1, Inductive, PTL DEF Spec, DispatchOnlyWhenPlaceable, Placeable

(***************************************************************************)
(* The statuses of the entry order, leg 0, which TradeStep leaves open.    *)
(***************************************************************************)
LEMMA ForwardReflexive ==
  ASSUME NEW x
  PROVE  StatusForward(x, x)
BY DEF StatusForward, Active, Terminal

(* How a step may change a row that exists. *)
RowMoves(o, u) ==
  \/ u = o
  \/ /\ o.status \in Active
     /\ u.status \in Active \cup Terminal
     /\ StatusForward(o.status, u.status)
     /\ u.qty = o.qty

EntryMoves(q) ==
  \/ RowMoves(orders[q][0], orders'[q][0])
  \/ /\ orders[q][0].status = "none"
     /\ orders'[q][0].status = "approved"
     /\ orders'[q][0].qty = EntryQty
     /\ <<q, 0>> \in sent'

LEMMA StatusMoves ==
  ASSUME NEW o \in OrderRows, NEW s \in Active \cup Terminal,
         o.status \in Active, StatusForward(o.status, s)
  PROVE  RowMoves(o, [o EXCEPT !.status = s])
BY DEF RowMoves, OrderRows

LEMMA ExpiryMoves ==
  ASSUME NEW r, NEW o \in [Legs -> OrderRows], NEW n \in Legs
  PROVE  RowMoves(o[n], ExpireOrders(r, o)[n])
<1>1. CASE ExpireOrders(r, o)[n] = o[n]
  BY <1>1 DEF RowMoves
<1>2. CASE UnsentEod(o[n]) /\ ExpireOrders(r, o)[n] = WindowClosed(o[n])
  <2>1. o[n] \in OrderRows
    OBVIOUS
  <2>2. /\ o[n].status = "approved"
        /\ WindowClosed(o[n]).status = "cancelled"
        /\ WindowClosed(o[n]).qty = o[n].qty
    BY <1>2, <2>1 DEF UnsentEod, WindowClosed, OrderRows
  <2> QED BY <1>2, <2>2 DEF RowMoves, StatusForward, Active, Terminal
<1> QED BY <1>1, <1>2, ExpireShape

LEMMA EntryStep ==
  ASSUME IInv, Next, NEW q \in Trades
  PROVE  EntryMoves(q)
<1>0. /\ CloseLegs \subseteq Legs /\ 0 \notin CloseLegs /\ 0 \in Legs
      /\ orders \in [Trades -> [Legs -> OrderRows]]
      /\ TypeOK
  BY LedgerAssumption DEF IInv, TypeOK, CloseLegs, Legs
<1>a. orders'[q][0] = orders[q][0] => EntryMoves(q)
  BY DEF EntryMoves, RowMoves
<1>b. orders'[q][0] = OrdersAfterExpiry(q)[0] => EntryMoves(q)
  BY <1>0, ExpiryMoves DEF EntryMoves, OrdersAfterExpiry
<1>c. orders[q][0] \in OrderRows
  BY <1>0
<1>1. CASE Tick
  <2>1. orders' = orders
    BY <1>1 DEF Tick
  <2> QED BY <1>a, <2>1
<1>2. CASE CommitFill
  <2>1. orders' = orders
    BY <1>2 DEF CommitFill
  <2> QED BY <1>a, <2>1
<1>3. CASE ReconcileLostBook
  <2> DEFINE s == Reconciled(0, orders[q][0].status)
  <2>1. orders'[q][0] = [orders[q][0] EXCEPT !.status = s]
    BY <1>0, <1>3 DEF ReconcileLostBook
  <2>2. CASE orders[q][0].status \in Active
    <3>1. s \in Active \cup Terminal /\ StatusForward(orders[q][0].status, s)
      BY <2>2 DEF Reconciled, StatusForward, Active, Terminal
    <3> QED BY <1>c, <2>1, <2>2, <3>1, StatusMoves DEF EntryMoves
  <2>3. CASE orders[q][0].status \notin Active
    <3>1. s = orders[q][0].status
      BY <2>3 DEF Reconciled, Active
    <3>2. orders'[q][0] = orders[q][0]
      BY <1>c, <2>1, <3>1 DEF OrderRows
    <3> QED BY <1>a, <3>2
  <2> QED BY <2>2, <2>3
<1>4. ASSUME NEW p \in Trades, InsertEntry(p)
      PROVE  EntryMoves(q)
  <2>1. CASE p = q
    <3>1. orders[q][0].status = "none"
      BY <1>4, <2>1 DEF InsertEntry
    <3>2. orders'[q][0].status = "approved" /\ orders'[q][0].qty = EntryQty
      BY <1>0, <1>4, <2>1 DEF InsertEntry, NoOrder
    <3>3. <<q, 0>> \in sent'
      BY <1>4, <2>1 DEF InsertEntry
    <3> QED BY <3>1, <3>2, <3>3 DEF EntryMoves
  <2>2. CASE p # q
    BY <1>0, <1>4, <1>a, <2>2 DEF InsertEntry
  <2> QED BY <2>1, <2>2
<1>5. ASSUME NEW p \in Trades, NEW s \in {"submitted", "rejected"},
             UpdateEntryStatus(p, s)
      PROVE  EntryMoves(q)
  <2>1. CASE p = q
    <3>1. orders'[q][0] = [orders[q][0] EXCEPT !.status = s]
      BY <1>0, <1>5, <2>1 DEF UpdateEntryStatus
    <3>2. AckAdvances(orders[q][0].status, s)
      BY <1>5, <2>1 DEF UpdateEntryStatus
    <3>3. /\ orders[q][0].status \in Active
          /\ s \in Active \cup Terminal
          /\ StatusForward(orders[q][0].status, s)
      BY <3>2 DEF AckAdvances, StatusForward, Active, Terminal
    <3> QED BY <1>c, <3>1, <3>3, StatusMoves DEF EntryMoves
  <2>2. CASE p # q
    BY <1>0, <1>5, <1>a, <2>2 DEF UpdateEntryStatus
  <2> QED BY <2>1, <2>2
<1>6. ASSUME NEW p \in Trades, NEW r \in ExitReasons, NEW ts \in Times,
             NEW ok \in BOOLEAN, ObserveExit(p, r, ts, ok)
      PROVE  EntryMoves(q)
  <2>1. orders'[q][0] = orders[q][0] \/ orders'[q][0] = OrdersAfterExpiry(q)[0]
    BY <1>0, <1>6 DEF ObserveExit, ObserveStored, ObserveExisting
  <2> QED BY <1>a, <1>b, <2>1
<1>7. ASSUME NEW p \in Trades, AdvanceEodExpiry(p)
      PROVE  EntryMoves(q)
  <2>1. orders'[q][0] = orders[q][0] \/ orders'[q][0] = OrdersAfterExpiry(q)[0]
    BY <1>0, <1>7 DEF AdvanceEodExpiry
  <2> QED BY <1>a, <1>b, <2>1
<1>8. ASSUME NEW p \in Trades, PrepareExit(p)
      PROVE  EntryMoves(q)
  <2>1. orders'[q][0] = orders[q][0] \/ orders'[q][0] = OrdersAfterExpiry(q)[0]
    <3>1. CASE PrepareReserve(p)
      <4>1. position[p].attempt + 1 # 0
        BY DEF IInv, TypeOK, PositionRows, Legs
      <4>2. OrdersAfterExpiry(p) \in [Legs -> OrderRows]
        BY <1>0, OrdersAfterExpiryShape
      <4> QED BY <1>0, <3>1, <4>1, <4>2 DEF PrepareReserve
    <3> QED BY <1>0, <1>8, <3>1 DEF PrepareExit, PrepareRefuse, PrepareNoReservation
  <2> QED BY <1>a, <1>b, <2>1
<1>9. ASSUME NEW p \in Trades, NEW n \in CloseLegs, ClaimDispatch(p, n)
      PROVE  EntryMoves(q)
  <2>1. orders'[q][0] = orders[q][0] \/ orders'[q][0] = OrdersAfterExpiry(q)[0]
    <3>1. OrdersAfterExpiry(p) \in [Legs -> OrderRows] /\ n # 0
      BY <1>0, OrdersAfterExpiryShape
    <3> QED
      BY <1>0, <1>9, <3>1 DEF ClaimDispatch, ClaimRefuse, ClaimNoDispatch, ClaimCommit
  <2> QED BY <1>a, <1>b, <2>1
<1>10. ASSUME NEW p \in Trades, NEW n \in Legs, NEW s \in Active \cup Terminal,
              ReportStatus(p, n, s)
       PROVE  EntryMoves(q)
  <2> DEFINE o == [orders[p] EXCEPT ![n].status = s]
  <2>1. CASE p # q
    BY <1>0, <1>10, <1>a, <2>1 DEF ReportStatus, SetStatus
  <2>2. CASE p = q /\ n = 0
    <3>1. orders'[q][0] = [orders[q][0] EXCEPT !.status = s]
      BY <1>0, <1>10, <2>2 DEF ReportStatus, SetStatus
    <3>2. StatusAllowed(orders[q][0].status, s)
      BY <1>10, <2>2 DEF ReportStatus, SetStatus, StatusChanges
    <3>3. /\ orders[q][0].status \in Active
          /\ s \in Active \cup Terminal
          /\ StatusForward(orders[q][0].status, s)
      BY <3>2 DEF StatusAllowed, StatusForward, Active, Terminal
    <3> QED BY <1>c, <3>1, <3>3, StatusMoves DEF EntryMoves
  <2>3. CASE p = q /\ n # 0
    <3>1. o \in [Legs -> OrderRows] /\ o[0] = orders[q][0]
      BY <1>0, <2>3, StatusRowType
    <3>2. orders'[q] = ExpireOrders(request[p], o)
      BY <1>0, <1>10, <2>3 DEF ReportStatus, SetStatus
    <3> HIDE DEF o
    <3>3. RowMoves(o[0], ExpireOrders(request[p], o)[0])
      BY <1>0, <3>1, ExpiryMoves
    <3> QED BY <3>1, <3>2, <3>3 DEF EntryMoves
  <2> QED BY <2>1, <2>2, <2>3
<1>11. ASSUME NEW p \in Trades, NEW n \in Legs, NEW ts \in Times,
              VenueFill(p, n, ts)
       PROVE  EntryMoves(q)
  <2> DEFINE reported == FillStatus(Cardinality(FillsOf(p, n)) + 1, orders[p][n].qty)
  <2>1. reported \in {"filled", "partially_filled"}
    BY DEF FillStatus
  <2>2. orders[p][n].status \in Active
    BY <1>11 DEF VenueFill, Working
  <2> HIDE DEF reported
  <2>3. PICK b \in BOOLEAN :
          orders' = [orders EXCEPT ![p][n].status = IF b THEN reported ELSE @]
    BY <1>11 DEF VenueFill, RecordFill, reported
  <2>4. CASE p = q /\ n = 0
    <3>1. CASE b
      <4>1. orders'[q][0] = [orders[q][0] EXCEPT !.status = reported]
        BY <1>0, <2>3, <2>4, <3>1
      <4>2. reported \in Active \cup Terminal
            /\ StatusForward(orders[q][0].status, reported)
        BY <2>1, <2>2, <2>4 DEF StatusForward, Active, Terminal
      <4> QED BY <1>c, <2>2, <2>4, <4>1, <4>2, StatusMoves DEF EntryMoves
    <3>2. CASE ~b
      <4>1. orders'[q][0] = [orders[q][0] EXCEPT !.status = @]
        BY <1>0, <2>3, <2>4, <3>2
      <4>2. orders'[q][0] = orders[q][0]
        BY <1>c, <4>1 DEF OrderRows
      <4> QED BY <1>a, <4>2
    <3> QED BY <3>1, <3>2
  <2>5. CASE ~(p = q /\ n = 0)
    <3>1. orders'[q][0] = orders[q][0]
      BY <1>0, <2>3, <2>5
    <3> QED BY <1>a, <3>1
  <2> QED BY <2>4, <2>5
<1> QED
  BY <1>1, <1>2, <1>3, <1>4, <1>5, <1>6, <1>7, <1>8, <1>9, <1>10, <1>11
  DEF Next

LEMMA StepForward ==
  ASSUME IInv, Next, NEW p \in Trades, NEW n \in Legs
  PROVE  StatusForward(orders[p][n].status, orders'[p][n].status)
<1>1. CASE n = 0
  <2>1. EntryMoves(p)
    BY EntryStep
  <2>2. StatusForward("none", "approved")
    BY DEF StatusForward, Terminal
  <2> QED BY <1>1, <2>1, <2>2, ForwardReflexive DEF EntryMoves, RowMoves
<1>2. CASE n # 0
  <2>0. n \in CloseLegs /\ orders[p][n] \in OrderRows
    BY <1>2, LedgerAssumption DEF IInv, TypeOK, Legs, CloseLegs
  <2>1. LegMoves(p, n) => StatusForward(orders[p][n].status, orders'[p][n].status)
    BY ForwardReflexive DEF LegMoves
  <2>2. CASE Moves(p)
    BY <2>0, <2>1, <2>2 DEF Moves
  <2>3. CASE Stores(p)
    BY <2>3, ForwardReflexive DEF Stores
  <2>4. CASE Reserves(p)
    <3> DEFINE attempt == position[p].attempt + 1
    <3>1. attempt > position[p].attempt
      BY DEF IInv, TypeOK, PositionRows, Legs
    <3>2. orders[p][attempt].status = "none"
      BY <2>4, <3>1 DEF Reserves, IInv, TradeInv, FreshLegs, NoOrder
    <3>3. CASE n = attempt
      BY <3>2, <3>3 DEF StatusForward, Terminal
    <3>4. CASE n # attempt
      BY <2>0, <2>1, <2>4, <3>4 DEF Reserves
    <3> QED BY <3>3, <3>4
  <2>5. ASSUME NEW m \in CloseLegs, Dispatches(p, m)
        PROVE  StatusForward(orders[p][n].status, orders'[p][n].status)
    <3>1. CASE m = n
      <4>1. orders'[p][n].status = orders[p][n].status
        BY <2>0, <2>5, <3>1 DEF Dispatches, Marked, OrderRows
      <4> QED BY <4>1, ForwardReflexive
    <3>2. CASE m # n
      BY <2>0, <2>1, <2>5, <3>2 DEF Dispatches
    <3> QED BY <3>1, <3>2
  <2> QED BY <2>2, <2>3, <2>4, <2>5, EveryTradeSteps DEF TradeStep
<1> QED BY <1>1, <1>2

(* In the ledger's own transactions an order's status only moves forward,  *)
(* as long as the venue reports about orders that are still working; what  *)
(* happens when it does not, ExecutionLifecycle shows.                     *)
THEOREM StatusTheorem == Spec => StatusMovesForward
<1> DEFINE AllForward == \A p \in Trades, n \in Legs :
                           StatusForward(orders[p][n].status, orders'[p][n].status)
<1>1. IInv /\ [Next]_vars => [AllForward]_vars
  BY StepForward DEF AllForward
<1> QED BY <1>1, Inductive, PTL DEF Spec, StatusMovesForward, AllForward

---------------------------------------------------------------------------
(***************************************************************************)
(* The quantities: that no close sells more than its position holds, that  *)
(* accounting.apply_fill refuses no fill, and that the exits' defensive    *)
(* branches are never taken.                                               *)
(***************************************************************************)

(***************************************************************************)
(* The inductive invariant: how the fills, the position and the orders of  *)
(* one trade hang together.                                                *)
(***************************************************************************)
Unfilled == {"none", "approved", "submitted"}

FillsKnown(p) ==
  \A n \in Legs : FillsOf(p, n) # {} => orders[p][n].status \notin Unfilled

LotsNumbered(p) ==
  \A n \in Legs :
    /\ Cardinality(FillsOf(p, n)) <= orders[p][n].qty
    /\ orders[p][n].status \in Active =>
         Cardinality(FillsOf(p, n)) < orders[p][n].qty
    /\ \A k \in 1..Cardinality(FillsOf(p, n)) : Recorded(p, n, k)

FillsInOrder(p) ==
  \A m, n \in Legs : \A i \in FillsOf(p, m), j \in FillsOf(p, n) :
    i < j => fills[i].ts <= fills[j].ts

OpenedByFill(p) ==
  position[p].status # "none" =>
    \E i \in FillsOf(p, 0) : i <= cursor /\ fills[i].ts = position[p].opened

(* A close was reserved at some time. *)
Reserved(p) == \E n \in CloseLegs : orders[p][n].status # "none"

PositionShape(p) ==
  /\ position[p].status \in {"none", "open", "closing", "closed"}
  /\ position[p].qty > 0 <=> position[p].status \in {"open", "closing"}
  /\ position[p].status \in {"closing", "closed"} => Reserved(p)

EntryOver(p) ==
  Reserved(p) => orders[p][0].status \in Terminal /\ PendingLots(p, {0}) = {}

PendingCloses(p) == Cardinality(PendingLots(p, CloseLegs))

Covered(p) ==
  /\ PendingCloses(p) <= position[p].qty
  /\ \A n \in CloseLegs : orders[p][n].status \in Active =>
       PendingCloses(p) + (orders[p][n].qty - Cardinality(FillsOf(p, n)))
         <= position[p].qty

ReservedWhole(p) ==
  \A n \in CloseLegs : orders[p][n].status = "approved" =>
    ~PendingFill(p) /\ position[p].qty = orders[p][n].qty

ReasonInForce(p) ==
  Lifecycle(request[p]) =>
    \A n \in CloseLegs :
      (orders[p][n].status = "approved" /\ ~orders[p][n].dispatched) =>
        orders[p][n].reason =
          IF request[p].expired THEN request[p].fallback ELSE "eod_flatten"

Accounts(p) ==
  /\ FillsKnown(p)
  /\ LotsNumbered(p)
  /\ FillsInOrder(p)
  /\ OpenedByFill(p)
  /\ PositionShape(p)
  /\ EntryOver(p)
  /\ Covered(p)
  /\ ReservedWhole(p)
  /\ ReasonInForce(p)

AInv == IInv /\ \A p \in Trades : Accounts(p)

(***************************************************************************)
(* Facts about the sets of fills.                                          *)
(***************************************************************************)
LEMMA LegsFacts ==
  /\ CloseLegs \subseteq Legs
  /\ 0 \in Legs /\ 0 \notin CloseLegs
  /\ Legs = {0} \cup CloseLegs
BY LedgerAssumption DEF Legs, CloseLegs

LEMMA FillsFacts ==
  ASSUME TypeOK, NEW p \in Trades
  PROVE  /\ DOMAIN fills = 1..Len(fills) /\ Len(fills) \in Nat /\ cursor \in Nat
         /\ cursor <= Len(fills)
         /\ \A n \in Legs : FillsOf(p, n) \subseteq 1..Len(fills)
         /\ \A n : IsFiniteSet(FillsOf(p, n)) /\ Cardinality(FillsOf(p, n)) \in Nat
         /\ \A s : /\ IsFiniteSet(PendingLots(p, s))
                   /\ Cardinality(PendingLots(p, s)) \in Nat
                   /\ PendingLots(p, s) \subseteq 1..Len(fills)
<1>1. DOMAIN fills = 1..Len(fills) /\ Len(fills) \in Nat
      /\ cursor \in Nat /\ cursor <= Len(fills)
  BY DEF TypeOK
<1>2. IsFiniteSet(1..Len(fills))
  BY <1>1, FS_Interval
<1>3. \A n : FillsOf(p, n) \subseteq 1..Len(fills)
  BY <1>1 DEF FillsOf
<1>4. \A s : PendingLots(p, s) \subseteq 1..Len(fills)
  BY <1>1 DEF PendingLots
<1>5. \A n : IsFiniteSet(FillsOf(p, n)) /\ Cardinality(FillsOf(p, n)) \in Nat
  BY <1>2, <1>3, FS_Subset, FS_CardinalityType
<1>6. \A s : IsFiniteSet(PendingLots(p, s)) /\ Cardinality(PendingLots(p, s)) \in Nat
  BY <1>2, <1>4, FS_Subset, FS_CardinalityType
<1> QED BY <1>1, <1>3, <1>4, <1>5, <1>6

(* A trade has a fill to commit when one of its legs has. *)
LEMMA PendingByLegs ==
  ASSUME TypeOK, NEW p \in Trades
  PROVE  PendingFill(p) <=> PendingLots(p, {0}) # {} \/ PendingLots(p, CloseLegs) # {}
<1>1. \A i \in DOMAIN fills : fills[i] \in FillRows
  BY DEF TypeOK
<1>2. \A i \in DOMAIN fills : fills[i].leg \in Legs
  BY <1>1 DEF FillRows
<1>3. \A i \in DOMAIN fills : fills[i].leg = 0 \/ fills[i].leg \in CloseLegs
  BY <1>2, LegsFacts
<1> QED BY <1>3 DEF PendingFill, PendingLots

LEMMA AddedLot ==
  ASSUME NEW S, IsFiniteSet(S), Cardinality(S) \in Nat, NEW x, x \notin S
  PROVE  Cardinality(S \cup {x}) = Cardinality(S) + 1
BY FS_AddElement

LEMMA RemovedLot ==
  ASSUME NEW S, IsFiniteSet(S), Cardinality(S) \in Nat, NEW x, x \in S
  PROVE  Cardinality(S \ {x}) = Cardinality(S) - 1
BY FS_RemoveElement

(***************************************************************************)
(* One step, seen from one leg.                                            *)
(***************************************************************************)
Fresh(q, n) ==
  /\ orders[q][n].status = "none"
  /\ orders'[q][n].status = "approved"
  /\ orders'[q][n].qty # 0
  /\ n # 0 => Reserves(q) /\ orders'[q][n].qty = position[q].qty

LegStep(q, n) ==
  LET o == orders[q][n]
      u == orders'[q][n]
  IN /\ o.status \notin Unfilled => u.status \notin Unfilled
     /\ o.status # "none" => u.status # "none" /\ u.qty = o.qty
     /\ o.status \in Terminal => u.status \in Terminal
     /\ o.status = "none" => u.status = "none" \/ Fresh(q, n)
     /\ u.status \in Active => o.status \in Active \/ Fresh(q, n)
     /\ u.status = "approved" => o.status = "approved" \/ Fresh(q, n)

LEMMA RowMovesStep ==
  ASSUME NEW q \in Trades, NEW n \in Legs, orders[q][n] \in OrderRows,
         RowMoves(orders[q][n], orders'[q][n])
  PROVE  LegStep(q, n)
<1> DEFINE o == orders[q][n]
           u == orders'[q][n]
<1>1. CASE u = o
  BY <1>1 DEF LegStep, Active
<1>2. CASE /\ o.status \in Active
           /\ u.status \in Active \cup Terminal
           /\ StatusForward(o.status, u.status)
           /\ u.qty = o.qty
  BY <1>2 DEF LegStep, StatusForward, Unfilled, Active, Terminal
<1> QED BY <1>1, <1>2 DEF RowMoves

LEMMA LegMovesStep ==
  ASSUME IInv, NEW q \in Trades, NEW n \in CloseLegs, LegMoves(q, n)
  PROVE  LegStep(q, n)
<1>1. n \in Legs /\ orders[q][n] \in OrderRows
  BY LegsFacts DEF IInv, TypeOK
<1>2. RowMoves(orders[q][n], orders'[q][n])
  BY DEF LegMoves, RowMoves
<1> QED BY <1>1, <1>2, RowMovesStep

LEMMA EveryLegSteps ==
  ASSUME IInv, Next, NEW q \in Trades, NEW n \in Legs
  PROVE  LegStep(q, n)
<1>0. orders[q][n] \in OrderRows
  BY DEF IInv, TypeOK
<1>1. CASE n = 0
  <2>1. EntryMoves(q)
    BY EntryStep
  <2>2. CASE RowMoves(orders[q][0], orders'[q][0])
    BY <1>0, <1>1, <2>2, RowMovesStep
  <2>3. CASE /\ orders[q][0].status = "none"
             /\ orders'[q][0].status = "approved"
             /\ orders'[q][0].qty = EntryQty
    BY <1>1, <2>3, LedgerAssumption DEF LegStep, Fresh, Unfilled, Terminal, Active
  <2> QED BY <2>1, <2>2, <2>3 DEF EntryMoves
<1>2. CASE n # 0
  <2>0. n \in CloseLegs
    BY <1>2, LegsFacts
  <2>1. CASE Moves(q)
    BY <2>0, <2>1, LegMovesStep DEF Moves
  <2>2. CASE Stores(q)
    <3>1. orders' = orders
      BY <2>2 DEF Stores
    <3> QED BY <3>1, <1>0, RowMovesStep DEF RowMoves
  <2>3. CASE Reserves(q)
    <3> DEFINE attempt == position[q].attempt + 1
    <3>1. CASE n # attempt
      BY <2>0, <2>3, <3>1, LegMovesStep DEF Reserves
    <3>2. CASE n = attempt
      <4>1. attempt > position[q].attempt
        BY DEF IInv, TypeOK, PositionRows, Legs
      <4>2. orders[q][n].status = "none"
        BY <2>0, <3>2, <4>1 DEF IInv, TradeInv, FreshLegs, NoOrder
      <4>3. /\ orders'[q][n].status = "approved"
            /\ orders'[q][n].qty = position[q].qty
            /\ position[q].qty # 0
        BY <2>3, <3>2 DEF Reserves, Reservation, NoOrder
      <4> QED BY <2>3, <4>2, <4>3 DEF LegStep, Fresh, Unfilled, Terminal, Active
    <3> QED BY <3>1, <3>2
  <2>4. ASSUME NEW m \in CloseLegs, Dispatches(q, m)
        PROVE  LegStep(q, n)
    <3>1. CASE n # m
      BY <2>0, <2>4, <3>1, LegMovesStep DEF Dispatches
    <3>2. CASE n = m
      <4>1. orders'[q][n].status = orders[q][n].status
            /\ orders'[q][n].qty = orders[q][n].qty
        BY <1>0, <2>4, <3>2 DEF Dispatches, Marked, OrderRows
      <4> QED BY <4>1 DEF LegStep, Active
    <3> QED BY <3>1, <3>2
  <2> QED BY <2>1, <2>2, <2>3, <2>4, EveryTradeSteps DEF TradeStep
<1> QED BY <1>1, <1>2

(***************************************************************************)
(* Steps that record and commit nothing for the trade.                     *)
(***************************************************************************)
SameBook(q) ==
  /\ \A n \in Legs : FillsOf(q, n)' = FillsOf(q, n)
  /\ PendingLots(q, {0})' = PendingLots(q, {0})
  /\ PendingLots(q, CloseLegs)' = PendingLots(q, CloseLegs)
  /\ \A n \in Legs : \A i \in FillsOf(q, n) : fills'[i] = fills[i]
  /\ cursor <= cursor'
  /\ position'[q].status = position[q].status
  /\ position'[q].qty = position[q].qty
  /\ position'[q].opened = position[q].opened

(* What prepare_exit has seen when it reserves a close: the entry is over, *)
(* and its last fill is in the position.                                   *)
LEMMA ReservedAfterEntry ==
  ASSUME AInv, NEW q \in Trades, Reserves(q)
  PROVE  /\ orders[q][0].status \in Terminal
         /\ PendingLots(q, {0}) = {}
         /\ PendingLots(q, CloseLegs) = {}
         /\ ~PendingFill(q)
<1>1. Accounts(q) /\ TypeOK /\ orders[q][0] \in OrderRows /\ position[q] \in PositionRows
  BY LegsFacts DEF AInv, IInv, TypeOK
<1>2. ~PendingFill(q) /\ ~WorkingEntry(q) /\ position[q].qty # 0
  BY DEF Reserves
<1>3. orders[q][0].status \notin Active
  <2>1. orders[q][0].status \in Active => Cardinality(FillsOf(q, 0)) < orders[q][0].qty
    BY <1>1, LegsFacts DEF Accounts, LotsNumbered
  <2> QED BY <1>2, <2>1 DEF WorkingEntry
<1>4. orders[q][0].status # "none"
  <2>1. position[q].status # "none"
    BY <1>1, <1>2 DEF Accounts, PositionShape, PositionRows
  <2>2. FillsOf(q, 0) # {}
    BY <1>1, <2>1 DEF Accounts, OpenedByFill
  <2> QED BY <1>1, <2>2, LegsFacts DEF Accounts, FillsKnown, Unfilled
<1>5. orders[q][0].status \in Terminal
  BY <1>1, <1>3, <1>4 DEF OrderRows
<1> QED BY <1>1, <1>2, <1>5, PendingByLegs

(* The reason of an unsent close is the one in force. *)
LEMMA ReasonStep ==
  ASSUME AInv, Next, NEW q \in Trades
  PROVE  ReasonInForce(q)'
<1> SUFFICES ASSUME Lifecycle(request'[q]), NEW n \in CloseLegs,
                    orders'[q][n].status = "approved", ~orders'[q][n].dispatched
             PROVE  orders'[q][n].reason =
                      IF request'[q].expired THEN request'[q].fallback
                                             ELSE "eod_flatten"
  BY DEF ReasonInForce
<1> DEFINE o == orders[q][n]
           u == orders'[q][n]
<1>1. /\ TradeInv(q) /\ ReasonInForce(q) /\ n \in Legs /\ o \in OrderRows
      /\ request[q] \in RequestRows
  BY LegsFacts DEF AInv, IInv, TypeOK, Accounts
<1>2. LegMoves(q, n) => /\ o.status = "approved"
                        /\ u.reason = o.reason
                        /\ u.dispatched = o.dispatched
  BY DEF LegMoves, StatusForward, Active, Terminal
<1>3. CASE Moves(q)
  <2>1. /\ LegMoves(q, n) /\ RequestMoves(q) /\ ExpiryCancels(q)
        /\ o.status = "approved" /\ u.reason = o.reason /\ ~o.dispatched
    BY <1>2, <1>3 DEF Moves
  <2>2. Lifecycle(request[q])
    BY <2>1 DEF RequestMoves, Lifecycle
  <2>3. o.reason = IF request[q].expired THEN request[q].fallback ELSE "eod_flatten"
    BY <1>1, <2>1, <2>2 DEF ReasonInForce
  <2>4. o.reason # "none"
    BY <1>1, <2>1 DEF TradeInv, CloseShape, ExitReasons, Protective
  <2>5. CASE request[q].expired
    <3>1. request[q].fallback # "none"
      BY <2>3, <2>4, <2>5
    <3>2. request'[q].expired /\ request'[q].fallback = request[q].fallback
      BY <2>1, <2>5, <3>1 DEF RequestMoves
    <3> QED BY <2>1, <2>3, <2>5, <3>2
  <2>6. CASE ~request[q].expired
    <3>1. u.reason = "eod_flatten"
      BY <2>1, <2>3, <2>6
    <3>2. UnsentEod(u)
      BY <3>1 DEF UnsentEod
    <3>3. ~request'[q].expired
      BY <2>1, <2>6, <3>2 DEF ExpiryCancels
    <3> QED BY <3>1, <3>3
  <2> QED BY <2>5, <2>6
<1>4. CASE Stores(q)
  <2>1. orders'[q][n] = NoOrder
    BY <1>1, <1>4 DEF Stores, TradeInv, RequestComesFirst
  <2> QED BY <2>1 DEF NoOrder
<1>5. CASE Reserves(q)
  <2> DEFINE attempt == position[q].attempt + 1
             r == RequestAfterExpiry(q)
  <2>1. n = attempt
    BY <1>5 DEF Reserves, Active
  <2>2. u.reason = EffectiveReason(r) /\ request'[q] = r
    BY <1>5, <2>1 DEF Reserves, Reservation, NoOrder
  <2>3. EffectiveState(r) \notin {"dormant", "not_open"}
    BY <1>5 DEF Reserves
  <2> HIDE DEF r
  <2>4. Lifecycle(r)
    BY <2>2
  <2> QED BY <2>2, <2>3, <2>4 DEF EffectiveReason, EffectiveState, Lifecycle
<1>6. ASSUME NEW m \in CloseLegs, Dispatches(q, m)
      PROVE  FALSE
  <2>1. m = n
    <3>1. m # n => LegMoves(q, n) /\ o.status = "approved"
      BY <1>2, <1>6 DEF Dispatches
    <3>2. orders[q][m].status = "approved"
      BY <1>6 DEF Dispatches, Claimable
    <3> QED BY <1>1, <3>1, <3>2 DEF TradeInv, AtMostOneActive, Active
  <2>2. u = Marked(o, request[q])
    BY <1>6, <2>1 DEF Dispatches
  <2>3. Lifecycle(request[q])
    <3>1. RequestMoves(q) /\ o.status = "approved"
      BY <1>6, <2>1 DEF Dispatches, Claimable
    <3>2. request[q].reason # "none"
      BY <1>1, <3>1 DEF TradeInv, RequestComesFirst, NoOrder
    <3> QED BY <3>1, <3>2 DEF RequestMoves, Lifecycle
  <2> QED BY <1>1, <2>2, <2>3 DEF Marked, OrderRows
<1> QED
  BY <1>3, <1>4, <1>5, <1>6, EveryTradeSteps DEF TradeStep, AInv

LEMMA QuietKeeps ==
  ASSUME AInv, TypeOK', Next, NEW q \in Trades, SameBook(q)
  PROVE  Accounts(q)'
<1>0. /\ IInv /\ TypeOK /\ Accounts(q) /\ AtMostOneActive(q)
      /\ \A n \in Legs : LegStep(q, n)
  BY EveryLegSteps DEF AInv, IInv, TradeInv
<1>1. /\ \A n \in Legs : FillsOf(q, n)' = FillsOf(q, n)
      /\ PendingLots(q, {0})' = PendingLots(q, {0})
      /\ PendingLots(q, CloseLegs)' = PendingLots(q, CloseLegs)
      /\ PendingCloses(q)' = PendingCloses(q)
      /\ PendingFill(q)' <=> PendingFill(q)
  <2>1. PendingFill(q)' <=>
          PendingLots(q, {0})' # {} \/ PendingLots(q, CloseLegs)' # {}
    <3>1. \A i \in DOMAIN fills' : fills'[i] \in FillRows
      BY DEF TypeOK
    <3>2. \A i \in DOMAIN fills' : fills'[i].leg \in Legs
      BY <3>1 DEF FillRows
    <3>3. \A i \in DOMAIN fills' : fills'[i].leg = 0 \/ fills'[i].leg \in CloseLegs
      BY <3>2, LegsFacts
    <3> QED BY <3>3 DEF PendingFill, PendingLots
  <2> QED BY <1>0, <2>1, PendingByLegs DEF SameBook, PendingCloses
<1>2. \A n \in Legs : \A k : Recorded(q, n, k) => Recorded(q, n, k)'
  BY <1>1 DEF SameBook, Recorded
<1>3. \A n \in Legs : orders[q][n].status = "none" => Cardinality(FillsOf(q, n)) = 0
  BY <1>0, FS_EmptySet DEF Accounts, FillsKnown, Unfilled
<1>4. \A n \in Legs : orders'[q][n].qty \in Nat /\ Cardinality(FillsOf(q, n)) \in Nat
  BY <1>0, FillsFacts DEF TypeOK, OrderRows
<1>5. FillsKnown(q)'
  BY <1>0, <1>1 DEF Accounts, FillsKnown, LegStep
<1>6. LotsNumbered(q)'
  <2> SUFFICES ASSUME NEW n \in Legs
               PROVE  /\ Cardinality(FillsOf(q, n)) <= orders'[q][n].qty
                      /\ orders'[q][n].status \in Active =>
                           Cardinality(FillsOf(q, n)) < orders'[q][n].qty
    BY <1>0, <1>1, <1>2 DEF Accounts, LotsNumbered
  <2>1. CASE orders[q][n].status # "none"
    BY <1>0, <2>1 DEF Accounts, LotsNumbered, LegStep, Fresh
  <2>2. CASE orders[q][n].status = "none"
    <3>1. orders'[q][n].status \in Active => orders'[q][n].qty # 0
      BY <1>0, <2>2 DEF LegStep, Fresh, Active
    <3>2. Cardinality(FillsOf(q, n)) = 0
      BY <1>3, <2>2
    <3> QED BY <1>4, <3>1, <3>2
  <2> QED BY <2>1, <2>2
<1>7. FillsInOrder(q)'
  BY <1>0, <1>1 DEF Accounts, FillsInOrder, SameBook
<1>8. OpenedByFill(q)'
  <2> SUFFICES ASSUME position[q].status # "none"
               PROVE  \E i \in FillsOf(q, 0) :
                        i <= cursor' /\ fills'[i].ts = position[q].opened
    BY <1>1, LegsFacts DEF OpenedByFill, SameBook
  <2>1. PICK i \in FillsOf(q, 0) : i <= cursor /\ fills[i].ts = position[q].opened
    BY <1>0 DEF Accounts, OpenedByFill
  <2>2. i \in Nat /\ cursor \in Nat /\ cursor' \in Nat /\ cursor <= cursor'
    <3>1. i \in 1..Len(fills)
      BY <1>0, <2>1, FillsFacts, LegsFacts
    <3> QED BY <1>0, <3>1 DEF TypeOK, SameBook
  <2> QED BY <2>1, <2>2, LegsFacts DEF SameBook
<1>9. Reserved(q) => Reserved(q)'
  BY <1>0, LegsFacts DEF Reserved, LegStep
<1>10. PositionShape(q)'
  BY <1>0, <1>9 DEF Accounts, PositionShape, SameBook
<1>11. Reserved(q)' => Reserved(q) \/ Reserves(q)
  <2> SUFFICES ASSUME NEW n \in CloseLegs, orders'[q][n].status # "none"
               PROVE  Reserved(q) \/ Reserves(q)
    BY DEF Reserved
  <2>1. orders[q][n].status # "none" \/ Fresh(q, n)
    BY <1>0, LegsFacts DEF LegStep
  <2> QED BY <2>1, LegsFacts DEF Reserved, Fresh
<1>12. EntryOver(q)'
  <2>1. Reserved(q)' => orders[q][0].status \in Terminal /\ PendingLots(q, {0}) = {}
    BY <1>0, <1>11, ReservedAfterEntry DEF Accounts, EntryOver
  <2> QED BY <1>0, <1>1, <2>1, LegsFacts DEF EntryOver, LegStep
<1>13. ASSUME NEW n \in CloseLegs, Fresh(q, n)
       PROVE  /\ PendingCloses(q) = 0 /\ ~PendingFill(q)
              /\ Cardinality(FillsOf(q, n)) = 0
              /\ orders'[q][n].qty = position[q].qty
  <2>1. Reserves(q) /\ orders'[q][n].qty = position[q].qty
    BY <1>13, LegsFacts DEF Fresh
  <2>2. orders[q][n].status = "none"
    BY <1>13 DEF Fresh
  <2> QED
    BY <1>3, <2>1, <2>2, LegsFacts, ReservedAfterEntry, FS_EmptySet DEF PendingCloses
<1>14. Covered(q)'
  <2>1. PendingCloses(q) <= position[q].qty
    BY <1>0 DEF Accounts, Covered
  <2>2. ASSUME NEW n \in CloseLegs, orders'[q][n].status \in Active
        PROVE  PendingCloses(q) + (orders'[q][n].qty - Cardinality(FillsOf(q, n)))
                 <= position[q].qty
    <3>1. CASE orders[q][n].status \in Active
      <4>1. orders'[q][n].qty = orders[q][n].qty
        BY <1>0, <3>1, LegsFacts DEF LegStep, Active
      <4> QED BY <1>0, <3>1, <4>1 DEF Accounts, Covered
    <3>2. CASE Fresh(q, n)
      <4>1. position[q].qty \in Nat
        BY <1>0 DEF TypeOK, PositionRows
      <4> QED BY <1>13, <3>2, <4>1
    <3> QED BY <1>0, <2>2, <3>1, <3>2, LegsFacts DEF LegStep
  <2> QED BY <1>1, <2>1, <2>2, LegsFacts DEF Covered, SameBook
<1>15. ReservedWhole(q)'
  <2> SUFFICES ASSUME NEW n \in CloseLegs, orders'[q][n].status = "approved"
               PROVE  ~PendingFill(q) /\ position[q].qty = orders'[q][n].qty
    BY <1>1 DEF ReservedWhole, SameBook
  <2>1. CASE orders[q][n].status = "approved"
    <3>1. orders'[q][n].qty = orders[q][n].qty
      BY <1>0, <2>1, LegsFacts DEF LegStep
    <3> QED BY <1>0, <2>1, <3>1 DEF Accounts, ReservedWhole
  <2>2. CASE Fresh(q, n)
    BY <1>13, <2>2
  <2> QED BY <1>0, <2>1, <2>2, LegsFacts DEF LegStep
<1> QED
  BY <1>5, <1>6, <1>7, <1>8, <1>10, <1>12, <1>14, <1>15, ReasonStep DEF Accounts

(***************************************************************************)
(* A venue fill.                                                           *)
(***************************************************************************)
LEMMA AppendedFill ==
  ASSUME TypeOK, NEW f \in FillRows, fills' = Append(fills, f), cursor' = cursor
  PROVE  /\ fills'[Len(fills) + 1] = f
         /\ \A i \in 1..Len(fills) : fills'[i] = fills[i]
         /\ \A q \in Trades, n \in Legs :
              FillsOf(q, n)' = IF q = f.trade /\ n = f.leg
                               THEN FillsOf(q, n) \cup {Len(fills) + 1}
                               ELSE FillsOf(q, n)
         /\ \A q \in Trades, s \in SUBSET Legs :
              PendingLots(q, s)' = IF q = f.trade /\ f.leg \in s
                                   THEN PendingLots(q, s) \cup {Len(fills) + 1}
                                   ELSE PendingLots(q, s)
<1>1. /\ fills \in Seq(FillRows) /\ DOMAIN fills = 1..Len(fills)
      /\ Len(fills) \in Nat /\ cursor \in 0..Len(fills)
  BY DEF TypeOK
<1>2. /\ Len(fills') = Len(fills) + 1
      /\ fills'[Len(fills) + 1] = f
      /\ \A i \in 1..Len(fills) : fills'[i] = fills[i]
      /\ DOMAIN fills' = 1..(Len(fills) + 1)
  BY <1>1, AppendProperties
<1>3. DOMAIN fills' = DOMAIN fills \cup {Len(fills) + 1}
  BY <1>1, <1>2
<1>4. ASSUME NEW q \in Trades, NEW n \in Legs
      PROVE  FillsOf(q, n)' = IF q = f.trade /\ n = f.leg
                              THEN FillsOf(q, n) \cup {Len(fills) + 1}
                              ELSE FillsOf(q, n)
  BY <1>1, <1>2, <1>3 DEF FillsOf
<1>5. Len(fills) + 1 > cursor
  BY <1>1
<1>6. ASSUME NEW q \in Trades, NEW s \in SUBSET Legs
      PROVE  PendingLots(q, s)' = IF q = f.trade /\ f.leg \in s
                                  THEN PendingLots(q, s) \cup {Len(fills) + 1}
                                  ELSE PendingLots(q, s)
  BY <1>1, <1>2, <1>3, <1>5 DEF PendingLots
<1> QED BY <1>2, <1>4, <1>6

LEMMA VenueFillStep ==
  ASSUME IInv, NEW p \in Trades, NEW n \in Legs, NEW ts \in Times, VenueFill(p, n, ts)
  PROVE  /\ UNCHANGED <<now, position, request, cursor, sent>>
         /\ fills' = Append(fills, [trade |-> p, leg |-> n,
                                    lot |-> Cardinality(FillsOf(p, n)) + 1, ts |-> ts])
         /\ \A q \in Trades, m \in Legs :
              q # p \/ m # n => orders'[q][m] = orders[q][m]
         /\ orders'[p][n].qty = orders[p][n].qty
         /\ orders'[p][n].status \in {"partially_filled", "filled"}
         /\ orders'[p][n].status \in Active =>
              Cardinality(FillsOf(p, n)) + 1 # orders[p][n].qty
<1> DEFINE lot == Cardinality(FillsOf(p, n)) + 1
           reported == FillStatus(lot, orders[p][n].qty)
           from == orders[p][n].status
           to == IF FillProgressRank(reported) > FillProgressRank(from)
                 THEN reported ELSE from
<1>1. orders \in [Trades -> [Legs -> OrderRows]] /\ orders[p][n] \in OrderRows
  BY DEF IInv, TypeOK
<1>2. orders' = [orders EXCEPT ![p][n].status = to]
  BY DEF VenueFill, RecordFill
<1>3. from \in Active
  BY DEF VenueFill, Working
<1>4. /\ to \in {"partially_filled", "filled"}
      /\ to \in Active => lot # orders[p][n].qty
  <2> HIDE DEF lot
  <2>1. CASE lot = orders[p][n].qty
    <3>1. reported = "filled"
      BY <2>1 DEF FillStatus
    <3>2. FillProgressRank("filled") = 3
      BY DEF FillProgressRank
    <3>3. FillProgressRank(from) \in {0, 1, 2}
      BY <1>3 DEF FillProgressRank, Active
    <3>4. to = "filled"
      BY <3>1, <3>2, <3>3
    <3> QED BY <3>4 DEF Active
  <2>2. CASE lot # orders[p][n].qty
    <3>1. reported = "partially_filled"
      BY <2>2 DEF FillStatus
    <3>2. FillProgressRank("partially_filled") = 2
      BY DEF FillProgressRank
    <3>3. CASE from = "partially_filled"
      BY <2>2, <3>1, <3>3
    <3>4. CASE from # "partially_filled"
      <4>1. FillProgressRank(from) \in {0, 1}
        BY <1>3, <3>4 DEF FillProgressRank, Active
      <4>2. to = "partially_filled"
        BY <3>1, <3>2, <4>1
      <4> QED BY <2>2, <4>2
    <3> QED BY <3>3, <3>4
  <2> QED BY <2>1, <2>2
<1> HIDE DEF to
<1>5. orders'[p][n] = [orders[p][n] EXCEPT !.status = to]
  BY <1>1, <1>2
<1>6. orders'[p][n].status = to /\ orders'[p][n].qty = orders[p][n].qty
  BY <1>1, <1>5 DEF OrderRows
<1>7. \A q \in Trades, m \in Legs : q # p \/ m # n => orders'[q][m] = orders[q][m]
  BY <1>1, <1>2
<1> QED BY <1>4, <1>6, <1>7 DEF VenueFill, RecordFill

(* The fills of another trade leave this one alone. *)
LEMMA FillOfAnother ==
  ASSUME IInv, NEW p \in Trades, NEW n \in Legs, NEW ts \in Times,
         VenueFill(p, n, ts), NEW q \in Trades, q # p
  PROVE  SameBook(q)
<1> DEFINE f == [trade |-> p, leg |-> n, lot |-> Cardinality(FillsOf(p, n)) + 1,
                 ts |-> ts]
<1>0. TypeOK /\ Cardinality(FillsOf(p, n)) \in Nat
  BY FillsFacts DEF IInv
<1>1. f \in FillRows /\ f.trade = p
  BY <1>0 DEF FillRows
<1>2. fills' = Append(fills, f) /\ UNCHANGED <<position, cursor>>
  BY VenueFillStep
<1> HIDE DEF f
<1>3. {0} \in SUBSET Legs /\ CloseLegs \in SUBSET Legs
  BY LegsFacts
<1>4. \A m \in Legs : FillsOf(q, m)' = FillsOf(q, m) /\ FillsOf(q, m) \subseteq 1..Len(fills)
  BY <1>0, <1>1, <1>2, AppendedFill, FillsFacts
<1>5. \A m \in Legs : \A i \in FillsOf(q, m) : fills'[i] = fills[i]
  BY <1>0, <1>1, <1>2, <1>4, AppendedFill
<1>6. PendingLots(q, {0})' = PendingLots(q, {0})
      /\ PendingLots(q, CloseLegs)' = PendingLots(q, CloseLegs)
  BY <1>0, <1>1, <1>2, <1>3, AppendedFill
<1>7. cursor <= cursor'
  BY <1>0, <1>2, FillsFacts
<1> QED BY <1>2, <1>4, <1>5, <1>6, <1>7 DEF SameBook

LEMMA FillKeeps ==
  ASSUME AInv, TypeOK', Next, NEW q \in Trades, NEW n \in Legs, NEW ts \in Times,
         VenueFill(q, n, ts)
  PROVE  Accounts(q)'
<1> DEFINE lot == Cardinality(FillsOf(q, n)) + 1
           new == Len(fills) + 1
           f == [trade |-> q, leg |-> n, lot |-> lot, ts |-> ts]
<1>0. /\ IInv /\ TypeOK /\ Accounts(q) /\ AtMostOneActive(q)
      /\ Cardinality(FillsOf(q, n)) \in Nat /\ Len(fills) \in Nat
      /\ \A m \in Legs : orders[q][m] \in OrderRows
  BY FillsFacts DEF AInv, IInv, TypeOK, TradeInv
<1>1. /\ orders[q][n].status \in Active
      /\ lot <= orders[q][n].qty
      /\ \A i \in DOMAIN fills : fills[i].trade = q => fills[i].ts <= ts
  BY DEF VenueFill, Working
<1>2. f \in FillRows /\ f.trade = q /\ f.leg = n /\ f.lot = lot /\ f.ts = ts
  BY <1>0 DEF FillRows
<1>3. /\ UNCHANGED <<position, request, cursor>>
      /\ fills' = Append(fills, f)
      /\ \A m \in Legs : m # n => orders'[q][m] = orders[q][m]
      /\ orders'[q][n].qty = orders[q][n].qty
      /\ orders'[q][n].status \in {"partially_filled", "filled"}
      /\ orders'[q][n].status \in Active => lot # orders[q][n].qty
  BY <1>0, VenueFillStep
<1> HIDE DEF f
<1>4. /\ fills'[new] = f
      /\ \A i \in 1..Len(fills) : fills'[i] = fills[i]
      /\ \A m \in Legs : m # n => FillsOf(q, m)' = FillsOf(q, m)
      /\ FillsOf(q, n)' = FillsOf(q, n) \cup {new}
      /\ \A s \in SUBSET Legs :
           PendingLots(q, s)' = IF n \in s THEN PendingLots(q, s) \cup {new}
                                           ELSE PendingLots(q, s)
  BY <1>0, <1>2, <1>3, AppendedFill
<1>5. /\ \A m \in Legs : FillsOf(q, m) \subseteq 1..Len(fills)
      /\ \A s : PendingLots(q, s) \subseteq 1..Len(fills)
      /\ new \notin 1..Len(fills)
  BY <1>0, FillsFacts
<1>6. Cardinality(FillsOf(q, n)') = lot
  BY <1>0, <1>4, <1>5, FillsFacts, AddedLot
<1>7. \A m \in Legs, i \in Nat : i \in FillsOf(q, m) => fills'[i] = fills[i]
  BY <1>4, <1>5
<1>8. \A m \in Legs : \A k : Recorded(q, m, k) => Recorded(q, m, k)'
  <2> SUFFICES ASSUME NEW m \in Legs, NEW k, NEW i \in FillsOf(q, m), fills[i].lot = k
               PROVE  Recorded(q, m, k)'
    BY DEF Recorded
  <2>1. i \in FillsOf(q, m)' /\ fills'[i].lot = k
    BY <1>4, <1>5
  <2> QED BY <2>1 DEF Recorded
<1> HIDE DEF lot, new
<1>9. FillsKnown(q)'
  <2> SUFFICES ASSUME NEW m \in Legs, FillsOf(q, m)' # {}
               PROVE  orders'[q][m].status \notin Unfilled
    BY DEF FillsKnown
  <2>1. CASE m = n
    BY <1>3, <2>1 DEF Unfilled
  <2>2. CASE m # n
    BY <1>0, <1>3, <1>4, <2>2 DEF Accounts, FillsKnown
  <2> QED BY <2>1, <2>2
<1>10. LotsNumbered(q)'
  <2> SUFFICES ASSUME NEW m \in Legs
               PROVE  /\ Cardinality(FillsOf(q, m)') <= orders'[q][m].qty
                      /\ orders'[q][m].status \in Active =>
                           Cardinality(FillsOf(q, m)') < orders'[q][m].qty
                      /\ \A k \in 1..Cardinality(FillsOf(q, m)') : Recorded(q, m, k)'
    BY DEF LotsNumbered
  <2>1. CASE m # n
    BY <1>0, <1>3, <1>4, <1>8, <2>1 DEF Accounts, LotsNumbered
  <2>2. CASE m = n
    <3>1. lot \in Nat /\ orders[q][n].qty \in Nat
      BY <1>0 DEF lot, OrderRows
    <3>2. ASSUME NEW k \in 1..lot
          PROVE  Recorded(q, n, k)'
      <4>1. CASE k = lot
        <5>1. new \in FillsOf(q, n)' /\ fills'[new].lot = lot
          BY <1>2, <1>4
        <5> QED BY <4>1, <5>1 DEF Recorded
      <4>2. CASE k # lot
        <5>1. k \in 1..Cardinality(FillsOf(q, n))
          BY <1>0, <3>2, <4>2 DEF lot
        <5> QED BY <1>0, <1>8, <5>1 DEF Accounts, LotsNumbered
      <4> QED BY <4>1, <4>2
    <3> QED BY <1>1, <1>3, <1>6, <2>2, <3>1, <3>2
  <2> QED BY <2>1, <2>2
<1>11. FillsInOrder(q)'
  <2> SUFFICES ASSUME NEW k \in Legs, NEW m \in Legs,
                      NEW i \in FillsOf(q, k)', NEW j \in FillsOf(q, m)', i < j
               PROVE  fills'[i].ts <= fills'[j].ts
    BY DEF FillsInOrder
  <2>1. i \in 1..Len(fills) \cup {new} /\ j \in 1..Len(fills) \cup {new}
    BY <1>4, <1>5
  <2>2. i # new
    BY <1>0, <2>1 DEF new
  <2>3. i \in FillsOf(q, k) /\ i \in DOMAIN fills /\ fills[i].trade = q
    BY <1>4, <2>2 DEF FillsOf
  <2>4. fills'[i] = fills[i]
    BY <1>4, <1>5, <2>3
  <2>5. CASE j = new
    BY <1>1, <1>2, <1>4, <2>3, <2>4, <2>5
  <2>6. CASE j # new
    <3>1. j \in FillsOf(q, m)
      BY <1>4, <2>6
    <3>2. fills'[j] = fills[j]
      BY <1>4, <1>5, <3>1
    <3> QED BY <1>0, <2>3, <2>4, <3>1, <3>2 DEF Accounts, FillsInOrder
  <2> QED BY <2>5, <2>6
<1>12. OpenedByFill(q)'
  <2> SUFFICES ASSUME position[q].status # "none"
               PROVE  \E i \in FillsOf(q, 0)' :
                        i <= cursor /\ fills'[i].ts = position[q].opened
    BY <1>3 DEF OpenedByFill
  <2>1. PICK i \in FillsOf(q, 0) : i <= cursor /\ fills[i].ts = position[q].opened
    BY <1>0 DEF Accounts, OpenedByFill
  <2>2. i \in FillsOf(q, 0)' /\ fills'[i] = fills[i]
    BY <1>4, <1>5, <2>1, LegsFacts
  <2> QED BY <2>1, <2>2
<1>13. \A m \in Legs : orders'[q][m].status # "none" <=> orders[q][m].status # "none"
  BY <1>1, <1>3 DEF Active
<1>14. Reserved(q)' <=> Reserved(q)
  BY <1>13, LegsFacts DEF Reserved
<1>15. PositionShape(q)'
  BY <1>0, <1>3, <1>14 DEF Accounts, PositionShape
<1>16. Reserved(q) => n # 0
  <2>1. Reserved(q) => orders[q][0].status \in Terminal
    BY <1>0 DEF Accounts, EntryOver
  <2> QED BY <1>1, <2>1 DEF Active, Terminal
<1>17. EntryOver(q)'
  <2> SUFFICES ASSUME Reserved(q)
               PROVE  orders'[q][0].status \in Terminal /\ PendingLots(q, {0})' = {}
    BY <1>14 DEF EntryOver
  <2>1. n # 0
    BY <1>16
  <2>2. PendingLots(q, {0})' = PendingLots(q, {0})
    BY <1>4, <2>1, LegsFacts
  <2>3. orders'[q][0] = orders[q][0]
    BY <1>3, <2>1, LegsFacts
  <2> QED BY <1>0, <2>2, <2>3 DEF Accounts, EntryOver
<1>18. PendingCloses(q) \in Nat /\ position[q].qty \in Nat
  BY <1>0, FillsFacts DEF PendingCloses, TypeOK, PositionRows
<1>19. Covered(q)'
  <2>1. CASE n = 0
    <3>1. PendingCloses(q)' = PendingCloses(q)
      BY <1>4, <2>1, LegsFacts DEF PendingCloses
    <3>2. \A m \in CloseLegs : orders'[q][m] = orders[q][m] /\ FillsOf(q, m)' = FillsOf(q, m)
      BY <1>3, <1>4, <2>1, LegsFacts
    <3> QED BY <1>0, <1>3, <3>1, <3>2 DEF Accounts, Covered
  <2>2. CASE n # 0
    <3>0. n \in CloseLegs
      BY <2>2, LegsFacts
    <3>1. PendingCloses(q)' = PendingCloses(q) + 1
      <4>1. PendingLots(q, CloseLegs)' = PendingLots(q, CloseLegs) \cup {new}
        BY <1>4, <3>0, LegsFacts
      <4> QED BY <1>0, <1>5, <4>1, FillsFacts, AddedLot DEF PendingCloses
    <3>2. PendingCloses(q) + (orders[q][n].qty - Cardinality(FillsOf(q, n)))
            <= position[q].qty
      BY <1>0, <1>1, <3>0 DEF Accounts, Covered
    <3>3. orders[q][n].qty \in Nat
      BY <1>0 DEF OrderRows
    <3>4. PendingCloses(q) + 1 <= position[q].qty
      BY <1>0, <1>1, <1>18, <3>2, <3>3 DEF lot
    <3>5. ASSUME NEW m \in CloseLegs, orders'[q][m].status \in Active
          PROVE  PendingCloses(q) + 1 + (orders'[q][m].qty - Cardinality(FillsOf(q, m)'))
                   <= position[q].qty
      <4>1. m = n
        BY <1>0, <1>1, <1>3, <3>0, <3>5, LegsFacts DEF AtMostOneActive
      <4>2. orders'[q][m].qty = orders[q][n].qty /\ Cardinality(FillsOf(q, m)') = lot
        BY <1>3, <1>6, <4>1
      <4> QED BY <1>0, <1>18, <3>2, <3>3, <4>2, SMTT(30) DEF lot
    <3> QED BY <1>3, <3>1, <3>4, <3>5 DEF Covered
  <2> QED BY <2>1, <2>2
<1>20. ReservedWhole(q)'
  <2> SUFFICES ASSUME NEW m \in CloseLegs, orders'[q][m].status = "approved"
               PROVE  FALSE
    BY DEF ReservedWhole
  <2>1. m # n
    BY <1>3
  <2>2. orders[q][m].status = "approved"
    BY <1>3, <2>1, LegsFacts
  <2>3. Reserved(q)
    BY <2>2 DEF Reserved
  <2>4. n \in CloseLegs
    BY <1>16, <2>3, LegsFacts
  <2> QED BY <1>0, <1>1, <2>1, <2>2, <2>4 DEF AtMostOneActive, Active
<1> QED
  BY <1>9, <1>10, <1>11, <1>12, <1>15, <1>17, <1>19, <1>20, ReasonStep DEF Accounts

(***************************************************************************)
(* A committed fill.                                                       *)
(***************************************************************************)
LEMMA CommittedFill ==
  ASSUME TypeOK, CommitFill
  PROVE  /\ HeadFill \in FillRows
         /\ UNCHANGED <<now, orders, request, fills, sent>>
         /\ cursor' = cursor + 1
         /\ \A q \in Trades, n \in Legs : FillsOf(q, n)' = FillsOf(q, n)
         /\ cursor + 1 \in FillsOf(HeadFill.trade, HeadFill.leg)
         /\ \A q \in Trades, s \in SUBSET Legs :
              PendingLots(q, s)' = PendingLots(q, s) \ {cursor + 1}
         /\ \A q \in Trades, s \in SUBSET Legs :
              cursor + 1 \in PendingLots(q, s) <=>
                q = HeadFill.trade /\ HeadFill.leg \in s
<1>1. /\ DOMAIN fills = 1..Len(fills) /\ cursor \in Nat /\ Len(fills) \in Nat
      /\ cursor + 1 \in 1..Len(fills)
  BY DEF TypeOK, CommitFill
<1>2. HeadFill \in FillRows
  BY <1>1 DEF TypeOK, HeadFill
<1>3. UNCHANGED <<now, orders, request, fills, sent>> /\ cursor' = cursor + 1
  BY DEF CommitFill
<1>4. \A i \in DOMAIN fills : i > cursor' <=> i > cursor /\ i # cursor + 1
  BY <1>1, <1>3
<1> QED BY <1>1, <1>2, <1>3, <1>4 DEF FillsOf, PendingLots, HeadFill

LEMMA CommitOfAnother ==
  ASSUME TypeOK, CommitFill, NEW q \in Trades, q # HeadFill.trade
  PROVE  SameBook(q)
<1>1. {0} \in SUBSET Legs /\ CloseLegs \in SUBSET Legs
  BY LegsFacts
<1>2. position'[q] = position[q]
  BY DEF TypeOK, CommitFill
<1>3. cursor <= cursor'
  BY CommittedFill, FillsFacts
<1>4. PendingLots(q, {0})' = PendingLots(q, {0})
      /\ PendingLots(q, CloseLegs)' = PendingLots(q, CloseLegs)
  <2>1. ASSUME NEW s \in SUBSET Legs
        PROVE  PendingLots(q, s)' = PendingLots(q, s)
    <3>1. cursor + 1 \notin PendingLots(q, s)
      BY CommittedFill
    <3>2. PendingLots(q, s)' = PendingLots(q, s) \ {cursor + 1}
      BY CommittedFill
    <3> QED BY <3>1, <3>2
  <2> QED BY <1>1, <2>1
<1> QED BY <1>2, <1>3, <1>4, CommittedFill DEF SameBook

LEMMA CommitKeeps ==
  ASSUME AInv, TypeOK', Next, CommitFill, NEW q \in Trades, q = HeadFill.trade
  PROVE  Accounts(q)'
<1> DEFINE f == HeadFill
           c == cursor + 1
           x == position[q]
           y == position'[q]
<1>0. /\ IInv /\ TypeOK /\ Accounts(q) /\ x \in PositionRows
      /\ {0} \in SUBSET Legs /\ CloseLegs \in SUBSET Legs
      /\ cursor \in Nat /\ Len(fills) \in Nat
      /\ PendingCloses(q) \in Nat /\ x.qty \in Nat
  BY FillsFacts, LegsFacts DEF AInv, IInv, TypeOK, PositionRows, PendingCloses
<1>1. /\ f \in FillRows /\ f.leg \in Legs
      /\ UNCHANGED <<now, orders, request, fills, sent>>
      /\ cursor' = c
      /\ \A n \in Legs : FillsOf(q, n)' = FillsOf(q, n)
      /\ c \in FillsOf(q, f.leg)
      /\ \A s \in SUBSET Legs : PendingLots(q, s)' = PendingLots(q, s) \ {c}
      /\ \A s \in SUBSET Legs : c \in PendingLots(q, s) <=> f.leg \in s
  BY <1>0, CommittedFill DEF FillRows
<1>2. y = ApplyFill(x, f) /\ Applicable(f)
  BY <1>0 DEF CommitFill, TypeOK
<1>3. f.ts = fills[c].ts
  BY DEF HeadFill
<1> HIDE DEF f, c
<1>4. FillsKnown(q)' /\ LotsNumbered(q)' /\ FillsInOrder(q)'
  <2>1. \A n \in Legs : \A k : Recorded(q, n, k)' <=> Recorded(q, n, k)
    BY <1>1 DEF Recorded
  <2>2. FillsKnown(q)' /\ FillsInOrder(q)'
    BY <1>0, <1>1 DEF Accounts, FillsKnown, FillsInOrder
  <2>3. LotsNumbered(q)'
    BY <1>0, <1>1, <2>1 DEF Accounts, LotsNumbered
  <2> QED BY <2>2, <2>3
<1>5. Reserved(q)' <=> Reserved(q)
  BY <1>1 DEF Reserved
<1>6. position[q].status # "none" =>
        \E i \in FillsOf(q, 0)' : i <= cursor' /\ fills'[i].ts = x.opened
  <2> SUFFICES ASSUME position[q].status # "none"
               PROVE  \E i \in FillsOf(q, 0) : i <= cursor + 1 /\ fills[i].ts = x.opened
    BY <1>0, <1>1, LegsFacts DEF c
  <2>1. PICK i \in FillsOf(q, 0) : i <= cursor /\ fills[i].ts = x.opened
    BY <1>0 DEF Accounts, OpenedByFill
  <2>2. i \in Nat
    BY <1>0, <2>1, FillsFacts, LegsFacts
  <2> QED BY <1>0, <2>1, <2>2
<1>7. CASE f.leg = 0
  <2>1. ~Reserved(q)
    BY <1>0, <1>1, <1>7 DEF Accounts, EntryOver
  <2>2. x.status \in {"none", "open"}
    BY <1>0, <2>1 DEF Accounts, PositionShape
  <2>3. /\ y.status = "open" /\ y.qty = x.qty + 1
        /\ x.status = "none" => y.opened = f.ts
        /\ x.status # "none" => y.opened = x.opened
    <3>1. y = Opened(x, f)
      BY <1>2, <1>7 DEF ApplyFill
    <3>2. CASE x.status = "none"
      <4>1. x.qty = 0
        BY <1>0, <3>2 DEF Accounts, PositionShape
      <4>2. y = [x EXCEPT !.status = "open", !.qty = 1, !.opened = f.ts]
        BY <3>1, <3>2 DEF Opened
      <4>3. y.status = "open" /\ y.qty = 1 /\ y.opened = f.ts
        BY <1>0, <4>2 DEF PositionRows
      <4> HIDE DEF x, y
      <4> QED BY <3>2, <4>1, <4>3
    <3>3. CASE x.status = "open"
      BY <1>0, <3>1, <3>3 DEF Opened, PositionRows
    <3> QED BY <2>2, <3>2, <3>3
  <2>4. OpenedByFill(q)'
    <3>1. CASE x.status = "none"
      <4>1. c \in FillsOf(q, 0)' /\ c <= cursor' /\ fills'[c].ts = y.opened
        BY <1>0, <1>1, <1>3, <1>7, <2>3, <3>1 DEF c
      <4> QED BY <4>1 DEF OpenedByFill
    <3>2. CASE x.status # "none"
      BY <1>6, <2>3, <3>2 DEF OpenedByFill
    <3> QED BY <3>1, <3>2
  <2>5. PositionShape(q)'
    BY <1>0, <2>3 DEF PositionShape
  <2>6. EntryOver(q)'
    BY <1>5, <2>1 DEF EntryOver
  <2>7. \A n \in CloseLegs : orders'[q][n].status = "none"
    BY <1>1, <2>1 DEF Reserved
  <2>8. Covered(q)'
    <3>1. PendingLots(q, CloseLegs)' = PendingLots(q, CloseLegs)
      <4>1. c \notin PendingLots(q, CloseLegs)
        BY <1>0, <1>1, <1>7, LegsFacts
      <4>2. PendingLots(q, CloseLegs)' = PendingLots(q, CloseLegs) \ {c}
        BY <1>0, <1>1
      <4> QED BY <4>1, <4>2
    <3>2. PendingCloses(q)' = PendingCloses(q)
      BY <3>1 DEF PendingCloses
    <3>3. PendingCloses(q) <= y.qty
      BY <1>0, <2>3 DEF Accounts, Covered
    <3> QED BY <2>7, <3>2, <3>3 DEF Covered, Active
  <2>9. ReservedWhole(q)'
    BY <2>7 DEF ReservedWhole
  <2> QED
    BY <1>4, <2>4, <2>5, <2>6, <2>8, <2>9, ReasonStep DEF Accounts
<1>8. CASE f.leg # 0
  <2>0. f.leg \in CloseLegs
    BY <1>1, <1>8, LegsFacts
  <2>1. Reserved(q)
    <3>1. orders[q][f.leg].status # "none"
      BY <1>0, <1>1 DEF Accounts, FillsKnown, Unfilled
    <3> QED BY <2>0, <3>1 DEF Reserved
  <2>2. PendingCloses(q)' = PendingCloses(q) - 1
    BY <1>0, <1>1, <2>0, FillsFacts, RemovedLot DEF PendingCloses
  <2>3. x.qty > 0 /\ x.status \in {"open", "closing"}
    <3>1. PendingLots(q, CloseLegs) # {}
      BY <1>0, <1>1, <2>0
    <3>2. PendingCloses(q) # 0
      BY <1>0, <3>1, FillsFacts, FS_EmptySet DEF PendingCloses
    <3>3. x.qty > 0
      BY <1>0, <3>2 DEF Accounts, Covered
    <3> QED BY <1>0, <3>3 DEF Accounts, PositionShape
  <2>4. /\ y.qty = x.qty - 1 /\ y.opened = x.opened
        /\ y.status = IF x.qty = 1 THEN "closed" ELSE "closing"
    BY <1>0, <1>2, <1>8 DEF ApplyFill, Reduced, PositionRows
  <2>5. OpenedByFill(q)'
    BY <1>6, <2>3, <2>4 DEF OpenedByFill
  <2>6. PositionShape(q)'
    <3>1. y.qty > 0 <=> x.qty # 1
      BY <1>0, <2>3, <2>4
    <3> QED BY <1>5, <2>1, <2>4, <3>1 DEF PositionShape
  <2>7. EntryOver(q)'
    <3>1. PendingLots(q, {0}) = {} /\ orders[q][0].status \in Terminal
      BY <1>0, <2>1 DEF Accounts, EntryOver
    <3> QED BY <1>0, <1>1, <3>1 DEF EntryOver
  <2>8. Covered(q)'
    <3>1. PendingCloses(q) - 1 <= y.qty
      BY <1>0, <2>4 DEF Accounts, Covered
    <3>2. ASSUME NEW n \in CloseLegs, orders[q][n].status \in Active
          PROVE  PendingCloses(q) - 1 + (orders[q][n].qty - Cardinality(FillsOf(q, n)))
                   <= y.qty
      <4>1. PendingCloses(q) + (orders[q][n].qty - Cardinality(FillsOf(q, n))) <= x.qty
        BY <1>0, <3>2 DEF Accounts, Covered
      <4>2. orders[q][n].qty \in Nat /\ Cardinality(FillsOf(q, n)) \in Nat
        BY <1>0, FillsFacts, SMTT(30) DEF TypeOK, OrderRows
      <4> QED BY <1>0, <2>4, <4>1, <4>2
    <3> QED BY <1>0, <1>1, <2>2, <3>1, <3>2 DEF Covered
  <2>9. ReservedWhole(q)'
    <3>1. PendingFill(q)
      BY <1>0, <1>1, <2>0, PendingByLegs
    <3> QED BY <1>0, <1>1, <3>1 DEF Accounts, ReservedWhole
  <2> QED
    BY <1>4, <2>5, <2>6, <2>7, <2>8, <2>9, ReasonStep DEF Accounts
<1> QED BY <1>7, <1>8

(* Every other transaction. *)
LEMMA StepKinds ==
  ASSUME IInv, Next, NEW q \in Trades
  PROVE  \/ SameBook(q)
         \/ CommitFill /\ q = HeadFill.trade
         \/ \E n \in Legs, ts \in Times : VenueFill(q, n, ts)
<1>0. TypeOK /\ cursor \in Nat /\ position[q] \in PositionRows
  BY FillsFacts DEF IInv, TypeOK
<1>a. ASSUME fills' = fills, cursor' = cursor,
             position'[q].status = position[q].status,
             position'[q].qty = position[q].qty,
             position'[q].opened = position[q].opened
      PROVE  SameBook(q)
  BY <1>0, <1>a DEF SameBook, FillsOf, PendingLots
<1>1. CASE Tick
  BY <1>1, <1>a DEF Tick
<1>2. CASE CommitFill
  BY <1>0, <1>2, CommitOfAnother
<1>3. CASE ReconcileLostBook
  BY <1>3, <1>a DEF ReconcileLostBook
<1>4. ASSUME NEW p \in Trades, InsertEntry(p)
      PROVE  SameBook(q)
  BY <1>4, <1>a DEF InsertEntry
<1>5. ASSUME NEW p \in Trades, NEW s \in {"submitted", "rejected"},
             UpdateEntryStatus(p, s)
      PROVE  SameBook(q)
  BY <1>5, <1>a DEF UpdateEntryStatus
<1>6. ASSUME NEW p \in Trades, NEW r \in ExitReasons, NEW ts \in Times,
             NEW ok \in BOOLEAN, ObserveExit(p, r, ts, ok)
      PROVE  SameBook(q)
  BY <1>6, <1>a DEF ObserveExit
<1>7. ASSUME NEW p \in Trades, AdvanceEodExpiry(p)
      PROVE  SameBook(q)
  BY <1>7, <1>a DEF AdvanceEodExpiry
<1>8. ASSUME NEW p \in Trades, PrepareExit(p)
      PROVE  SameBook(q)
  <2>1. fills' = fills /\ cursor' = cursor
    BY <1>8 DEF PrepareExit
  <2>2. CASE position' = position
    BY <1>a, <2>1, <2>2
  <2>3. CASE PrepareReserve(p)
    <3> DEFINE attempt == position[p].attempt + 1
    <3>1. position' = [position EXCEPT ![p].attempt = attempt]
      BY <2>3 DEF PrepareReserve
    <3>2. position \in [Trades -> PositionRows]
      BY <1>0 DEF TypeOK
    <3> HIDE DEF attempt
    <3>3. position'[q] = position[q] \/ position'[q] = [position[q] EXCEPT !.attempt = attempt]
      BY <3>1, <3>2
    <3>4. /\ position'[q].status = position[q].status
          /\ position'[q].qty = position[q].qty
          /\ position'[q].opened = position[q].opened
      BY <1>0, <3>3 DEF PositionRows
    <3> QED BY <1>a, <2>1, <3>4
  <2> QED
    BY <1>8, <2>2, <2>3 DEF PrepareExit, PrepareRefuse, PrepareNoReservation
<1>9. ASSUME NEW p \in Trades, NEW n \in CloseLegs, ClaimDispatch(p, n)
      PROVE  SameBook(q)
  BY <1>9, <1>a DEF ClaimDispatch
<1>10. ASSUME NEW p \in Trades, NEW n \in Legs, NEW s \in Active \cup Terminal,
              ReportStatus(p, n, s)
       PROVE  SameBook(q)
  BY <1>10, <1>a DEF ReportStatus, SetStatus
<1>11. ASSUME NEW p \in Trades, NEW n \in Legs, NEW ts \in Times,
              VenueFill(p, n, ts), p # q
       PROVE  SameBook(q)
  BY <1>11, FillOfAnother
<1> QED
  BY <1>1, <1>2, <1>3, <1>4, <1>5, <1>6, <1>7, <1>8, <1>9, <1>10, <1>11
  DEF Next

(***************************************************************************)
(* The theorems.                                                           *)
(***************************************************************************)
LEMMA AccountsInit == Init => AInv
<1> SUFFICES ASSUME Init, NEW p \in Trades
             PROVE  Accounts(p)
  BY InductiveInit DEF AInv
<1>1. /\ \A n \in Legs : orders[p][n] = NoOrder
      /\ position[p] = NoPosition /\ request[p] = NoRequest
      /\ fills = <<>> /\ cursor = 0
  BY DEF Init
<1>2. /\ \A n : FillsOf(p, n) = {}
      /\ \A s : PendingLots(p, s) = {}
  BY <1>1 DEF FillsOf, PendingLots
<1>3. Cardinality({}) = 0 /\ NoOrder.qty = 0 /\ NoOrder.status = "none"
      /\ NoPosition.status = "none" /\ NoPosition.qty = 0
      /\ "none" \notin Active
  BY FS_EmptySet DEF NoOrder, NoPosition, Active
<1>4. ~Reserved(p)
  BY <1>1, <1>3, LegsFacts DEF Reserved
<1>5. FillsKnown(p) /\ LotsNumbered(p) /\ FillsInOrder(p)
  <2>1. \A n \in Legs : /\ Cardinality(FillsOf(p, n)) = 0
                       /\ orders[p][n].qty = 0
                       /\ orders[p][n].status \notin Active
    BY <1>1, <1>2, <1>3
  <2>2. LotsNumbered(p)
    BY <2>1 DEF LotsNumbered
  <2> QED BY <1>2, <2>2 DEF FillsKnown, FillsInOrder
<1>6. OpenedByFill(p) /\ PositionShape(p) /\ EntryOver(p)
  BY <1>1, <1>3, <1>4 DEF OpenedByFill, PositionShape, EntryOver
<1>7. Covered(p) /\ ReservedWhole(p) /\ ReasonInForce(p)
  <2>1. \A n \in CloseLegs : orders[p][n].status = "none" /\ "none" # "approved"
    BY <1>1, <1>3, LegsFacts
  <2>2. PendingCloses(p) = 0 /\ position[p].qty = 0
    BY <1>1, <1>2, <1>3 DEF PendingCloses
  <2> QED BY <1>3, <2>1, <2>2 DEF Covered, ReservedWhole, ReasonInForce
<1> QED BY <1>5, <1>6, <1>7 DEF Accounts

LEMMA AccountsStep == AInv /\ [Next]_vars => AInv'
<1> SUFFICES ASSUME AInv, [Next]_vars
             PROVE  AInv'
  OBVIOUS
<1>0. IInv'
  BY InductiveStep DEF AInv
<1> SUFFICES ASSUME NEW q \in Trades
             PROVE  Accounts(q)'
  BY <1>0 DEF AInv
<1>1. TypeOK' /\ IInv
  BY <1>0 DEF AInv, IInv
<1>2. CASE Next
  BY <1>1, <1>2, StepKinds, QuietKeeps, CommitKeeps, FillKeeps
<1>3. CASE UNCHANGED vars
  <2>1. Accounts(q)
    BY DEF AInv
  <2>2. /\ \A n : FillsOf(q, n)' = FillsOf(q, n)
        /\ \A s : PendingLots(q, s)' = PendingLots(q, s)
        /\ PendingFill(q)' <=> PendingFill(q)
        /\ \A n, k : Recorded(q, n, k)' <=> Recorded(q, n, k)
    BY <1>3 DEF vars, FillsOf, PendingLots, PendingFill, Recorded
  <2> QED
    BY <1>3, <2>1, <2>2
    DEF vars, Accounts, FillsKnown, LotsNumbered, FillsInOrder, OpenedByFill,
        Reserved, PositionShape, EntryOver, PendingCloses, Covered, ReservedWhole,
        ReasonInForce, Lifecycle
<1> QED BY <1>2, <1>3

(* The books of a trade agree in every reachable state: lots, position,    *)
(* reservations and the reason of the exit.                                *)
THEOREM AccountsInductive == Spec => []AInv
<1> QED BY AccountsInit, AccountsStep, PTL DEF Spec

(* accounting.apply_fill accepts every fill of the ledger, in its order.   *)
THEOREM AccountingTheorem == Spec => []AccountingAccepts
<1>1. AInv => AccountingAccepts
  <2> SUFFICES ASSUME AInv
               PROVE  AccountingAccepts
    OBVIOUS
  <2>1. \A p \in Trades : position[p].status # "reopened"
    BY DEF AInv, Accounts, PositionShape
  <2>2. ASSUME cursor < Len(fills)
        PROVE  Applicable(HeadFill)
    <3> DEFINE f == HeadFill
               q == f.trade
               c == cursor + 1
    <3>1. /\ TypeOK /\ DOMAIN fills = 1..Len(fills)
          /\ cursor \in Nat /\ Len(fills) \in Nat /\ c \in 1..Len(fills)
      BY <2>2 DEF AInv, IInv, TypeOK
    <3>2. f \in FillRows /\ f = fills[c]
      BY <3>1 DEF TypeOK, HeadFill
    <3>3. q \in Trades /\ f.leg \in Legs /\ f.ts \in Times
      BY <3>2 DEF FillRows
    <3>4. c \in FillsOf(q, f.leg) /\ c \in PendingLots(q, {f.leg})
      BY <3>1, <3>2 DEF FillsOf, PendingLots
    <3>5. Accounts(q) /\ position[q] \in PositionRows
      BY <3>1, <3>3 DEF AInv, TypeOK
    <3>6. f.leg # 0 => position[q].qty > 0
      <4> SUFFICES ASSUME f.leg # 0
                   PROVE  position[q].qty > 0
        OBVIOUS
      <4>1. c \in PendingLots(q, CloseLegs)
        BY <3>1, <3>2, <3>3, LegsFacts DEF PendingLots
      <4>2. PendingCloses(q) \in Nat /\ PendingCloses(q) # 0
        BY <3>1, <3>3, <4>1, FillsFacts, FS_EmptySet DEF PendingCloses
      <4>3. PendingCloses(q) <= position[q].qty /\ position[q].qty \in Nat
        BY <3>5 DEF Accounts, Covered, PositionRows
      <4> QED BY <4>2, <4>3
    <3>7. position[q].qty > 0 => position[q].opened <= f.ts
      <4> SUFFICES ASSUME position[q].qty > 0
                   PROVE  position[q].opened <= f.ts
        OBVIOUS
      <4>1. position[q].status # "none"
        BY <3>5 DEF Accounts, PositionShape
      <4>2. PICK i \in FillsOf(q, 0) : i <= cursor /\ fills[i].ts = position[q].opened
        BY <3>5, <4>1 DEF Accounts, OpenedByFill
      <4>3. i < c
        BY <3>1, <3>3, <4>2, FillsFacts, LegsFacts
      <4>4. fills[i].ts <= fills[c].ts
        BY <3>3, <3>4, <3>5, <4>2, <4>3, LegsFacts DEF Accounts, FillsInOrder
      <4> QED BY <3>2, <4>2, <4>4
    <3> QED BY <3>6, <3>7 DEF Applicable
  <2> QED BY <2>1, <2>2 DEF AccountingAccepts
<1> QED BY <1>1, AccountsInductive, PTL

(* No close sells more than its position holds, and none works while its   *)
(* entry does.                                                             *)
THEOREM ReduceOnlyTheorem == Spec => []ReduceOnly
<1>1. AInv => ReduceOnly
  <2> SUFFICES ASSUME AInv, NEW p \in Trades
               PROVE  /\ Cardinality(OutstandingLots(p))
                            + Cardinality(PendingLots(p, CloseLegs)) <= position[p].qty
                      /\ (\E n \in CloseLegs : Working(p, n)) =>
                            orders[p][0].status \notin Active /\ PendingLots(p, {0}) = {}
    BY DEF ReduceOnly
  <2>0. TypeOK /\ Accounts(p) /\ AtMostOneActive(p)
        /\ PendingCloses(p) \in Nat /\ position[p].qty \in Nat
    BY FillsFacts DEF AInv, IInv, TradeInv, TypeOK, PositionRows, PendingCloses
  <2>1. CASE ~\E n \in CloseLegs : Working(p, n)
    <3>1. OutstandingLots(p) = {}
      BY <2>1 DEF OutstandingLots
    <3>2. Cardinality(OutstandingLots(p)) = 0
      BY <3>1, FS_EmptySet
    <3> QED BY <2>0, <2>1, <3>2 DEF Accounts, Covered, PendingCloses
  <2>2. ASSUME NEW n \in CloseLegs, Working(p, n)
        PROVE  /\ Cardinality(OutstandingLots(p))
                    + Cardinality(PendingLots(p, CloseLegs)) <= position[p].qty
               /\ orders[p][0].status \notin Active /\ PendingLots(p, {0}) = {}
    <3> DEFINE filled == Cardinality(FillsOf(p, n))
               qty == orders[p][n].qty
               left == {n} \X ((filled + 1)..qty)
    <3>0. n \in Legs /\ orders[p][n].status \in Active /\ orders[p][n] \in OrderRows
      BY <2>0, <2>2, LegsFacts DEF Working, TypeOK
    <3>1. filled \in Nat /\ qty \in Nat /\ filled < qty
      BY <2>0, <3>0, FillsFacts DEF OrderRows, Accounts, LotsNumbered
    <3>2. OutstandingLots(p) \subseteq left
      <4> SUFFICES ASSUME NEW x \in CloseLegs \X (1..EntryQty),
                          Working(p, x[1]), x[2] <= orders[p][x[1]].qty,
                          ~Recorded(p, x[1], x[2])
                   PROVE  x \in left
        BY DEF OutstandingLots
      <4>1. x[1] = n
        BY <2>0, <2>2 DEF Working, AtMostOneActive
      <4>2. x[2] \in Nat \ {0}
        BY LedgerAssumption
      <4>3. x[2] \notin 1..filled
        BY <2>0, <3>0, <4>1 DEF Accounts, LotsNumbered
      <4>4. x[2] \in (filled + 1)..qty
        BY <3>1, <4>1, <4>2, <4>3
      <4>5. x = <<x[1], x[2]>>
        OBVIOUS
      <4> QED BY <4>1, <4>4, <4>5
    <3>3. IsFiniteSet(left) /\ Cardinality(left) = qty - filled
      <4> HIDE DEF filled, qty
      <4>1. IsFiniteSet((filled + 1)..qty) /\ Cardinality((filled + 1)..qty) = qty - filled
        BY <3>1, FS_Interval
      <4>2. IsFiniteSet({n}) /\ Cardinality({n}) = 1
        BY FS_Singleton
      <4> DEFINE lots == (filled + 1)..qty
      <4> HIDE DEF lots
      <4>3. IsFiniteSet({n} \X lots) /\ Cardinality({n} \X lots) = Cardinality({n}) * Cardinality(lots)
        <5>1. IsFiniteSet(lots) /\ IsFiniteSet({n})
          BY <4>1, <4>2 DEF lots
        <5> QED BY <5>1, FS_Product
      <4>4. IsFiniteSet(left) /\ Cardinality(left) = 1 * (qty - filled)
        BY <4>1, <4>2, <4>3 DEF lots
      <4> HIDE DEF left
      <4> QED BY <3>1, <4>4
    <3>4. Cardinality(OutstandingLots(p)) <= qty - filled
          /\ Cardinality(OutstandingLots(p)) \in Nat
      <4> HIDE DEF left
      <4> QED BY <3>2, <3>3, FS_Subset, FS_CardinalityType
    <3>5. PendingCloses(p) + (qty - filled) <= position[p].qty
      BY <2>0, <3>0 DEF Accounts, Covered
    <3>6. Cardinality(OutstandingLots(p)) + PendingCloses(p) <= position[p].qty
      <4> HIDE DEF filled, qty
      <4> QED BY <2>0, <3>1, <3>4, <3>5
    <3>7. Reserved(p)
      BY <3>0 DEF Reserved, Active
    <3>8. orders[p][0].status \in Terminal /\ PendingLots(p, {0}) = {}
      BY <2>0, <3>7 DEF Accounts, EntryOver
    <3> QED BY <3>6, <3>8 DEF PendingCloses, Active, Terminal
  <2> QED BY <2>1, <2>2
<1> QED BY <1>1, AccountsInductive, PTL

(* prepare_exit never raises over the reason of a reservation, and         *)
(* claim_dispatch never finds a reserved close unsafe.                     *)
LEMMA ExpiryLeavesReason ==
  ASSUME AInv, NEW p \in Trades, NEW n \in CloseLegs,
         OrdersAfterExpiry(p)[n].status = "approved", ~OrdersAfterExpiry(p)[n].dispatched,
         Lifecycle(request[p])
  PROVE  /\ OrdersAfterExpiry(p)[n] = orders[p][n]
         /\ orders[p][n].reason = IF RequestAfterExpiry(p).expired
                                  THEN request[p].fallback ELSE "eod_flatten"
         /\ orders[p][n].reason \in ExitReasons
<1>0. /\ TypeOK /\ n \in Legs /\ orders[p][n] \in OrderRows /\ Accounts(p)
      /\ orders[p] \in [Legs -> OrderRows]
      /\ AtMostOneActive(p) /\ CloseShape(p)
  BY LegsFacts DEF AInv, IInv, TypeOK, TradeInv
<1>1. OrdersAfterExpiry(p)[n] = orders[p][n]
  <2>1. \/ OrdersAfterExpiry(p)[n] = orders[p][n]
        \/ OrdersAfterExpiry(p)[n] = WindowClosed(orders[p][n])
    BY <1>0, OrdersAfterExpiryShape
  <2> QED BY <1>0, <2>1 DEF WindowClosed, OrderRows
<1>2. orders[p][n].reason = IF request[p].expired THEN request[p].fallback ELSE "eod_flatten"
  BY <1>0, <1>1 DEF Accounts, ReasonInForce
<1>3. RequestAfterExpiry(p).expired <=> request[p].expired
  <2> SUFFICES ASSUME ExpiryDue(request[p])
               PROVE  FALSE
    BY <1>0, RequestAfterExpiryType
  <2>1. ~UnsentEod(OrdersAfterExpiry(p)[n])
    BY <1>0, ExpiryLeavesNoneUnsent DEF AtMostOneActive, OrdersAfterExpiry
  <2> QED BY <1>1, <1>2, <2>1 DEF UnsentEod, ExpiryDue
<1> QED BY <1>0, <1>1, <1>2, <1>3 DEF CloseShape

LEMMA PrepareNeverRaises ==
  ASSUME AInv, NEW p \in Trades
  PROVE  PrepareResult(p) # "error"
<1> DEFINE r == RequestAfterExpiry(p)
           o == OrdersAfterExpiry(p)
           k == FirstActiveClose(o)
<1> SUFFICES ASSUME PrepareResult(p) = "error"
             PROVE  FALSE
  OBVIOUS
<1>1. /\ EffectiveState(r) \notin {"dormant", "not_open"}
      /\ CloseInTheWay(o)
      /\ ReservationResult(o[k], r) = "error"
  BY DEF PrepareResult
<1>2. /\ o[k].status = "approved" /\ Lifecycle(r)
      /\ ~o[k].dispatched /\ o[k].reason # EffectiveReason(r)
  BY <1>1 DEF ReservationResult
<1>3. k \in CloseLegs
  <2> HIDE DEF o
  <2>1. PICK n : n \in ActiveCloses(o)
    BY <1>1 DEF CloseInTheWay
  <2>2. ActiveCloses(o) = {n}
    <3>1. \A m \in CloseLegs : o[m].status \in Active => orders[p][m].status \in Active
      <4> TAKE m \in CloseLegs
      <4>1. m \in Legs /\ orders[p][m] \in OrderRows
        BY LegsFacts DEF AInv, IInv, TypeOK
      <4>2. o[m] = orders[p][m] \/ o[m] = WindowClosed(orders[p][m])
        BY <4>1, OrdersAfterExpiryShape DEF AInv, IInv, o
      <4> QED BY <4>1, <4>2 DEF WindowClosed, OrderRows, Active
    <3>2. AtMostOneActive(p)
      BY DEF AInv, IInv, TradeInv
    <3> QED BY <2>1, <3>1, <3>2 DEF ActiveCloses, AtMostOneActive
  <2>3. n \in CloseLegs /\ n <= n
    BY <2>1 DEF ActiveCloses, CloseLegs
  <2> QED BY <2>2, <2>3 DEF FirstActiveClose
<1>4. request[p] \in RequestRows /\ TypeOK
  BY DEF AInv, IInv, TypeOK
<1>5. Lifecycle(request[p]) /\ r.fallback = request[p].fallback
  BY <1>2, <1>4 DEF RequestAfterExpiry, RequestRows, Lifecycle
<1> HIDE DEF k
<1>6. o[k].reason = IF r.expired THEN r.fallback ELSE "eod_flatten"
  BY <1>2, <1>3, <1>5, ExpiryLeavesReason
<1> HIDE DEF r, o
<1> QED BY <1>1, <1>2, <1>6 DEF EffectiveReason, EffectiveState, Lifecycle

LEMMA ClaimNeverUnsafe ==
  ASSUME AInv, NEW p \in Trades, NEW n \in CloseLegs, orders[p][n].status # "none"
  PROVE  ClaimResult(p, n) # "unsafe"
<1> DEFINE r == RequestAfterExpiry(p)
           o == OrdersAfterExpiry(p)[n]
<1> SUFFICES ASSUME ClaimResult(p, n) = "unsafe"
             PROVE  FALSE
  OBVIOUS
<1>0. /\ TypeOK /\ request[p] \in RequestRows /\ n \in Legs
      /\ orders[p][n] \in OrderRows /\ Accounts(p)
  BY LegsFacts DEF AInv, IInv, TypeOK
<1>1. Claimable(p, n)
  BY DEF ClaimResult
<1>2. \/ ClaimFinalResult(p, o) = "unsafe"
      \/ Lifecycle(request[p]) /\ ClaimLifecycleResult(o, r) = "unsafe"
  BY <1>1 DEF ClaimResult
<1>3. CASE Lifecycle(request[p]) /\ ClaimLifecycleResult(o, r) = "unsafe"
  <2>1. /\ o.status # "cancelled" /\ o.reason # "eod_flatten"
        /\ ~(EffectiveState(r) = "fallback" /\ o.reason = EffectiveReason(r))
    BY <1>3 DEF ClaimLifecycleResult
  <2>2. o = orders[p][n]
    <3>1. o = orders[p][n] \/ o = WindowClosed(orders[p][n])
      BY <1>0, OrdersAfterExpiryShape
    <3>2. WindowClosed(orders[p][n]).status = "cancelled"
      BY <1>0 DEF WindowClosed, OrderRows
    <3> QED BY <2>1, <3>1, <3>2
  <2>3. o.status = "approved" /\ ~o.dispatched
    BY <1>1, <1>3, <2>2 DEF Claimable
  <2>4. /\ o.reason = IF r.expired THEN request[p].fallback ELSE "eod_flatten"
        /\ o.reason \in ExitReasons
    BY <1>3, <2>2, <2>3, ExpiryLeavesReason
  <2>5. r.fallback = request[p].fallback /\ Lifecycle(r)
    BY <1>0, <1>3 DEF RequestAfterExpiry, RequestRows, Lifecycle
  <2> HIDE DEF r, o
  <2>6. r.expired /\ o.reason = r.fallback /\ r.fallback # "none"
    <3>1. o.reason # "none"
      BY <2>4 DEF ExitReasons, Protective
    <3> QED BY <2>1, <2>4, <2>5, <3>1
  <2>7. EffectiveState(r) = "fallback"
    BY <2>5, <2>6 DEF EffectiveState
  <2>8. EffectiveReason(r) = r.fallback
    BY <2>5, <2>7 DEF EffectiveReason
  <2> QED BY <2>1, <2>6, <2>7, <2>8
<1>4. CASE ClaimFinalResult(p, o) = "unsafe"
  <2>1. position[p].qty # o.qty
    BY <1>4 DEF ClaimFinalResult
  <2>2. o.qty = orders[p][n].qty
    <3>1. o = orders[p][n] \/ o = WindowClosed(orders[p][n])
      BY <1>0, OrdersAfterExpiryShape
    <3> QED BY <1>0, <3>1 DEF WindowClosed, OrderRows
  <2>3. position[p].qty = orders[p][n].qty
    BY <1>0, <1>1 DEF Claimable, Accounts, ReservedWhole
  <2> QED BY <2>1, <2>2, <2>3
<1> QED BY <1>2, <1>3, <1>4

THEOREM UnsafeExitTheorem == Spec => []NoUnsafeExit
<1>1. AInv => NoUnsafeExit
  BY PrepareNeverRaises, ClaimNeverUnsafe DEF NoUnsafeExit
<1> QED BY <1>1, AccountsInductive, PTL

(***************************************************************************)
(* What the books of a trade add up to: the lots of an order are recorded  *)
(* in their order, no fill is later than the clock, an entry was permitted *)
(* for the authorised size and no close is for more, and the position is   *)
(* what was bought less what was sold, but for the fills not receipted.    *)
(***************************************************************************)
RecordedLots(p, n) == Cardinality(FillsOf(p, n))

LotsInOrder(p) ==
  \A n \in Legs : \A i \in FillsOf(p, n) : fills[i].lot <= RecordedLots(p, n)

FillsPast(p) ==
  \A i \in DOMAIN fills : fills[i].trade = p => fills[i].ts <= now

EntryRow(p) ==
  orders[p][0].status # "none" =>
    <<p, 0>> \in sent /\ orders[p][0].qty = EntryQty

ClosesFit(p) ==
  \A n \in CloseLegs : orders[p][n].status # "none" => orders[p][n].qty <= EntryQty

SoldLots(p) ==
  {x \in CloseLegs \X (1..EntryQty) : x[2] <= RecordedLots(p, x[1])}

PendingEntries(p) == Cardinality(PendingLots(p, {0}))

Balance(p) ==
  RecordedLots(p, 0) - Cardinality(SoldLots(p)) =
    position[p].qty + PendingEntries(p) - PendingCloses(p)

Books(p) ==
  LotsInOrder(p) /\ FillsPast(p) /\ EntryRow(p) /\ ClosesFit(p) /\ Balance(p)

BooksInv == AInv /\ \A p \in Trades : Books(p)

LEMMA NowAndSent ==
  ASSUME TypeOK, Next
  PROVE  now <= now' /\ sent \subseteq sent'
<1>1. now \in Nat
  BY LedgerAssumption DEF TypeOK, Times
<1>2. CASE Tick
  BY <1>1, <1>2 DEF Tick
<1>3. ASSUME NEW p \in Trades, NEW n \in CloseLegs, ClaimDispatch(p, n)
      PROVE  now' = now /\ sent \subseteq sent'
  BY <1>3 DEF ClaimDispatch, ClaimRefuse, ClaimNoDispatch, ClaimCommit
<1>4. CASE ~Tick /\ ~\E p \in Trades, n \in CloseLegs : ClaimDispatch(p, n)
  <2>1. CASE CommitFill \/ ReconcileLostBook
    BY <1>1, <2>1 DEF CommitFill, ReconcileLostBook
  <2>2. ASSUME NEW p \in Trades,
               InsertEntry(p) \/ \E s \in {"submitted", "rejected"} : UpdateEntryStatus(p, s)
        PROVE  now <= now' /\ sent \subseteq sent'
    BY <1>1, <2>2 DEF InsertEntry, UpdateEntryStatus
  <2>3. ASSUME NEW p \in Trades, NEW n \in Legs, NEW s, ReportStatus(p, n, s)
        PROVE  now <= now' /\ sent \subseteq sent'
    BY <1>1, <2>3 DEF ReportStatus, SetStatus
  <2>4. ASSUME NEW p \in Trades,
               \/ \E r \in ExitReasons, ts \in Times, ok \in BOOLEAN : ObserveExit(p, r, ts, ok)
               \/ AdvanceEodExpiry(p)
               \/ PrepareExit(p)
        PROVE  now <= now' /\ sent \subseteq sent'
    BY <1>1, <2>4 DEF ObserveExit, AdvanceEodExpiry, PrepareExit
  <2>5. ASSUME NEW p \in Trades, NEW n \in Legs, NEW ts \in Times, VenueFill(p, n, ts)
        PROVE  now <= now' /\ sent \subseteq sent'
    BY <1>1, <2>5 DEF VenueFill, RecordFill
  <2> QED BY <1>4, <2>1, <2>2, <2>3, <2>4, <2>5 DEF Next
<1> QED BY <1>1, <1>2, <1>3, <1>4

(* The lots sold are finitely many. *)
LEMMA SoldFinite ==
  ASSUME NEW p \in Trades
  PROVE  /\ IsFiniteSet(SoldLots(p))
         /\ Cardinality(SoldLots(p)) \in Nat
<1>1. IsFiniteSet(CloseLegs) /\ IsFiniteSet(1..EntryQty)
  BY LedgerAssumption, FS_Interval DEF CloseLegs
<1>2. IsFiniteSet(CloseLegs \X (1..EntryQty))
  BY <1>1, FS_Product
<1>3. SoldLots(p) \subseteq CloseLegs \X (1..EntryQty)
  BY DEF SoldLots
<1> QED BY <1>2, <1>3, FS_Subset, FS_CardinalityType

LEMMA RecordedFacts ==
  ASSUME AInv, NEW p \in Trades
  PROVE  /\ \A n \in Legs : /\ RecordedLots(p, n) \in Nat
                            /\ RecordedLots(p, n) <= orders[p][n].qty
                            /\ orders[p][n].qty \in Nat
                            /\ orders[p][n].status = "none" => RecordedLots(p, n) = 0
         /\ position[p].qty \in Nat
         /\ PendingEntries(p) \in Nat /\ PendingCloses(p) \in Nat
<1>1. Accounts(p) /\ TypeOK
  BY DEF AInv, IInv
<1>2. ASSUME NEW n \in Legs
      PROVE  /\ RecordedLots(p, n) \in Nat
             /\ RecordedLots(p, n) <= orders[p][n].qty
             /\ orders[p][n].qty \in Nat
             /\ orders[p][n].status = "none" => RecordedLots(p, n) = 0
  <2>1. RecordedLots(p, n) \in Nat /\ RecordedLots(p, n) <= orders[p][n].qty
    BY <1>1, FillsFacts DEF Accounts, LotsNumbered, RecordedLots
  <2>2. orders[p][n].qty \in Nat
    BY <1>1 DEF TypeOK, OrderRows
  <2>3. orders[p][n].status = "none" => FillsOf(p, n) = {}
    BY <1>1 DEF Accounts, FillsKnown, Unfilled
  <2> QED BY <2>1, <2>2, <2>3, FS_EmptySet DEF RecordedLots
<1> QED BY <1>1, <1>2, FillsFacts DEF TypeOK, PositionRows, PendingEntries, PendingCloses

(* A position is never larger than its entry, so no close is either. *)
LEMMA FreshFits ==
  ASSUME BooksInv, NEW q \in Trades, Reserves(q)
  PROVE  position[q].qty <= EntryQty
<1>1. AInv /\ Books(q) /\ TypeOK
  BY DEF BooksInv, AInv, IInv
<1>2. PendingLots(q, {0}) = {} /\ PendingLots(q, CloseLegs) = {}
  BY <1>1, ReservedAfterEntry
<1>3. PendingEntries(q) = 0 /\ PendingCloses(q) = 0
  BY <1>2, FS_EmptySet DEF PendingEntries, PendingCloses
<1>4. RecordedLots(q, 0) \in Nat /\ RecordedLots(q, 0) <= EntryQty
  BY <1>1, RecordedFacts, LegsFacts, LedgerAssumption DEF Books, EntryRow
<1>5. RecordedLots(q, 0) - Cardinality(SoldLots(q)) = position[q].qty
  BY <1>1, <1>3, RecordedFacts DEF Books, Balance
<1>6. Cardinality(SoldLots(q)) \in Nat /\ position[q].qty \in Nat /\ EntryQty \in Nat
  BY <1>1, SoldFinite, RecordedFacts, LedgerAssumption
<1> QED BY <1>4, <1>5, <1>6

(* The rows of the orders, whatever the step. *)
LEMMA RowsFit ==
  ASSUME BooksInv, Next, NEW q \in Trades
  PROVE  EntryRow(q)' /\ ClosesFit(q)'
<1>1. IInv /\ Books(q) /\ TypeOK
  BY DEF BooksInv, AInv, IInv
<1>2. EntryMoves(q) /\ sent \subseteq sent' /\ orders[q][0] \in OrderRows
  BY <1>1, EntryStep, NowAndSent, LegsFacts DEF TypeOK
<1>3. EntryRow(q)'
  BY <1>1, <1>2 DEF EntryMoves, RowMoves, Books, EntryRow, Active
<1>4. ASSUME NEW n \in CloseLegs, orders'[q][n].status # "none"
      PROVE  orders'[q][n].qty <= EntryQty
  <2>1. LegStep(q, n)
    BY <1>1, EveryLegSteps, LegsFacts
  <2>2. CASE orders[q][n].status # "none"
    BY <1>1, <2>1, <2>2 DEF LegStep, Books, ClosesFit
  <2>3. CASE orders[q][n].status = "none"
    BY <1>4, <2>1, <2>3, FreshFits, LegsFacts DEF LegStep, Fresh
  <2> QED BY <2>2, <2>3
<1> QED BY <1>3, <1>4 DEF ClosesFit

LEMMA BooksQuiet ==
  ASSUME BooksInv, AInv', Next, NEW q \in Trades, SameBook(q)
  PROVE  Books(q)'
<1>1. AInv /\ Books(q) /\ TypeOK /\ TypeOK'
  BY DEF BooksInv, AInv, IInv
<1>2. \A n \in Legs : RecordedLots(q, n)' = RecordedLots(q, n)
  BY DEF SameBook, RecordedLots
<1>3. LotsInOrder(q)'
  BY <1>1, <1>2 DEF SameBook, Books, LotsInOrder
<1>4. FillsPast(q)'
  <2> SUFFICES ASSUME NEW i \in DOMAIN fills', fills'[i].trade = q
               PROVE  fills'[i].ts <= now'
    BY DEF FillsPast
  <2>1. fills'[i] \in FillRows
    BY <1>1 DEF TypeOK
  <2>2. fills'[i].leg \in Legs
    BY <2>1 DEF FillRows
  <2>3. PICK n \in Legs : fills'[i].leg = n
    BY <2>2
  <2>4. i \in DOMAIN fills /\ fills[i].trade = q /\ fills'[i] = fills[i]
    <3>1. i \in FillsOf(q, n)'
      BY <2>3 DEF FillsOf
    <3>2. i \in FillsOf(q, n) /\ fills'[i] = fills[i]
      BY <3>1 DEF SameBook
    <3> QED BY <3>2 DEF FillsOf
  <2>5. fills[i].ts <= now /\ now <= now' /\ now \in Nat /\ now' \in Nat
    <3>1. now \in Nat
      BY <1>1, LedgerAssumption DEF TypeOK, Times
    <3>2. now' \in Nat
      BY <1>1, LedgerAssumption DEF TypeOK, Times
    <3> QED BY <1>1, <2>4, <3>1, <3>2, NowAndSent DEF Books, FillsPast
  <2>6. fills'[i].ts \in Nat
    BY <2>1, LedgerAssumption DEF FillRows, Times
  <2> QED BY <2>4, <2>5, <2>6
<1>5. Balance(q)'
  <2>1. SoldLots(q)' = SoldLots(q)
    BY <1>2, LegsFacts DEF SoldLots
  <2>2. PendingEntries(q)' = PendingEntries(q) /\ PendingCloses(q)' = PendingCloses(q)
    BY DEF SameBook, PendingEntries, PendingCloses
  <2> QED BY <1>1, <1>2, <2>1, <2>2, LegsFacts DEF SameBook, Books, Balance
<1> QED BY <1>3, <1>4, <1>5, RowsFit DEF Books

LEMMA BooksCommit ==
  ASSUME BooksInv, AInv', Next, CommitFill, NEW q \in Trades, q = HeadFill.trade
  PROVE  Books(q)'
<1> DEFINE f == HeadFill
           c == cursor + 1
           x == position[q]
<1>1. AInv /\ Books(q) /\ TypeOK /\ x \in PositionRows /\ Accounts(q) /\ Accounts(q)'
  BY DEF BooksInv, AInv, IInv, TypeOK
<1>2. /\ f \in FillRows /\ f.leg \in Legs
      /\ now' = now /\ fills' = fills
      /\ \A n \in Legs : FillsOf(q, n)' = FillsOf(q, n)
      /\ {0} \in SUBSET Legs /\ CloseLegs \in SUBSET Legs
      /\ \A s \in SUBSET Legs : PendingLots(q, s)' = PendingLots(q, s) \ {c}
      /\ \A s \in SUBSET Legs : c \in PendingLots(q, s) <=> f.leg \in s
  BY <1>1, CommittedFill, LegsFacts DEF FillRows
<1>3. \A n \in Legs : RecordedLots(q, n)' = RecordedLots(q, n)
  BY <1>2 DEF RecordedLots
<1>4. LotsInOrder(q)' /\ FillsPast(q)'
  BY <1>1, <1>2, <1>3 DEF Books, LotsInOrder, FillsPast
<1>5. SoldLots(q)' = SoldLots(q)
  BY <1>3, LegsFacts DEF SoldLots
<1>6. position'[q] = ApplyFill(x, f)
  BY <1>1 DEF CommitFill, TypeOK
<1>7. Balance(q)'
  <2> HIDE DEF f, c
  <2>0. x.qty \in Nat /\ PendingEntries(q) \in Nat /\ PendingCloses(q) \in Nat
        /\ RecordedLots(q, 0) \in Nat /\ Cardinality(SoldLots(q)) \in Nat
    BY <1>1, RecordedFacts, SoldFinite, LegsFacts
  <2>1. CASE f.leg = 0
    <3>1. /\ PendingLots(q, CloseLegs)' = PendingLots(q, CloseLegs)
          /\ PendingLots(q, {0})' = PendingLots(q, {0}) \ {c} /\ c \in PendingLots(q, {0})
      <4>1. c \notin PendingLots(q, CloseLegs)
        BY <1>2, <2>1, LegsFacts
      <4>2. PendingLots(q, CloseLegs)' = PendingLots(q, CloseLegs) \ {c}
        BY <1>2
      <4> QED BY <1>2, <2>1, <4>1, <4>2
    <3>2. PendingEntries(q)' = PendingEntries(q) - 1
      BY <1>1, <3>1, FillsFacts, RemovedLot DEF PendingEntries
    <3>3. PendingCloses(q)' = PendingCloses(q)
      BY <3>1 DEF PendingCloses
    <3>4. position'[q] = Opened(x, f)
      BY <1>6, <2>1 DEF ApplyFill
    <3>5. position'[q].status # "reopened"
      BY <1>1 DEF Accounts, PositionShape
    <3>6. x.status \in {"none", "open", "closing"}
      <4>1. x.status \notin {"none", "open", "closing"} => position'[q].status = "reopened"
        BY <1>1, <3>4 DEF Opened, PositionRows
      <4> QED BY <3>5, <4>1
    <3>7. position'[q].qty = x.qty + 1
      <4>1. CASE x.status = "none"
        <5>1. x.qty = 0
          BY <1>1, <2>0, <4>1 DEF Accounts, PositionShape
        <5>2. position'[q].qty = 1
          BY <1>1, <3>4, <4>1 DEF Opened, PositionRows
        <5> QED BY <5>1, <5>2
      <4>2. CASE x.status \in {"open", "closing"}
        BY <1>1, <3>4, <4>2 DEF Opened, PositionRows
      <4> QED BY <3>6, <4>1, <4>2
    <3> QED BY <1>1, <1>3, <1>5, <2>0, <3>2, <3>3, <3>7, LegsFacts DEF Books, Balance
  <2>2. CASE f.leg # 0
    <3>0. f.leg \in CloseLegs
      BY <1>2, <2>2, LegsFacts
    <3>1. /\ PendingLots(q, {0})' = PendingLots(q, {0})
          /\ PendingLots(q, CloseLegs)' = PendingLots(q, CloseLegs) \ {c}
          /\ c \in PendingLots(q, CloseLegs)
      <4>1. c \notin PendingLots(q, {0})
        BY <1>2, <2>2
      <4>2. PendingLots(q, {0})' = PendingLots(q, {0}) \ {c}
        BY <1>2
      <4> QED BY <1>2, <3>0, <4>1, <4>2
    <3>2. PendingCloses(q)' = PendingCloses(q) - 1
      BY <1>1, <3>1, FillsFacts, RemovedLot DEF PendingCloses
    <3>3. PendingEntries(q)' = PendingEntries(q)
      BY <3>1 DEF PendingEntries
    <3>4. position'[q].qty = x.qty - 1
      BY <1>1, <1>6, <2>2 DEF ApplyFill, Reduced, PositionRows
    <3> QED BY <1>1, <1>3, <1>5, <2>0, <3>2, <3>3, <3>4, LegsFacts DEF Books, Balance
  <2> QED BY <2>1, <2>2
<1> QED BY <1>4, <1>7, RowsFit DEF Books

LEMMA BooksFill ==
  ASSUME BooksInv, AInv', Next, NEW q \in Trades, NEW n \in Legs, NEW ts \in Times,
         VenueFill(q, n, ts)
  PROVE  /\ Books(q)'
         /\ RecordedLots(q, n)' = RecordedLots(q, n) + 1
         /\ \A m \in Legs : m # n => RecordedLots(q, m)' = RecordedLots(q, m)
<1> DEFINE lot == RecordedLots(q, n) + 1
           new == Len(fills) + 1
           f == [trade |-> q, leg |-> n, lot |-> lot, ts |-> ts]
<1>0. AInv /\ IInv /\ Books(q) /\ TypeOK
  BY DEF BooksInv, AInv, IInv
<1>1. /\ AInv /\ IInv /\ Books(q) /\ TypeOK
      /\ RecordedLots(q, n) \in Nat /\ lot \in Nat \ {0}
      /\ Len(fills) \in Nat /\ now \in Nat
      /\ DOMAIN fills = 1..Len(fills) /\ cursor \in 0..Len(fills)
      /\ {0} \in SUBSET Legs /\ CloseLegs \in SUBSET Legs
  <2>1. RecordedLots(q, n) \in Nat
    BY <1>0, RecordedFacts
  <2>2. now \in Nat /\ cursor \in 0..Len(fills)
    BY <1>0, LedgerAssumption DEF TypeOK, Times
  <2> QED BY <1>0, <2>1, <2>2, FillsFacts, LegsFacts
<1>2. /\ ts <= now /\ lot <= orders[q][n].qty /\ orders[q][n].status \in Active
  BY DEF VenueFill, Working, RecordedLots
<1>3. f \in FillRows /\ f.trade = q /\ f.leg = n /\ f.lot = lot /\ f.ts = ts
  BY <1>1 DEF FillRows
<1>4. UNCHANGED <<now, position, cursor>> /\ fills' = Append(fills, f)
  BY <1>1, VenueFillStep DEF RecordedLots
<1> HIDE DEF f
<1>5. /\ fills'[new] = f
      /\ \A i \in 1..Len(fills) : fills'[i] = fills[i]
      /\ \A m \in Legs : m # n => FillsOf(q, m)' = FillsOf(q, m)
      /\ FillsOf(q, n)' = FillsOf(q, n) \cup {new}
      /\ \A s \in SUBSET Legs :
           PendingLots(q, s)' = IF n \in s THEN PendingLots(q, s) \cup {new}
                                           ELSE PendingLots(q, s)
      /\ Len(fills') = new
  BY <1>1, <1>3, <1>4, AppendedFill
<1>6. /\ \A m \in Legs : FillsOf(q, m) \subseteq 1..Len(fills)
      /\ \A s : PendingLots(q, s) \subseteq 1..Len(fills)
      /\ new \notin 1..Len(fills)
  BY <1>1, FillsFacts
<1>7. RecordedLots(q, n)' = lot
  BY <1>1, <1>5, <1>6, FillsFacts, AddedLot DEF RecordedLots
<1>8. \A m \in Legs : m # n => RecordedLots(q, m)' = RecordedLots(q, m)
  BY <1>5 DEF RecordedLots
<1>9. LotsInOrder(q)'
  <2> SUFFICES ASSUME NEW m \in Legs, NEW i \in FillsOf(q, m)'
               PROVE  fills'[i].lot <= RecordedLots(q, m)'
    BY DEF LotsInOrder
  <2>1. CASE m # n
    <3>1. i \in FillsOf(q, m) /\ fills'[i] = fills[i]
      BY <1>5, <1>6, <2>1
    <3> QED BY <1>1, <1>8, <2>1, <3>1 DEF Books, LotsInOrder
  <2>2. CASE m = n /\ i = new
    BY <1>1, <1>3, <1>5, <1>7, <2>2
  <2>3. CASE m = n /\ i # new
    <3>1. i \in FillsOf(q, n) /\ fills'[i] = fills[i] /\ i \in DOMAIN fills
      BY <1>1, <1>5, <1>6, <2>3
    <3>2. fills[i].lot \in Nat
      <4>1. fills[i] \in FillRows
        BY <1>1, <3>1 DEF TypeOK
      <4> QED BY <4>1 DEF FillRows
    <3>3. fills[i].lot <= RecordedLots(q, n)
      BY <1>1, <3>1 DEF Books, LotsInOrder
    <3>4. fills[i].lot <= lot
      BY <1>1, <3>2, <3>3
    <3> HIDE DEF lot
    <3> QED BY <1>7, <2>3, <3>1, <3>4
  <2> QED BY <2>1, <2>2, <2>3
<1>10. FillsPast(q)'
  <2> SUFFICES ASSUME NEW i \in 1..(Len(fills) + 1), fills'[i].trade = q
               PROVE  fills'[i].ts <= now
    <3>1. DOMAIN fills' = 1..(Len(fills) + 1)
      <4>1. fills' \in Seq(FillRows)
        BY DEF AInv, IInv, TypeOK
      <4> QED BY <1>5, <4>1
    <3> QED BY <1>4, <3>1 DEF FillsPast
  <2>1. CASE i = new
    BY <1>2, <1>3, <1>5, <2>1
  <2>2. CASE i # new
    BY <1>1, <1>5, <2>2 DEF Books, FillsPast
  <2> QED BY <2>1, <2>2
<1>11. Balance(q)'
  <2>0. /\ position[q].qty \in Nat /\ PendingEntries(q) \in Nat /\ PendingCloses(q) \in Nat
        /\ RecordedLots(q, 0) \in Nat /\ Cardinality(SoldLots(q)) \in Nat
        /\ IsFiniteSet(SoldLots(q))
    BY <1>1, RecordedFacts, SoldFinite, LegsFacts
  <2>a. PICK bought \in Nat, sold \in Nat, held \in Nat, ins \in Nat, outs \in Nat :
          /\ bought = RecordedLots(q, 0) /\ sold = Cardinality(SoldLots(q))
          /\ held = position[q].qty /\ ins = PendingEntries(q) /\ outs = PendingCloses(q)
    BY <2>0
  <2>b. bought - sold = held + ins - outs
    BY <1>1, <2>a DEF Books, Balance
  <2>c. position'[q].qty = held
    BY <1>4, <2>a
  <2>1. CASE n = 0
    <3>1. PendingEntries(q)' = ins + 1
      <4>1. PendingLots(q, {0})' = PendingLots(q, {0}) \cup {new}
        BY <1>1, <1>5, <2>1
      <4>2. PendingEntries(q)' = PendingEntries(q) + 1
        BY <1>1, <1>6, <4>1, FillsFacts, AddedLot DEF PendingEntries
      <4> QED BY <2>a, <4>2
    <3>2. PendingCloses(q)' = outs
      BY <1>1, <1>5, <2>1, <2>a, LegsFacts DEF PendingCloses
    <3>3. SoldLots(q)' = SoldLots(q)
      BY <1>8, <2>1, LegsFacts DEF SoldLots
    <3>4. RecordedLots(q, 0)' = bought + 1
      BY <1>7, <2>1, <2>a
    <3>5. Cardinality(SoldLots(q)') = sold
      BY <2>a, <3>3
    <3>6. (bought + 1) - sold = held + (ins + 1) - outs
      BY <2>b
    <3> QED BY <2>c, <3>1, <3>2, <3>4, <3>5, <3>6 DEF Balance
  <2>2. CASE n # 0
    <3>0. n \in CloseLegs /\ 0 \in Legs
      BY <2>2, LegsFacts
    <3>1. PendingCloses(q)' = outs + 1
      <4>1. PendingLots(q, CloseLegs)' = PendingLots(q, CloseLegs) \cup {new}
        BY <1>1, <1>5, <3>0
      <4>2. PendingCloses(q)' = PendingCloses(q) + 1
        BY <1>1, <1>6, <4>1, FillsFacts, AddedLot DEF PendingCloses
      <4> QED BY <2>a, <4>2
    <3>2. PendingEntries(q)' = ins
      BY <1>1, <1>5, <2>2, <2>a DEF PendingEntries
    <3>3. lot <= EntryQty
      <4>1. orders[q][n].qty <= EntryQty
        BY <1>1, <1>2, <3>0 DEF Books, ClosesFit, Active
      <4>2. orders[q][n].qty \in Nat /\ EntryQty \in Nat
        BY <1>1, RecordedFacts, LedgerAssumption
      <4> QED BY <1>1, <1>2, <4>1, <4>2
    <3>4. SoldLots(q)' = SoldLots(q) \cup {<<n, lot>>} /\ <<n, lot>> \notin SoldLots(q)
      <4>1. \A m \in CloseLegs, k \in 1..EntryQty :
              k <= RecordedLots(q, m)' <=> k <= RecordedLots(q, m) \/ (m = n /\ k = lot)
        BY <1>1, <1>7, <1>8, LegsFacts, RecordedFacts
      <4>2. ASSUME NEW x \in CloseLegs \X (1..EntryQty)
            PROVE  x \in SoldLots(q)' <=> x \in SoldLots(q) \cup {<<n, lot>>}
        <5>1. x = <<x[1], x[2]>> /\ x[1] \in CloseLegs /\ x[2] \in 1..EntryQty
          OBVIOUS
        <5> HIDE DEF lot
        <5> QED BY <4>1, <5>1 DEF SoldLots
      <4>3. <<n, lot>> \in CloseLegs \X (1..EntryQty)
        BY <1>1, <3>0, <3>3, LedgerAssumption
      <4>4. SoldLots(q) \subseteq CloseLegs \X (1..EntryQty)
            /\ SoldLots(q)' \subseteq CloseLegs \X (1..EntryQty)
        BY DEF SoldLots
      <4>5. ~(lot <= RecordedLots(q, n))
        BY <1>1
      <4> HIDE DEF lot
      <4>6. <<n, lot>> \notin SoldLots(q)
        BY <4>5 DEF SoldLots
      <4> QED BY <4>2, <4>3, <4>4, <4>6
    <3>5. Cardinality(SoldLots(q)') = sold + 1
      <4> HIDE DEF lot
      <4>1. Cardinality(SoldLots(q)') = Cardinality(SoldLots(q)) + 1
        BY <2>0, <3>4, AddedLot
      <4> QED BY <2>a, <4>1
    <3>6. RecordedLots(q, 0)' = bought
      BY <1>8, <2>2, <2>a, <3>0
    <3>7. bought - (sold + 1) = held + ins - (outs + 1)
      BY <2>b
    <3> QED BY <2>c, <3>1, <3>2, <3>5, <3>6, <3>7 DEF Balance
  <2> QED BY <2>1, <2>2
<1> QED BY <1>7, <1>8, <1>9, <1>10, <1>11, RowsFit DEF Books

LEMMA BooksInit == Init => BooksInv
<1> SUFFICES ASSUME Init, NEW p \in Trades
             PROVE  Books(p)
  BY AccountsInit DEF BooksInv
<1>1. /\ \A n \in Legs : orders[p][n].status = "none"
      /\ position[p].qty = 0 /\ fills = <<>> /\ 0 \in Legs
  BY LegsFacts DEF Init, NoOrder, NoPosition
<1>2. /\ \A n : FillsOf(p, n) = {}
      /\ \A s : PendingLots(p, s) = {}
  BY <1>1 DEF FillsOf, PendingLots
<1>3. /\ \A n : RecordedLots(p, n) = 0
      /\ PendingEntries(p) = 0 /\ PendingCloses(p) = 0
  BY <1>2, FS_EmptySet DEF RecordedLots, PendingEntries, PendingCloses
<1>4. SoldLots(p) = {}
  BY <1>3, LedgerAssumption DEF SoldLots
<1>5. Balance(p)
  BY <1>1, <1>3, <1>4, FS_EmptySet DEF Balance
<1> QED BY <1>1, <1>2, <1>5, LegsFacts
        DEF Books, LotsInOrder, FillsPast, EntryRow, ClosesFit

LEMMA BooksStep == BooksInv /\ [Next]_vars => BooksInv'
<1> SUFFICES ASSUME BooksInv, [Next]_vars
             PROVE  BooksInv'
  OBVIOUS
<1>1. AInv' /\ IInv
  BY AccountsStep DEF BooksInv, AInv
<1> SUFFICES ASSUME NEW q \in Trades
             PROVE  Books(q)'
  BY <1>1 DEF BooksInv
<1>2. CASE Next
  BY <1>1, <1>2, StepKinds, BooksQuiet, BooksCommit, BooksFill
<1>3. CASE UNCHANGED vars
  <2>1. /\ \A n : RecordedLots(q, n)' = RecordedLots(q, n)
        /\ \A n : FillsOf(q, n)' = FillsOf(q, n)
        /\ PendingEntries(q)' = PendingEntries(q)
        /\ PendingCloses(q)' = PendingCloses(q)
        /\ SoldLots(q)' = SoldLots(q)
    BY <1>3 DEF vars, RecordedLots, FillsOf, PendingEntries, PendingCloses, PendingLots,
       SoldLots
  <2> QED BY <1>3, <2>1
          DEF vars, BooksInv, Books, LotsInOrder, FillsPast, EntryRow, ClosesFit, Balance
<1> QED BY <1>2, <1>3

(* In every reachable state the position of a trade, with the fills not    *)
(* yet receipted, is exactly what its entry bought less what its closes    *)
(* sold, and the lots of each order are recorded once each, in order.      *)
THEOREM BooksTheorem == Spec => []BooksInv
<1> QED BY BooksInit, BooksStep, PTL DEF Spec

=============================================================================
