--------------------------- MODULE LifecycleProofs ---------------------------
(***************************************************************************)
(* Proofs about ExecutionLifecycle: the worker, its queue, the venue's     *)
(* book and the ledger, through ticks, redeliveries, failed transactions,  *)
(* crashes and restarts.                                                   *)
(*                                                                         *)
(* A failing record_fill loses a fill for good (runs fill_lost and         *)
(* status_back), so the theorems that need every fill are stated for       *)
(* processes in which every other database step may fail; OrdersAgree      *)
(* supposes that no report of the venue fails to be recorded.              *)
(***************************************************************************)
EXTENDS ExecutionLifecycle, ExecutionLedgerProofs

(***************************************************************************)
(* The venue's book, and what it has to do with the ledger.                *)
(***************************************************************************)
Known(p, n) == book[p][n].status # "none"
OnMarket(p, n) == book[p][n].status \in Venue!Open
Filled(p, n) == Venue!Filled(p, n)

BookRow(p, n) ==
  LET b == book[p][n] IN
  /\ b.status = "none" => b = Venue!NoSimOrder
  /\ Filled(p, n) <= b.qty
  /\ b.status \in Venue!Open => Filled(p, n) < b.qty
  /\ b.status = "partially_filled" => Filled(p, n) > 0
  /\ b.status = "submitted" => Filled(p, n) = 0
  /\ b.status = "rejected" => Filled(p, n) = 0
  /\ b.status = "filled" => Filled(p, n) = b.qty
  /\ b.status = "cancelled" => n = 0
  /\ \A k \in 1..Filled(p, n) :
       /\ b.fillTs[k] <= now
       /\ \A j \in 1..k : b.fillTs[j] <= b.fillTs[k]

(* A symbol has at most one order in the market, and that one waits.       *)
WaitingOne(p) ==
  \/ waiting[p] = <<>> /\ \A n \in Legs : ~OnMarket(p, n)
  \/ \E n \in Legs : /\ waiting[p] = <<n>>
                     /\ \A m \in Legs : OnMarket(p, m) <=> m = n

(* The venue has no more to tell of an order.                              *)
Over(p, n) == ~OnMarket(p, n) /\ RecordedLots(p, n) = Filled(p, n)

Linked(p, n) ==
  Known(p, n) =>
    /\ <<p, n>> \in sent
    /\ orders[p][n].status # "none"
    /\ book[p][n].qty = orders[p][n].qty
    /\ RecordedLots(p, n) <= Filled(p, n)
    /\ orders[p][n].status \notin Active => Over(p, n)

(* A lot the ledger has not recorded is no older than one it has.          *)
LateLots(p) ==
  \A n \in Legs, k \in Nat :
    (RecordedLots(p, n) < k /\ k <= Filled(p, n)) =>
      \A i \in DOMAIN fills :
        fills[i].trade = p => fills[i].ts <= book[p][n].fillTs[k]

(* In a running process a trade has all its fills from this process, or it *)
(* was over before the process began.                                      *)
Alive(p) == \A n \in Legs : ~Known(p, n) => RecordedLots(p, n) = 0
Done(p) ==
  /\ \A n \in Legs : ~Known(p, n) /\ orders[p][n].status \notin Active
  /\ orders[p][0].status \in Terminal
  /\ position[p].qty = 0
  /\ ~PendingFill(p)

Venued(p) ==
  /\ \A n \in Legs : BookRow(p, n)
  /\ WaitingOne(p)
  /\ \A n \in Legs : Linked(p, n)
  /\ LateLots(p)
  /\ mode = "ready" => Alive(p) \/ Done(p)

BookTypes ==
  /\ book \in [Trades -> [Legs -> Venue!SimOrders]]
  /\ waiting \in [Trades -> Seq(Legs)]

(***************************************************************************)
(* The queue tells of each order's lots and its cancellation, in order,    *)
(* and holds every lot that is not recorded.                               *)
(***************************************************************************)
Items == [type : {"approved"}, trade : Trades] \cup {Wake} \cup Venue!Updates
IsUpdate(i, p, n) ==
  queue[i].type = "update" /\ queue[i].trade = p /\ queue[i].leg = n

QueueTells ==
  \A p \in Trades, n \in Legs : \A i \in DOMAIN queue : IsUpdate(i, p, n) =>
    /\ queue[i].lot > 0 => /\ queue[i].lot <= Filled(p, n)
                           /\ queue[i].ts = book[p][n].fillTs[queue[i].lot]
    /\ queue[i].lot = 0 => book[p][n].status = "cancelled"

QueueInOrder ==
  \A p \in Trades, n \in Legs : \A i, j \in DOMAIN queue :
    (IsUpdate(i, p, n) /\ IsUpdate(j, p, n) /\ i < j) =>
      /\ queue[i].lot > 0
      /\ (queue[j].lot = 0 \/ queue[i].lot < queue[j].lot)

QueueHolds ==
  \A p \in Trades, n \in Legs, k \in Nat :
    (RecordedLots(p, n) < k /\ k <= Filled(p, n)) =>
      \E i \in DOMAIN queue : IsUpdate(i, p, n) /\ queue[i].lot = k

QueueInv == queue \in Seq(Items) /\ QueueTells /\ QueueInOrder /\ QueueHolds

(***************************************************************************)
(* What the worker's locals say, however long it was suspended.            *)
(***************************************************************************)
ReadBack(p, lots) ==
  /\ ~OnMarket(p, 0)
  /\ Len(lots) <= Filled(p, 0)
  /\ Filled(p, 0) <= RecordedLots(p, 0) + Len(lots)
  /\ \A k \in 1..Len(lots) :
       lots[k] = Venue!Update(p, 0, Filled(p, 0) - Len(lots) + k,
                              book[p][0].fillTs[Filled(p, 0) - Len(lots) + k])

WorkerInv ==
  /\ worker.step = "place_entry" => orders[worker.trade][0].status = "approved"
  /\ (worker.step = "ack_entry" /\ worker.ack = "rejected") =>
       book[worker.trade][0].status = "rejected"
  /\ worker.step \in {"claim", "place_close", "ack_close"} => worker.leg \in CloseLegs
  /\ worker.step = "place_close" =>
       /\ <<worker.trade, worker.leg>> \in sent
       /\ orders[worker.trade][worker.leg].status = "approved"
  /\ worker.step = "ack_close" =>
       /\ <<worker.trade, worker.leg>> \in sent
       /\ worker.ack = "rejected" =>
            book[worker.trade][worker.leg].status = "rejected"
  /\ worker.step = "record_entry" => ReadBack(worker.trade, worker.lots)
  /\ worker.step = "observe" => \A p \in Trades : worker.left[p] <= Len(pending[p])

Intents == [reason : ExitReasons, ts : Times]
PendingInv ==
  /\ pending \in [Trades -> Seq(Intents)]
  /\ \A p \in Trades :
       /\ Len(pending[p]) <= 2
       /\ Len(pending[p]) = 2 => pending[p][2].reason # "eod_flatten"

Modes ==
  /\ mode \in {"down", "starting", "ready", "blocked"}
  /\ connected = (mode \in {"starting", "ready"})
  /\ listening = (mode = "ready")
  /\ mode # "ready" =>
       /\ worker = Idle /\ queue = <<>>
       /\ book = [p \in Trades |-> [n \in Legs |-> Venue!NoSimOrder]]
       /\ waiting = [p \in Trades |-> <<>>]

LInv ==
  /\ BooksInv
  /\ BookTypes
  /\ \A p \in Trades : Venued(p)
  /\ QueueInv
  /\ worker \in WorkerStates
  /\ WorkerInv
  /\ PendingInv
  /\ Modes

(***************************************************************************)
(* Facts about the ledger.                                                 *)
(***************************************************************************)
(* A trade works at most one order at a time, its entry or a close.        *)
LEMMA ActiveAlone ==
  ASSUME AInv, NEW p \in Trades, NEW m \in Legs, NEW n \in Legs,
         orders[p][m].status \in Active, orders[p][n].status \in Active
  PROVE  m = n
<1>1. TradeInv(p) /\ EntryOver(p)
  BY DEF AInv, IInv, Accounts
<1>2. "none" \notin Active /\ Active \cap Terminal = {}
  BY DEF Active, Terminal
<1>3. \A k \in CloseLegs : orders[p][k].status \in Active => orders[p][0].status \notin Active
  BY <1>1, <1>2 DEF EntryOver, Reserved
<1> QED BY <1>1, <1>3, LegsFacts DEF TradeInv, AtMostOneActive

(* The recorded lots of an order are its first ones. *)
LEMMA RecordedIff ==
  ASSUME BooksInv, NEW p \in Trades, NEW n \in Legs, NEW k \in Nat
  PROVE  Recorded(p, n, k) <=> k # 0 /\ k <= RecordedLots(p, n)
<1>1. TypeOK /\ AInv /\ Books(p) /\ Accounts(p)
  BY DEF BooksInv, AInv, IInv
<1>2. RecordedLots(p, n) \in Nat
  BY <1>1, RecordedFacts
<1>3. ASSUME Recorded(p, n, k)
      PROVE  k # 0 /\ k <= RecordedLots(p, n)
  <2>1. PICK i \in FillsOf(p, n) : fills[i].lot = k
    BY <1>3 DEF Recorded
  <2>2. fills[i] \in FillRows
    BY <1>1 DEF TypeOK, FillsOf
  <2> QED BY <1>1, <2>1, <2>2 DEF FillRows, Books, LotsInOrder
<1>4. ASSUME k # 0, k <= RecordedLots(p, n)
      PROVE  Recorded(p, n, k)
  <2>1. k \in 1..Cardinality(FillsOf(p, n))
    BY <1>2, <1>4 DEF RecordedLots
  <2> QED BY <1>1, <2>1 DEF Accounts, LotsNumbered
<1> QED BY <1>3, <1>4

(* Recording an expiry ends no order but an unsent close, which it marks.  *)
LEMMA ExpiryEnds ==
  ASSUME IInv, NEW p \in Trades, NEW r, NEW o \in [Legs -> OrderRows],
         \A m, n \in CloseLegs :
           (o[m].status \in Active /\ o[n].status \in Active) => m = n,
         NEW n \in Legs
  PROVE  \/ ExpireOrders(r, o)[n] = o[n]
         \/ n \in CloseLegs /\ ExpireOrders(r, o)[n] = WindowClosed(o[n])
<1>1. CASE ActiveCloses(o) = {}
  BY <1>1 DEF ExpireOrders
<1>2. CASE ActiveCloses(o) # {}
  <2>1. PICK k \in CloseLegs : ActiveCloses(o) = {k}
    BY <1>2 DEF ActiveCloses
  <2>2. LastActiveClose(o) = k
    BY <2>1 DEF LastActiveClose, CloseLegs
  <2>3. ExpireOrders(r, o) = [o EXCEPT ![k] = WindowClosed(@)] \/ ExpireOrders(r, o) = o
    BY <2>2 DEF ExpireOrders
  <2> QED BY <2>1, <2>3, LegsFacts
<1> QED BY <1>1, <1>2

LEMMA WindowClosedRow ==
  ASSUME NEW o \in OrderRows
  PROVE  WindowClosed(o).windowClosed /\ WindowClosed(o).status = "cancelled"
         /\ WindowClosed(o) \in OrderRows
BY DEF WindowClosed, OrderRows, Active, Terminal

(* An order of the ledger that ends. *)
Ends(p, n) == orders[p][n].status \in Active /\ orders'[p][n].status \notin Active
(* An order of the ledger whose status changes. *)
Alters(p, n) == /\ orders[p][n].status # "none"
                /\ orders'[p][n].status # orders[p][n].status
(* A close whose EOD window ends, provably unsent. *)
EndsUnsent(p, n) == n \in CloseLegs /\ orders'[p][n].windowClosed

LEMMA EndsAlters ==
  ASSUME NEW p \in Trades, NEW n \in Legs, Ends(p, n)
  PROVE  Alters(p, n)
BY DEF Ends, Alters, Active

LEMMA AfterExpiryEnds ==
  ASSUME IInv, NEW p \in Trades, NEW n \in Legs
  PROVE  /\ OrdersAfterExpiry(p)[n] \in OrderRows
         /\ \/ OrdersAfterExpiry(p)[n] = orders[p][n]
            \/ n \in CloseLegs /\ OrdersAfterExpiry(p)[n].windowClosed
<1>1. orders[p] \in [Legs -> OrderRows] /\ AtMostOneActive(p)
  BY DEF IInv, TypeOK, TradeInv
<1>2. \/ OrdersAfterExpiry(p)[n] = orders[p][n]
      \/ n \in CloseLegs /\ OrdersAfterExpiry(p)[n] = WindowClosed(orders[p][n])
  BY <1>1, ExpiryEnds DEF OrdersAfterExpiry, AtMostOneActive
<1> QED BY <1>1, <1>2, WindowClosedRow

LEMMA ObserveAlters ==
  ASSUME IInv, NEW p \in Trades, NEW r, NEW ts, NEW ok,
         ObserveExit(p, r, ts, ok), NEW q \in Trades, NEW n \in Legs, Alters(q, n)
  PROVE  EndsUnsent(q, n)
<1>1. orders' # orders
  BY DEF Alters
<1>2. orders' = [orders EXCEPT ![p] = OrdersAfterExpiry(p)]
  BY <1>1 DEF ObserveExit, ObserveStored, ObserveExisting
<1>3. q = p /\ orders'[p] = OrdersAfterExpiry(p)
  BY <1>2 DEF IInv, TypeOK, Alters
<1> QED BY <1>3, AfterExpiryEnds DEF Alters, EndsUnsent

LEMMA PrepareAlters ==
  ASSUME IInv, NEW p \in Trades, PrepareExit(p), NEW q \in Trades, NEW n \in Legs,
         Alters(q, n)
  PROVE  EndsUnsent(q, n)
<1>0. orders \in [Trades -> [Legs -> OrderRows]]
      /\ OrdersAfterExpiry(p) \in [Legs -> OrderRows]
  BY OrdersAfterExpiryShape DEF IInv, TypeOK
<1>1. CASE orders' = orders
  BY <1>1 DEF Alters
<1>2. CASE orders' = [orders EXCEPT ![p] = OrdersAfterExpiry(p)]
  <2>1. q = p /\ orders'[p] = OrdersAfterExpiry(p)
    BY <1>0, <1>2 DEF Alters
  <2> QED BY <2>1, AfterExpiryEnds DEF Alters, EndsUnsent
<1>3. CASE PrepareReserve(p)
  <2> DEFINE a == position[p].attempt + 1
             o == [OrdersAfterExpiry(p) EXCEPT ![a] = Reservation(p)]
  <2>1. orders' = [orders EXCEPT ![p] = o]
    BY <1>3 DEF PrepareReserve
  <2>2. q = p /\ orders'[p][n] = o[n]
    <3> HIDE DEF o
    <3> QED BY <1>0, <2>1 DEF Alters
  <2>3. a \in Nat /\ a > position[p].attempt /\ FreshLegs(p) /\ a # 0
    BY DEF IInv, TypeOK, PositionRows, Legs, TradeInv
  <2>4. n # a
    <3> SUFFICES ASSUME n = a
                 PROVE  FALSE
      OBVIOUS
    <3>1. n \in CloseLegs
      BY <2>3, LegsFacts
    <3>2. orders[p][n] = NoOrder
      BY <2>3, <3>1 DEF FreshLegs
    <3> QED BY <2>2, <3>2 DEF Alters, NoOrder
  <2>5. o[n] = OrdersAfterExpiry(p)[n]
    BY <1>0, <2>4
  <2> QED BY <2>2, <2>5, AfterExpiryEnds DEF Alters, EndsUnsent
<1> QED BY <1>1, <1>2, <1>3 DEF PrepareExit, PrepareRefuse, PrepareNoReservation

LEMMA ClaimAlters ==
  ASSUME IInv, NEW p \in Trades, NEW l \in CloseLegs, ClaimDispatch(p, l),
         NEW q \in Trades, NEW n \in Legs, Alters(q, n)
  PROVE  EndsUnsent(q, n)
<1> DEFINE o == OrdersAfterExpiry(p)
<1>0. /\ orders \in [Trades -> [Legs -> OrderRows]] /\ l \in Legs
      /\ o \in [Legs -> OrderRows]
  BY OrdersAfterExpiryShape, LegsFacts DEF IInv, TypeOK
<1>1. CASE orders' = orders
  BY <1>1 DEF Alters
<1>2. ASSUME NEW w \in [Legs -> OrderRows], orders' = [orders EXCEPT ![p] = w],
             \A m \in Legs : \/ w[m].status = o[m].status /\ w[m].windowClosed = o[m].windowClosed
                             \/ m \in CloseLegs /\ w[m].windowClosed
      PROVE  EndsUnsent(q, n)
  <2>1. q = p /\ orders'[p] = w
    BY <1>0, <1>2 DEF Alters
  <2>2. CASE n \in CloseLegs /\ w[n].windowClosed
    BY <2>1, <2>2 DEF EndsUnsent
  <2>3. CASE w[n].status = o[n].status /\ w[n].windowClosed = o[n].windowClosed
    BY <2>1, <2>3, AfterExpiryEnds DEF Alters, EndsUnsent
  <2> QED BY <1>2, <2>2, <2>3
<1>3. CASE ClaimNoDispatch(p, l)
  <2> DEFINE w == IF ClaimResult(p, l) = "window_expired"
                  THEN [o EXCEPT ![l] = WindowClosed(@)] ELSE o
  <2>1. orders' = [orders EXCEPT ![p] = w]
    BY <1>3 DEF ClaimNoDispatch
  <2>2. WindowClosed(o[l]) \in OrderRows /\ WindowClosed(o[l]).windowClosed
    BY <1>0, WindowClosedRow
  <2>3. w \in [Legs -> OrderRows]
    BY <1>0, <2>2
  <2>4. \A m \in Legs : \/ w[m] = o[m]
                        \/ m \in CloseLegs /\ w[m].windowClosed
    BY <1>0, <2>2
  <2> HIDE DEF w, o
  <2> QED BY <1>2, <2>1, <2>3, <2>4
<1>4. CASE ClaimCommit(p, l)
  <2> DEFINE w == [o EXCEPT ![l] = Marked(@, request[p])]
  <2>1. orders' = [orders EXCEPT ![p] = w]
    BY <1>4 DEF ClaimCommit
  <2>2. /\ Marked(o[l], request[p]) \in OrderRows
        /\ Marked(o[l], request[p]).status = o[l].status
        /\ Marked(o[l], request[p]).windowClosed = o[l].windowClosed
    BY <1>0 DEF Marked, OrderRows, Lifecycle
  <2>3. w \in [Legs -> OrderRows]
    BY <1>0, <2>2
  <2>4. \A m \in Legs : w[m].status = o[m].status /\ w[m].windowClosed = o[m].windowClosed
    BY <1>0, <2>2
  <2> HIDE DEF w, o
  <2> QED BY <1>2, <2>1, <2>3, <2>4
<1> QED BY <1>1, <1>3, <1>4 DEF ClaimDispatch, ClaimRefuse

(* A reported status changes the order it is about, or ends an unsent     *)
(* close.                                                                  *)
LEMMA StatusAlters ==
  ASSUME IInv, NEW p \in Trades, NEW l \in Legs, NEW s \in Active \cup Terminal,
         SetStatus(p, l, s), NEW q \in Trades, NEW n \in Legs
  PROVE  \/ orders'[q][n].status = IF q = p /\ n = l THEN s ELSE orders[q][n].status
         \/ EndsUnsent(q, n)
<1> DEFINE o == [orders[p] EXCEPT ![l].status = s]
           w == IF l = 0 THEN o ELSE ExpireOrders(request[p], o)
<1>0. /\ orders \in [Trades -> [Legs -> OrderRows]] /\ orders[p][l] \in OrderRows
      /\ AtMostOneActive(p) /\ orders[p][l].status \in Active
  BY DEF IInv, TypeOK, TradeInv, SetStatus, StatusChanges, StatusAllowed, Active
<1>1. /\ o \in [Legs -> OrderRows]
      /\ o[l].status = s
      /\ \A m \in Legs : m # l => o[m] = orders[p][m]
  <2>1. [orders[p][l] EXCEPT !.status = s] \in OrderRows
        /\ [orders[p][l] EXCEPT !.status = s].status = s
    BY <1>0, StatusRowType DEF OrderRows
  <2> QED BY <1>0, <2>1
<1> HIDE DEF o
<1>2. \A m \in Legs : \/ w[m] = o[m]
                      \/ m \in CloseLegs /\ w[m] = WindowClosed(o[m])
  <2>1. CASE l = 0
    BY <2>1
  <2>2. CASE l # 0
    <3>1. \A m, k \in CloseLegs :
            (o[m].status \in Active /\ o[k].status \in Active) => m = k
      BY <1>0, <1>1, <2>2, LegsFacts DEF AtMostOneActive
    <3> QED BY <1>1, <2>2, <3>1, ExpiryEnds
  <2> QED BY <2>1, <2>2
<1>3. orders' = [orders EXCEPT ![p] = w]
  BY DEF SetStatus, o
<1> HIDE DEF w
<1>4. CASE q # p
  BY <1>0, <1>3, <1>4
<1>5. CASE q = p
  <2>1. orders'[p][n] = w[n]
    BY <1>0, <1>3, <1>5
  <2>2. CASE w[n] = o[n]
    BY <1>1, <1>5, <2>1, <2>2
  <2>3. CASE n \in CloseLegs /\ w[n] = WindowClosed(o[n])
    BY <1>1, <1>5, <2>1, <2>3, WindowClosedRow DEF EndsUnsent
  <2> QED BY <1>2, <2>2, <2>3
<1> QED BY <1>4, <1>5

(***************************************************************************)
(* Facts about the composed state.                                         *)
(***************************************************************************)
LEMMA LInvFacts ==
  ASSUME LInv
  PROVE  /\ BooksInv /\ AInv /\ IInv /\ TypeOK
         /\ now \in Nat /\ now \in Times /\ EntryQty \in Nat \ {0}
         /\ \A p \in Trades : Books(p) /\ Accounts(p) /\ TradeInv(p) /\ Venued(p)
         /\ orders \in [Trades -> [Legs -> OrderRows]]
         /\ book \in [Trades -> [Legs -> Venue!SimOrders]]
         /\ waiting \in [Trades -> Seq(Legs)]
         /\ queue \in Seq(Items) /\ Len(queue) \in Nat /\ DOMAIN queue = 1..Len(queue)
<1>1. BooksInv /\ AInv /\ IInv /\ TypeOK
  BY DEF LInv, BooksInv, AInv, IInv
<1>2. now \in Nat /\ now \in Times
  BY <1>1, LedgerAssumption DEF TypeOK, Times
<1>3. \A p \in Trades : Books(p) /\ Accounts(p) /\ TradeInv(p) /\ Venued(p)
  BY <1>1 DEF LInv, BooksInv, AInv, IInv
<1> QED BY <1>1, <1>2, <1>3, LedgerAssumption DEF LInv, BookTypes, QueueInv, TypeOK

LEMMA BookFacts ==
  ASSUME LInv, NEW p \in Trades, NEW n \in Legs
  PROVE  /\ book[p][n] \in Venue!SimOrders
         /\ book[p][n].qty \in 0..EntryQty
         /\ book[p][n].fillTs \in Seq(Times)
         /\ Filled(p, n) \in Nat
         /\ DOMAIN book[p][n].fillTs = 1..Filled(p, n)
         /\ \A k \in 1..Filled(p, n) :
              book[p][n].fillTs[k] \in Times /\ book[p][n].fillTs[k] \in Nat
         /\ Filled(p, n) <= book[p][n].qty
         /\ Filled(p, n) <= EntryQty
         /\ ~Known(p, n) => Filled(p, n) = 0 /\ ~OnMarket(p, n)
         /\ OnMarket(p, n) => Filled(p, n) < book[p][n].qty
         /\ RecordedLots(p, n) \in Nat
<1>1. /\ book[p][n] \in Venue!SimOrders /\ BookRow(p, n)
      /\ AInv /\ EntryQty \in Nat
  BY LInvFacts DEF Venued
<1>2. /\ book[p][n].qty \in 0..EntryQty
      /\ book[p][n].fillTs \in Seq(Times)
  BY <1>1 DEF Venue!SimOrders
<1>3. Filled(p, n) \in Nat /\ DOMAIN book[p][n].fillTs = 1..Filled(p, n)
  BY <1>2 DEF Filled, Venue!Filled
<1>a. \A k \in 1..Filled(p, n) :
        book[p][n].fillTs[k] \in Times /\ book[p][n].fillTs[k] \in Nat
  <2>1. \A k \in DOMAIN book[p][n].fillTs : book[p][n].fillTs[k] \in Times
    BY <1>2
  <2>2. Times \subseteq Nat
    BY LedgerAssumption DEF Times
  <2>3. TAKE k \in 1..Filled(p, n)
  <2>4. book[p][n].fillTs[k] \in Times
    BY <1>3, <2>1
  <2> QED BY <2>2, <2>4
<1>4. Filled(p, n) <= book[p][n].qty
      /\ (OnMarket(p, n) => Filled(p, n) < book[p][n].qty)
  BY <1>1 DEF BookRow, OnMarket
<1>5. ~Known(p, n) => Filled(p, n) = 0 /\ ~OnMarket(p, n)
  BY <1>1 DEF BookRow, Known, OnMarket, Filled, Venue!Filled, Venue!NoSimOrder, Venue!Open
<1> QED BY <1>1, <1>2, <1>3, <1>a, <1>4, <1>5, RecordedFacts

(* An order with a lot to record, or in the market, works in the ledger,   *)
(* and no other order of its trade has either.                             *)
LEMMA Unrecorded ==
  ASSUME LInv, NEW p \in Trades, NEW n \in Legs,
         OnMarket(p, n) \/ RecordedLots(p, n) < Filled(p, n)
  PROVE  /\ Known(p, n) /\ Working(p, n)
         /\ book[p][n].qty = orders[p][n].qty
         /\ \A m \in Legs : m # n => (Known(p, m) => Over(p, m))
<1>0. /\ RecordedLots(p, n) \in Nat /\ Filled(p, n) \in Nat
      /\ ~Known(p, n) => Filled(p, n) = 0 /\ ~OnMarket(p, n)
      /\ AInv /\ \A m \in Legs : Linked(p, m)
  BY BookFacts, LInvFacts DEF Venued
<1>1. Known(p, n)
  BY <1>0
<1>2. orders[p][n].status \in Active
  <2>1. ~Over(p, n)
    BY <1>0 DEF Over
  <2> QED BY <1>0, <1>1, <2>1 DEF Linked
<1>3. ASSUME NEW m \in Legs, m # n, Known(p, m)
      PROVE  Over(p, m)
  <2>1. orders[p][m].status \notin Active
    BY <1>0, <1>2, <1>3, ActiveAlone
  <2> QED BY <1>0, <1>3, <2>1 DEF Linked
<1> QED BY <1>0, <1>1, <1>2, <1>3 DEF Working, Linked

(* The first unrecorded lot of an order can be recorded as the venue's     *)
(* next fill.                                                              *)
LEMMA NextLotFits ==
  ASSUME LInv, NEW p \in Trades, NEW n \in Legs, NEW ts,
         RecordedLots(p, n) < Filled(p, n),
         ts = book[p][n].fillTs[RecordedLots(p, n) + 1],
         RecordFill(p, n, RecordedLots(p, n) + 1, ts)
  PROVE  ts \in Times /\ VenueFill(p, n, ts)
<1> DEFINE k == RecordedLots(p, n) + 1
<1>0. /\ RecordedLots(p, n) \in Nat /\ Filled(p, n) \in Nat
      /\ book[p][n].fillTs \in Seq(Times)
      /\ DOMAIN book[p][n].fillTs = 1..Filled(p, n)
      /\ Filled(p, n) <= book[p][n].qty /\ book[p][n].qty \in 0..EntryQty
      /\ EntryQty \in Nat
      /\ BookRow(p, n) /\ LateLots(p)
  BY BookFacts, LInvFacts DEF Venued
<1>1. k \in 1..Filled(p, n) /\ k \in Nat /\ RecordedLots(p, n) < k
  BY <1>0
<1>2. ts \in Times /\ ts <= now
  BY <1>0, <1>1 DEF BookRow
<1>3. \A i \in DOMAIN fills : fills[i].trade = p => fills[i].ts <= ts
  BY <1>0, <1>1 DEF LateLots
<1>4. Working(p, n) /\ book[p][n].qty = orders[p][n].qty
  BY Unrecorded
<1>5. k <= orders[p][n].qty
  BY <1>0, <1>1, <1>4
<1> QED BY <1>2, <1>3, <1>4, <1>5 DEF VenueFill, RecordedLots

LEMMA WorkerFields ==
  ASSUME worker \in WorkerStates
  PROVE  /\ worker.step \in {"place_entry", "ack_entry", "cancel_entry", "claim",
                             "place_close", "ack_close", "record_entry"} =>
              worker.trade \in Trades
         /\ worker.step \in {"cancel_entry", "claim", "place_close", "ack_close"} =>
              worker.leg \in Legs
         /\ worker.step \in {"service", "cancel_entry", "claim", "place_close",
                             "ack_close", "record_entry"} => worker.todo \in SUBSET Trades
         /\ worker.step \in {"ack_entry", "ack_close"} =>
              worker.ack \in {"submitted", "rejected"}
         /\ worker.step = "observe" => worker.left \in [Trades -> 0..2]
                                       /\ worker = [step |-> "observe", left |-> worker.left]
         /\ worker.step = "record_entry" =>
              /\ worker.lots \in Seq(Venue!Updates)
              /\ worker = [step |-> "record_entry", trade |-> worker.trade,
                           todo |-> worker.todo, lots |-> worker.lots]
         /\ worker.step = "idle" => worker = Idle
<1>1. CASE worker = Idle
  BY <1>1 DEF Idle
<1>2. CASE worker \in [step : {"place_entry"}, trade : Trades]
  BY <1>2
<1>3. CASE worker \in [step : {"ack_entry"}, trade : Trades, ack : {"submitted", "rejected"}]
  BY <1>3
<1>4. CASE worker \in [step : {"observe"}, left : [Trades -> 0..2]]
  BY <1>4
<1>5. CASE worker \in [step : {"service"}, todo : SUBSET Trades]
  BY <1>5
<1>6. CASE worker \in [step : {"cancel_entry", "claim", "place_close"}, trade : Trades,
                       leg : Legs, todo : SUBSET Trades]
  BY <1>6
<1>7. CASE worker \in [step : {"ack_close"}, trade : Trades, leg : Legs,
                       todo : SUBSET Trades, ack : {"submitted", "rejected"}]
  BY <1>7
<1>8. CASE worker \in [step : {"record_entry"}, trade : Trades, todo : SUBSET Trades,
                       lots : Seq(Venue!Updates)]
  BY <1>8
<1> QED BY <1>1, <1>2, <1>3, <1>4, <1>5, <1>6, <1>7, <1>8 DEF WorkerStates

(***************************************************************************)
(* A step of the ledger under a book that stays.                           *)
(***************************************************************************)
LEMMA RowsStand ==
  ASSUME LInv, [Next]_vars, NEW q \in Trades, NEW n \in Legs
  PROVE  /\ sent \subseteq sent' /\ now <= now' /\ now' \in Nat
         /\ orders[q][n].status # "none" =>
              /\ orders'[q][n].status # "none"
              /\ orders'[q][n].qty = orders[q][n].qty
         /\ orders[q][n].status \in Terminal => orders'[q][n].status \in Terminal
<1>1. IInv /\ TypeOK /\ now \in Nat
  BY LInvFacts
<1>2. CASE Next
  <2>1. LegStep(q, n) /\ now <= now' /\ sent \subseteq sent'
    BY <1>1, <1>2, EveryLegSteps, NowAndSent
  <2>2. now' \in Nat
    BY <1>1, <1>2, TypeStep, LedgerAssumption DEF TypeOK, Times
  <2> QED BY <2>1, <2>2 DEF LegStep
<1>3. CASE UNCHANGED vars
  BY <1>1, <1>3 DEF vars
<1> QED BY <1>2, <1>3

(* A trade that was over before the process stays so. *)
LEMMA DoneStands ==
  ASSUME LInv, BooksInv', [Next]_vars, UNCHANGED book, NEW q \in Trades, Done(q)
  PROVE  Done(q)'
<1>a. IInv /\ TypeOK /\ TypeOK' /\ 0 \in Legs
  BY LInvFacts, LegsFacts DEF BooksInv, AInv, IInv
<1>0. /\ IInv /\ TypeOK /\ TypeOK' /\ 0 \in Legs /\ position[q].qty = 0
      /\ \A n \in Legs : orders[q][n] \in OrderRows /\ orders'[q][n] \in OrderRows
  BY <1>a DEF Done, TypeOK
<1>1. \A n \in Legs : ~Known(q, n)'
  BY DEF Done, Known
<1>2. CASE UNCHANGED vars
  BY <1>1, <1>2 DEF vars, Done, PendingFill
<1>3. CASE Next
  <2>1. \A n \in Legs : LegStep(q, n)
    BY <1>0, <1>3, EveryLegSteps
  <2>2. \A n \in Legs : ~Fresh(q, n)
    BY <1>0 DEF Fresh, Reserves, Done, Terminal
  <2>3. \A n \in Legs : orders'[q][n].status \notin Active
    BY <2>1, <2>2 DEF LegStep, Done
  <2>4. orders'[q][0].status \in Terminal
    BY <1>0, <2>1 DEF LegStep, Done
  <2>5. SameBook(q)
    <3>1. ~(CommitFill /\ q = HeadFill.trade)
      <4> SUFFICES ASSUME CommitFill, q = HeadFill.trade
                   PROVE  PendingFill(q)
        BY DEF Done
      <4>1. cursor + 1 \in DOMAIN fills /\ cursor + 1 > cursor
        BY <1>0 DEF CommitFill, TypeOK
      <4> QED BY <4>1 DEF PendingFill, HeadFill
    <3>2. ~\E n \in Legs, ts \in Times : VenueFill(q, n, ts)
      BY DEF VenueFill, Working, Done
    <3> QED BY <1>0, <1>3, <3>1, <3>2, StepKinds
  <2>6. position'[q].qty = 0
    BY <1>0, <2>5 DEF SameBook
  <2>7. ~PendingFill(q)'
    <3>1. PendingLots(q, {0}) = {} /\ PendingLots(q, CloseLegs) = {}
      BY <1>0, PendingByLegs DEF Done
    <3>2. PendingLots(q, {0})' = {} /\ PendingLots(q, CloseLegs)' = {}
      BY <2>5, <3>1 DEF SameBook
    <3> QED
      <4>1. \A i \in DOMAIN fills' : fills'[i] \in FillRows
        BY <1>0 DEF TypeOK
      <4>2. \A i \in DOMAIN fills' : fills'[i].leg = 0 \/ fills'[i].leg \in CloseLegs
        BY <4>1, LegsFacts DEF FillRows
      <4> QED BY <3>2, <4>2 DEF PendingFill, PendingLots
  <2> QED BY <1>1, <2>3, <2>4, <2>6, <2>7 DEF Done
<1> QED BY <1>2, <1>3

(* The part of a ledger step that moves no fill: what it ends, the venue   *)
(* has no more to tell of.                                                 *)
Quiet ==
  /\ [Next]_vars
  /\ BooksInv'
  /\ fills' = fills
  /\ \A q \in Trades, n \in Legs : Ends(q, n) /\ Known(q, n) => Over(q, n)

LEMMA QuietVenued ==
  ASSUME LInv, Quiet, UNCHANGED <<book, waiting, mode>>, NEW q \in Trades
  PROVE  Venued(q)'
<1>0. Venued(q) /\ [Next]_vars /\ BooksInv' /\ fills' = fills /\ now \in Nat
      /\ 0 \in Legs /\ TypeOK
  BY LInvFacts, LegsFacts DEF Quiet
<1>1. /\ \A n : RecordedLots(q, n)' = RecordedLots(q, n)
      /\ \A n : Filled(q, n)' = Filled(q, n)
      /\ \A n : Known(q, n)' <=> Known(q, n)
      /\ \A n : OnMarket(q, n)' <=> OnMarket(q, n)
  BY <1>0 DEF RecordedLots, FillsOf, Filled, Venue!Filled, Known, OnMarket
<1>2. \A n \in Legs : Over(q, n)' <=> Over(q, n)
  BY <1>1 DEF Over
<1>3. now <= now' /\ now' \in Nat /\ sent \subseteq sent'
  BY <1>0, RowsStand
<1>4. ASSUME NEW n \in Legs
      PROVE  BookRow(q, n)'
  <2>1. BookRow(q, n)
    BY <1>0 DEF Venued
  <2>2. \A k \in 1..Filled(q, n) : book[q][n].fillTs[k] \in Nat
    BY BookFacts
  <2>3. \A k \in 1..Filled(q, n) : book[q][n].fillTs[k] <= now'
    BY <1>0, <1>3, <2>1, <2>2 DEF BookRow
  <2> QED BY <1>1, <2>1, <2>3 DEF BookRow
<1>5. WaitingOne(q)'
  BY <1>0, <1>1 DEF Venued, WaitingOne
<1>6. ASSUME NEW n \in Legs
      PROVE  Linked(q, n)'
  <2> SUFFICES ASSUME Known(q, n)
               PROVE  /\ <<q, n>> \in sent'
                      /\ orders'[q][n].status # "none"
                      /\ book[q][n].qty = orders'[q][n].qty
                      /\ RecordedLots(q, n) <= Filled(q, n)
                      /\ orders'[q][n].status \notin Active => Over(q, n)
    BY <1>1, <1>2 DEF Linked
  <2>1. Linked(q, n)
    BY <1>0 DEF Venued
  <2>2. orders'[q][n].status # "none" /\ orders'[q][n].qty = orders[q][n].qty
    BY <1>0, <2>1, RowsStand DEF Linked
  <2>3. orders'[q][n].status \notin Active => Over(q, n)
    BY <2>1 DEF Linked, Quiet, Ends
  <2> QED BY <1>3, <2>1, <2>2, <2>3 DEF Linked
<1>7. LateLots(q)'
  BY <1>0, <1>1 DEF Venued, LateLots
<1>8. mode' = "ready" => Alive(q)' \/ Done(q)'
  <2>1. Alive(q) => Alive(q)'
    BY <1>1 DEF Alive
  <2>2. Done(q) => Done(q)'
    BY <1>0, DoneStands
  <2> QED BY <1>0, <2>1, <2>2 DEF Venued
<1> QED BY <1>4, <1>5, <1>6, <1>7, <1>8 DEF Venued

(* The ledger records the next lot of an order. *)
FillNext(p, n) ==
  /\ RecordedLots(p, n) < Filled(p, n)
  /\ RecordFill(p, n, RecordedLots(p, n) + 1, book[p][n].fillTs[RecordedLots(p, n) + 1])

LEMMA FillNextBooks ==
  ASSUME LInv, NEW p \in Trades, NEW n \in Legs, FillNext(p, n)
  PROVE  /\ Next /\ BooksInv'
         /\ \E ts \in Times : VenueFill(p, n, ts) /\ ts = book[p][n].fillTs[RecordedLots(p, n) + 1]
         /\ RecordedLots(p, n)' = RecordedLots(p, n) + 1
         /\ \A q \in Trades, m \in Legs :
              q # p \/ m # n => RecordedLots(q, m)' = RecordedLots(q, m)
<1> DEFINE ts == book[p][n].fillTs[RecordedLots(p, n) + 1]
<1>1. ts \in Times /\ VenueFill(p, n, ts)
  BY NextLotFits DEF FillNext
<1>2. Next /\ BooksInv /\ TypeOK /\ IInv
  BY <1>1, LInvFacts DEF Next
<1>3. BooksInv' /\ AInv'
  BY <1>2, BooksStep DEF BooksInv
<1>4. /\ RecordedLots(p, n)' = RecordedLots(p, n) + 1
      /\ \A m \in Legs : m # n => RecordedLots(p, m)' = RecordedLots(p, m)
  BY <1>1, <1>2, <1>3, BooksFill
<1>5. ASSUME NEW q \in Trades, q # p, NEW m \in Legs
      PROVE  RecordedLots(q, m)' = RecordedLots(q, m)
  <2>1. SameBook(q)
    BY <1>1, <1>2, <1>5, FillOfAnother
  <2> QED BY <2>1 DEF SameBook, RecordedLots
<1> QED BY <1>1, <1>2, <1>3, <1>4, <1>5

(* An order is filled by its last lot only. *)
LEMMA FilledAtLast ==
  ASSUME IInv, NEW p \in Trades, NEW n \in Legs, NEW ts \in Times, VenueFill(p, n, ts),
         orders'[p][n].status = "filled"
  PROVE  Cardinality(FillsOf(p, n)) + 1 = orders[p][n].qty
<1> DEFINE lot == Cardinality(FillsOf(p, n)) + 1
           reported == FillStatus(lot, orders[p][n].qty)
           from == orders[p][n].status
           to == IF FillProgressRank(reported) > FillProgressRank(from)
                 THEN reported ELSE from
<1>1. orders \in [Trades -> [Legs -> OrderRows]] /\ orders[p][n] \in OrderRows
  BY DEF IInv, TypeOK
<1>2. orders' = [orders EXCEPT ![p][n].status = to]
  BY DEF VenueFill, RecordFill
<1>3. from \in Active
  BY DEF VenueFill, Working
<1> HIDE DEF lot, to
<1>4. orders'[p][n].status = to
  BY <1>1, <1>2 DEF OrderRows
<1>5. reported = "filled"
  BY <1>3, <1>4 DEF to, Active
<1> QED BY <1>5 DEF FillStatus, lot

LEMMA FillVenued ==
  ASSUME LInv, NEW p \in Trades, NEW n \in Legs, FillNext(p, n),
         UNCHANGED <<book, waiting, mode>>, NEW q \in Trades
  PROVE  Venued(q)'
<1> DEFINE k == RecordedLots(p, n) + 1
<1>a. PICK ts \in Times : VenueFill(p, n, ts) /\ ts = book[p][n].fillTs[k]
  BY FillNextBooks
<1>0. /\ Next /\ BooksInv' /\ BooksInv /\ IInv /\ TypeOK /\ Venued(q) /\ 0 \in Legs
      /\ now' = now /\ now \in Nat
      /\ RecordedLots(p, n)' = k
      /\ \A m \in Legs : q # p \/ m # n => RecordedLots(q, m)' = RecordedLots(q, m)
      /\ \A m \in Legs : RecordedLots(p, m) \in Nat /\ Filled(p, m) \in Nat
      /\ k <= Filled(p, n) /\ Known(p, n) /\ Working(p, n)
  <2>1. now' = now
    BY <1>a DEF VenueFill, RecordFill
  <2>2. \A m \in Legs : RecordedLots(p, m) \in Nat /\ Filled(p, m) \in Nat
    BY BookFacts
  <2>3. Known(p, n) /\ Working(p, n)
    BY Unrecorded DEF FillNext
  <2> QED BY <2>1, <2>2, <2>3, FillNextBooks, LInvFacts, LegsFacts DEF FillNext
<1>1. /\ \A m : Filled(q, m)' = Filled(q, m)
      /\ \A m : Known(q, m)' <=> Known(q, m)
      /\ \A m : OnMarket(q, m)' <=> OnMarket(q, m)
  BY DEF Filled, Venue!Filled, Known, OnMarket
<1>2. \A m \in Legs : BookRow(q, m)'
  BY <1>0, <1>1 DEF Venued, BookRow
<1>3. WaitingOne(q)'
  BY <1>0, <1>1 DEF Venued, WaitingOne
<1>4. /\ fills' = Append(fills, [trade |-> p, leg |-> n, lot |-> k, ts |-> ts])
      /\ \A r \in Trades, m \in Legs : r # p \/ m # n => orders'[r][m] = orders[r][m]
      /\ orders'[p][n].qty = orders[p][n].qty
      /\ orders'[p][n].status \in {"partially_filled", "filled"}
      /\ orders'[p][n].status \in Active => k # orders[p][n].qty
      /\ sent' = sent
  BY <1>0, <1>a, VenueFillStep DEF RecordedLots
<1>5. \A i \in DOMAIN fills' : fills'[i].trade = q =>
        \/ i \in DOMAIN fills /\ fills'[i] = fills[i]
        \/ q = p /\ fills'[i].ts = ts
  <2> DEFINE f == [trade |-> p, leg |-> n, lot |-> k, ts |-> ts]
  <2>1. fills \in Seq(FillRows) /\ f \in FillRows /\ f.ts = ts /\ f.trade = p
    BY <1>0, <1>a DEF TypeOK, FillRows
  <2> HIDE DEF f
  <2>2. fills' = Append(fills, f)
    BY <1>4 DEF f
  <2> QED BY <2>1, <2>2
<1>6. ASSUME NEW m \in Legs
      PROVE  Linked(q, m)'
  <2>0. Linked(q, m)
    BY <1>0 DEF Venued
  <2>1. CASE q # p \/ m # n
    <3>1. orders'[q][m] = orders[q][m] /\ RecordedLots(q, m)' = RecordedLots(q, m)
      BY <1>0, <1>4, <2>1
    <3>2. Over(q, m)' <=> Over(q, m)
      BY <1>1, <3>1 DEF Over
    <3> QED BY <1>1, <1>4, <2>0, <3>1, <3>2 DEF Linked
  <2>2. CASE q = p /\ m = n
    <3>1. /\ <<p, n>> \in sent /\ book[p][n].qty = orders'[p][n].qty
          /\ orders'[p][n].status # "none"
      BY <1>0, <1>4, <2>0, <2>2 DEF Linked
    <3>2. RecordedLots(p, n)' <= Filled(p, n)
      BY <1>0
    <3>3. ASSUME orders'[p][n].status \notin Active
          PROVE  Over(p, n)'
      <4>1. orders'[p][n].status = "filled"
        BY <1>4, <3>3 DEF Active
      <4>2. k = orders[p][n].qty
        BY <1>0, <1>a, <4>1, FilledAtLast DEF RecordedLots
      <4>3. book[p][n].qty = k /\ Filled(p, n) <= book[p][n].qty
        BY <1>4, <3>1, <4>2, BookFacts
      <4>4. Filled(p, n) = k /\ book[p][n].qty = Filled(p, n)
        BY <1>0, <4>3
      <4>5. ~OnMarket(p, n)
        BY <1>0, <4>4, BookFacts
      <4> QED BY <1>0, <1>1, <2>2, <4>4, <4>5 DEF Over
    <3> QED BY <1>1, <1>4, <2>2, <3>1, <3>2, <3>3 DEF Linked
  <2> QED BY <2>1, <2>2
<1>7. LateLots(q)'
  <2> SUFFICES ASSUME NEW m \in Legs, NEW j \in Nat,
                      RecordedLots(q, m)' < j, j <= Filled(q, m),
                      NEW i \in DOMAIN fills', fills'[i].trade = q
               PROVE  fills'[i].ts <= book[q][m].fillTs[j]
    BY <1>1 DEF LateLots
  <2>1. RecordedLots(q, m) < j
    BY <1>0
  <2>2. CASE i \in DOMAIN fills /\ fills'[i] = fills[i]
    BY <1>0, <2>1, <2>2 DEF Venued, LateLots
  <2>3. CASE q = p /\ fills'[i].ts = ts
    <3>1. m = n
      <4> SUFFICES ASSUME m # n
                   PROVE  FALSE
        OBVIOUS
      <4>1. Known(p, m)
        BY <1>0, <2>3, BookFacts
      <4>2. Over(p, m)
        BY <2>3, <4>1, Unrecorded DEF FillNext
      <4> QED BY <1>0, <2>1, <2>3, <4>2 DEF Over
    <3>2. k \in 1..j /\ j \in 1..Filled(p, n)
      BY <1>0, <2>1, <2>3, <3>1
    <3>3. BookRow(p, n)
      BY <1>0, <2>3 DEF Venued
    <3> QED BY <1>a, <2>3, <3>1, <3>2, <3>3 DEF BookRow
  <2> QED BY <1>5, <2>2, <2>3
<1>8. mode' = "ready" => Alive(q)' \/ Done(q)'
  <2>1. Alive(q) => Alive(q)'
    BY <1>0, <1>1 DEF Alive
  <2>2. Done(q) => Done(q)'
    BY <1>0, DoneStands
  <2> QED BY <1>0, <2>1, <2>2 DEF Venued
<1> QED BY <1>2, <1>3, <1>6, <1>7, <1>8 DEF Venued

(***************************************************************************)
(* The queue while the book stays.                                         *)
(***************************************************************************)
LEMMA QueueItems ==
  ASSUME LInv, NEW i \in DOMAIN queue, queue[i].type = "update"
  PROVE  /\ queue[i] \in Venue!Updates
         /\ queue[i].trade \in Trades /\ queue[i].leg \in Legs
         /\ queue[i].lot \in Nat
<1>1. queue[i] \in Items
  BY LInvFacts
<1>2. queue[i] \in Venue!Updates
  BY <1>1 DEF Items, Wake
<1> QED BY <1>2, LedgerAssumption DEF Venue!Updates, Venue!Legs, Legs

(* No step forgets a recorded lot. *)
Records ==
  \A p \in Trades, n \in Legs :
    RecordedLots(p, n)' \in Nat /\ RecordedLots(p, n) <= RecordedLots(p, n)'

LEMMA QueueSame ==
  ASSUME LInv, UNCHANGED <<book, queue>>, Records
  PROVE  QueueInv'
<1>1. /\ \A p, n : Filled(p, n)' = Filled(p, n)
      /\ \A i, p, n : IsUpdate(i, p, n)' <=> IsUpdate(i, p, n)
  BY DEF Filled, Venue!Filled, IsUpdate
<1>2. queue' \in Seq(Items) /\ QueueTells' /\ QueueInOrder'
  BY <1>1 DEF LInv, QueueInv, QueueTells, QueueInOrder
<1>3. QueueHolds'
  <2> SUFFICES ASSUME NEW p \in Trades, NEW n \in Legs, NEW k \in Nat,
                      RecordedLots(p, n)' < k, k <= Filled(p, n)
               PROVE  \E i \in DOMAIN queue : IsUpdate(i, p, n) /\ queue[i].lot = k
    BY <1>1 DEF QueueHolds
  <2>1. RecordedLots(p, n) < k
    BY BookFacts DEF Records
  <2> QED BY <2>1 DEF LInv, QueueInv, QueueHolds
<1> QED BY <1>2, <1>3 DEF QueueInv

LEMMA QueueAppend ==
  ASSUME LInv, UNCHANGED book, Records, NEW x \in Items, x.type # "update",
         queue' = Append(queue, x)
  PROVE  QueueInv'
<1>0. /\ queue \in Seq(Items) /\ DOMAIN queue = 1..Len(queue) /\ Len(queue) \in Nat
      /\ QueueTells /\ QueueInOrder /\ QueueHolds
  BY LInvFacts DEF LInv, QueueInv
<1>1. /\ queue' \in Seq(Items)
      /\ DOMAIN queue' = 1..(Len(queue) + 1)
      /\ \A i \in 1..Len(queue) : queue'[i] = queue[i]
      /\ queue'[Len(queue) + 1] = x
  BY <1>0, AppendProperties
<1>2. /\ \A p, n : Filled(p, n)' = Filled(p, n)
      /\ \A i \in DOMAIN queue' : \A p, n :
           IsUpdate(i, p, n)' <=> i \in DOMAIN queue /\ IsUpdate(i, p, n)
      /\ DOMAIN queue \subseteq DOMAIN queue'
      /\ \A i \in DOMAIN queue : queue'[i] = queue[i]
  BY <1>0, <1>1 DEF Filled, Venue!Filled, IsUpdate
<1>3. QueueTells'
  BY <1>0, <1>2 DEF QueueTells
<1>4. QueueInOrder'
  BY <1>0, <1>2 DEF QueueInOrder
<1>5. QueueHolds'
  <2> SUFFICES ASSUME NEW p \in Trades, NEW n \in Legs, NEW k \in Nat,
                      RecordedLots(p, n)' < k, k <= Filled(p, n)
               PROVE  \E i \in DOMAIN queue' : IsUpdate(i, p, n)' /\ queue'[i].lot = k
    BY <1>2 DEF QueueHolds
  <2>1. RecordedLots(p, n) < k
    BY BookFacts DEF Records
  <2>2. PICK i \in DOMAIN queue : IsUpdate(i, p, n) /\ queue[i].lot = k
    BY <1>0, <2>1 DEF QueueHolds
  <2> QED BY <1>2, <2>2
<1> QED BY <1>1, <1>3, <1>4, <1>5 DEF QueueInv

LEMMA QueueTail ==
  ASSUME LInv, UNCHANGED book, Records, queue # <<>>, queue' = Tail(queue),
         \A p \in Trades, n \in Legs :
           IsUpdate(1, p, n) => queue[1].lot <= RecordedLots(p, n)'
  PROVE  QueueInv'
<1>0. /\ queue \in Seq(Items) /\ DOMAIN queue = 1..Len(queue) /\ Len(queue) \in Nat
      /\ QueueTells /\ QueueInOrder /\ QueueHolds /\ Len(queue) # 0
  BY LInvFacts DEF LInv, QueueInv
<1>1. /\ queue' \in Seq(Items)
      /\ DOMAIN queue' = 1..(Len(queue) - 1)
      /\ \A i \in 1..(Len(queue) - 1) : queue'[i] = queue[i + 1]
  BY <1>0
<1>2. /\ \A p, n : Filled(p, n)' = Filled(p, n)
      /\ \A i \in DOMAIN queue' : \A p, n : IsUpdate(i, p, n)' <=> IsUpdate(i + 1, p, n)
      /\ \A i \in DOMAIN queue' : i + 1 \in DOMAIN queue /\ queue'[i] = queue[i + 1]
      /\ \A i, j \in DOMAIN queue' : i < j => i + 1 < j + 1
  BY <1>0, <1>1 DEF Filled, Venue!Filled, IsUpdate
<1>3. QueueTells'
  BY <1>0, <1>2 DEF QueueTells
<1>4. QueueInOrder'
  BY <1>0, <1>2 DEF QueueInOrder
<1>5. QueueHolds'
  <2> SUFFICES ASSUME NEW p \in Trades, NEW n \in Legs, NEW k \in Nat,
                      RecordedLots(p, n)' < k, k <= Filled(p, n)
               PROVE  \E i \in DOMAIN queue' : IsUpdate(i, p, n)' /\ queue'[i].lot = k
    BY <1>2 DEF QueueHolds
  <2>1. RecordedLots(p, n) < k
    BY BookFacts DEF Records
  <2>2. PICK i \in DOMAIN queue : IsUpdate(i, p, n) /\ queue[i].lot = k
    BY <1>0, <2>1 DEF QueueHolds
  <2>3. i # 1
    <3> SUFFICES ASSUME i = 1
                 PROVE  FALSE
      OBVIOUS
    <3>1. k <= RecordedLots(p, n)' /\ RecordedLots(p, n)' \in Nat
      BY <2>2 DEF Records
    <3> QED BY <3>1
  <2>4. i - 1 \in DOMAIN queue' /\ (i - 1) + 1 = i
    BY <1>0, <1>1, <2>3
  <2> QED BY <1>2, <2>2, <2>4
<1> QED BY <1>1, <1>3, <1>4, <1>5 DEF QueueInv

(* The update at the head of the queue is the next of its order: a lot     *)
(* that is recorded already or the first one that is not ...               *)
LEMMA HeadLot ==
  ASSUME LInv, queue # <<>>, NEW p \in Trades, NEW n \in Legs, IsUpdate(1, p, n),
         queue[1].lot > 0, queue[1].lot > RecordedLots(p, n)
  PROVE  /\ queue[1].lot = RecordedLots(p, n) + 1
         /\ RecordedLots(p, n) < Filled(p, n)
         /\ queue[1].ts = book[p][n].fillTs[RecordedLots(p, n) + 1]
<1>0. /\ 1 \in DOMAIN queue /\ DOMAIN queue = 1..Len(queue) /\ Len(queue) \in Nat
      /\ QueueTells /\ QueueInOrder /\ QueueHolds
      /\ RecordedLots(p, n) \in Nat /\ Filled(p, n) \in Nat
      /\ queue[1].lot \in Nat
  <2>1. 1 \in DOMAIN queue
    BY LInvFacts
  <2>2. queue[1].lot \in Nat
    BY <2>1, QueueItems DEF IsUpdate
  <2> QED BY <2>1, <2>2, LInvFacts, BookFacts DEF LInv, QueueInv
<1>1. queue[1].lot <= Filled(p, n) /\ queue[1].ts = book[p][n].fillTs[queue[1].lot]
  BY <1>0 DEF QueueTells
<1>2. queue[1].lot = RecordedLots(p, n) + 1
  <2> SUFFICES ASSUME queue[1].lot # RecordedLots(p, n) + 1
               PROVE  FALSE
    OBVIOUS
  <2> DEFINE k == RecordedLots(p, n) + 1
  <2>1. k \in Nat /\ RecordedLots(p, n) < k /\ k < queue[1].lot /\ k <= Filled(p, n) /\ k # 0
    BY <1>0, <1>1
  <2> HIDE DEF k
  <2>2. PICK i \in DOMAIN queue : IsUpdate(i, p, n) /\ queue[i].lot = k
    BY <1>0, <2>1 DEF QueueHolds
  <2>3. i # 1
    BY <1>0, <2>1, <2>2
  <2>4. 1 < i
    BY <1>0, <2>3
  <2>5. queue[1].lot < k
    BY <1>0, <2>1, <2>2, <2>4 DEF QueueInOrder
  <2> QED BY <1>0, <2>1, <2>5
<1> QED BY <1>0, <1>1, <1>2

(* ... or the cancellation of an order whose lots are all recorded.        *)
LEMMA HeadCancellation ==
  ASSUME LInv, queue # <<>>, NEW p \in Trades, NEW n \in Legs, IsUpdate(1, p, n),
         queue[1].lot = 0
  PROVE  Known(p, n) /\ Over(p, n)
<1>0. /\ 1 \in DOMAIN queue /\ DOMAIN queue = 1..Len(queue) /\ Len(queue) \in Nat
      /\ QueueTells /\ QueueInOrder /\ QueueHolds
      /\ RecordedLots(p, n) \in Nat /\ Filled(p, n) \in Nat
      /\ Venued(p)
  BY LInvFacts, BookFacts DEF LInv, QueueInv
<1>1. book[p][n].status = "cancelled"
  BY <1>0 DEF QueueTells
<1>2. Known(p, n) /\ ~OnMarket(p, n)
  BY <1>1 DEF Known, OnMarket, Venue!Open
<1>3. RecordedLots(p, n) <= Filled(p, n)
  BY <1>0, <1>2 DEF Venued, Linked
<1>4. ~(RecordedLots(p, n) < Filled(p, n))
  <2> SUFFICES ASSUME RecordedLots(p, n) < Filled(p, n)
               PROVE  FALSE
    OBVIOUS
  <2>1. PICK i \in DOMAIN queue : IsUpdate(i, p, n) /\ queue[i].lot = Filled(p, n)
    BY <1>0 DEF QueueHolds
  <2>2. i # 1
    BY <1>0, <2>1
  <2>3. 1 < i
    BY <1>0, <2>2
  <2> QED BY <1>0, <2>1, <2>3 DEF QueueInOrder
<1> QED BY <1>0, <1>2, <1>3, <1>4 DEF Over

(***************************************************************************)
(* The worker's transactions, Portfolio State's and the clock, as steps of *)
(* the ledger.                                                             *)
(***************************************************************************)
(* The venue never saw an order that ends unsent. *)
LEMMA UnsentUnknown ==
  ASSUME LInv, BooksInv', [Next]_vars, NEW q \in Trades, NEW n \in Legs, EndsUnsent(q, n)
  PROVE  ~Known(q, n)
<1>1. TradeInv(q)'
  BY DEF BooksInv, AInv, IInv
<1>2. <<q, n>> \notin sent'
  BY <1>1 DEF TradeInv, WindowClosedUnsent, EndsUnsent
<1>3. <<q, n>> \notin sent
  BY <1>2, RowsStand
<1> QED BY <1>3, LInvFacts DEF Venued, Linked

LEMMA QuietStep ==
  ASSUME LInv, Next, fills' = fills,
         \A q \in Trades, n \in Legs :
           Ends(q, n) => EndsUnsent(q, n) \/ (Known(q, n) => Over(q, n))
  PROVE  Quiet
<1>1. BooksInv' /\ BooksInv /\ TypeOK
  BY BooksStep, LInvFacts
<1>2. \A q \in Trades, n \in Legs : EndsUnsent(q, n) => ~Known(q, n)
  BY <1>1, UnsentUnknown
<1> QED BY <1>1, <1>2 DEF Quiet

LEMMA NoChangeQuiet ==
  ASSUME LInv, UNCHANGED ledgerVars
  PROVE  Quiet
<1>1. [Next]_vars /\ UNCHANGED vars
  BY DEF ledgerVars
<1>2. BooksInv'
  BY <1>1, BooksStep, LInvFacts
<1>3. \A q, n : ~Ends(q, n)
  BY <1>1 DEF vars, Ends
<1> QED BY <1>1, <1>2, <1>3 DEF Quiet, vars

LEMMA InsertQuiet ==
  ASSUME LInv, NEW p \in Trades, InsertEntry(p)
  PROVE  Quiet
<1>1. \A q \in Trades, n \in Legs : ~Ends(q, n)
  BY LInvFacts, LegsFacts DEF InsertEntry, Ends, NoOrder, Active
<1> QED BY <1>1, QuietStep DEF InsertEntry, Next

(* A rejected order has nothing in the market and no lot. *)
LEMMA RejectedOver ==
  ASSUME LInv, NEW p \in Trades, NEW n \in Legs, book[p][n].status = "rejected"
  PROVE  Over(p, n)
<1>1. Filled(p, n) = 0 /\ ~OnMarket(p, n) /\ Known(p, n)
  BY LInvFacts DEF Venued, BookRow, OnMarket, Venue!Open, Known
<1>2. RecordedLots(p, n) <= 0 /\ RecordedLots(p, n) \in Nat
  BY <1>1, LInvFacts, BookFacts DEF Venued, Linked
<1> QED BY <1>1, <1>2 DEF Over

LEMMA EntryStatusQuiet ==
  ASSUME LInv, NEW p \in Trades, NEW s \in {"submitted", "rejected"},
         s = "rejected" => book[p][0].status = "rejected",
         EntryStatusTx(p, s)
  PROVE  Quiet
<1>1. CASE UNCHANGED ledgerVars
  BY <1>1, NoChangeQuiet
<1>2. CASE UpdateEntryStatus(p, s)
  <2>1. Next /\ fills' = fills
    BY <1>2 DEF UpdateEntryStatus, Next
  <2>2. ASSUME NEW q \in Trades, NEW n \in Legs, Ends(q, n)
        PROVE  Known(q, n) => Over(q, n)
    <3>1. q = p /\ n = 0 /\ orders'[p][0].status = s
      BY <1>2, <2>2, LInvFacts, LegsFacts DEF UpdateEntryStatus, Ends, OrderRows
    <3>2. book[p][0].status = "rejected"
      BY <2>2, <3>1 DEF Ends, Active
    <3> QED BY <3>1, <3>2, RejectedOver, LegsFacts
  <2> QED BY <2>1, <2>2, QuietStep
<1> QED BY <1>1, <1>2 DEF EntryStatusTx, NoChange

LEMMA StatusQuiet ==
  ASSUME LInv, NEW p \in Trades, NEW l \in Legs,
         NEW s \in {"submitted", "cancelled", "rejected"},
         orders[p][l].status # "none" => <<p, l>> \in sent,
         s = "submitted" \/ (Known(p, l) => Over(p, l)),
         SetStatusTx(p, l, s)
  PROVE  Quiet
<1>1. CASE UNCHANGED ledgerVars
  BY <1>1, NoChangeQuiet
<1>2. CASE StatusChanges(p, l, s) /\ SetStatus(p, l, s)
  <2>0. s \in Active \cup Terminal /\ IInv
    BY LInvFacts DEF Active, Terminal
  <2>1. orders[p][l].status \in Active
    BY <1>2 DEF StatusChanges, StatusAllowed, Active
  <2>2. ReportStatus(p, l, s)
    BY <1>2, <2>1 DEF ReportStatus, Working, Active
  <2>3. Next /\ fills' = fills
    BY <1>2, <2>0, <2>2 DEF Next, SetStatus
  <2>4. \A q \in Trades, n \in Legs :
          Ends(q, n) => EndsUnsent(q, n) \/ (Known(q, n) => Over(q, n))
    <3> TAKE q \in Trades, n \in Legs
    <3>1. \/ orders'[q][n].status = IF q = p /\ n = l THEN s ELSE orders[q][n].status
          \/ EndsUnsent(q, n)
      BY <1>2, <2>0, StatusAlters
    <3> QED BY <1>2, <3>1 DEF Ends, Active
  <2> QED BY <2>3, <2>4, QuietStep
<1> QED BY <1>1, <1>2 DEF SetStatusTx, NoChange

LEMMA ObserveQuiet ==
  ASSUME LInv, NEW p \in Trades, NEW r \in ExitReasons, NEW ts \in Times,
         ObserveExit(p, r, ts, TRUE)
  PROVE  Quiet
<1>1. Next /\ fills' = fills
  BY DEF Next, ObserveExit
<1>2. \A q \in Trades, n \in Legs : Ends(q, n) => EndsUnsent(q, n)
  BY LInvFacts, EndsAlters, ObserveAlters
<1> QED BY <1>1, <1>2, QuietStep

LEMMA PrepareQuiet ==
  ASSUME LInv, NEW p \in Trades, PrepareExit(p)
  PROVE  Quiet
<1>1. Next /\ fills' = fills
  BY DEF Next, PrepareExit
<1>2. \A q \in Trades, n \in Legs : Ends(q, n) => EndsUnsent(q, n)
  BY LInvFacts, EndsAlters, PrepareAlters
<1> QED BY <1>1, <1>2, QuietStep

LEMMA ClaimQuiet ==
  ASSUME LInv, NEW p \in Trades, NEW l \in CloseLegs, ClaimDispatch(p, l)
  PROVE  Quiet
<1>1. Next /\ fills' = fills
  BY DEF Next, ClaimDispatch
<1>2. \A q \in Trades, n \in Legs : Ends(q, n) => EndsUnsent(q, n)
  BY LInvFacts, EndsAlters, ClaimAlters
<1> QED BY <1>1, <1>2, QuietStep

LEMMA CommitQuiet ==
  ASSUME LInv, CommitFill
  PROVE  Quiet
<1>1. \A q \in Trades, n \in Legs : ~Ends(q, n)
  BY DEF CommitFill, Ends
<1> QED BY <1>1, QuietStep DEF CommitFill, Next

LEMMA TickQuiet ==
  ASSUME LInv, Tick
  PROVE  Quiet
<1>1. \A q \in Trades, n \in Legs : ~Ends(q, n)
  BY DEF Tick, Ends
<1> QED BY <1>1, QuietStep DEF Tick, Next

LEMMA QuietRecords ==
  ASSUME LInv, Quiet
  PROVE  /\ Records
         /\ \A q, n : RecordedLots(q, n)' = RecordedLots(q, n)
<1>1. \A q, n : RecordedLots(q, n)' = RecordedLots(q, n)
  BY DEF Quiet, RecordedLots, FillsOf
<1>2. \A q \in Trades, n \in Legs : RecordedLots(q, n) \in Nat
  BY BookFacts
<1> QED BY <1>1, <1>2 DEF Records

LEMMA FillRecords ==
  ASSUME LInv, NEW p \in Trades, NEW n \in Legs, FillNext(p, n)
  PROVE  Records
<1>1. \A q \in Trades, m \in Legs : RecordedLots(q, m) \in Nat
  BY BookFacts
<1> QED BY <1>1, FillNextBooks DEF Records

(* A lot that is recorded already, or the first one that is not. *)
LEMMA FillTxNext ==
  ASSUME LInv, NEW u, u.trade \in Trades, u.leg \in Legs, u.lot \in Nat \ {0},
         u.lot > RecordedLots(u.trade, u.leg) =>
           /\ u.lot = RecordedLots(u.trade, u.leg) + 1
           /\ RecordedLots(u.trade, u.leg) < Filled(u.trade, u.leg)
           /\ u.ts = book[u.trade][u.leg].fillTs[RecordedLots(u.trade, u.leg) + 1],
         RecordFillTx(u)
  PROVE  /\ \/ UNCHANGED ledgerVars /\ u.lot <= RecordedLots(u.trade, u.leg)
            \/ FillNext(u.trade, u.leg) /\ u.lot = RecordedLots(u.trade, u.leg) + 1
         /\ [Next]_vars /\ Records
         /\ u.lot <= RecordedLots(u.trade, u.leg)'
<1>0. BooksInv /\ RecordedLots(u.trade, u.leg) \in Nat
  BY LInvFacts, BookFacts
<1>1. Recorded(u.trade, u.leg, u.lot) <=> u.lot <= RecordedLots(u.trade, u.leg)
  BY <1>0, RecordedIff
<1>2. CASE Recorded(u.trade, u.leg, u.lot)
  <2>1. UNCHANGED ledgerVars
    BY <1>2 DEF RecordFillTx, NoChange
  <2>2. Quiet /\ [Next]_vars
    BY <2>1, NoChangeQuiet DEF Quiet
  <2> QED BY <1>1, <1>2, <2>1, <2>2, QuietRecords
<1>3. CASE ~Recorded(u.trade, u.leg, u.lot)
  <2>1. u.lot > RecordedLots(u.trade, u.leg)
    BY <1>0, <1>1, <1>3
  <2>2. FillNext(u.trade, u.leg) /\ u.lot = RecordedLots(u.trade, u.leg) + 1
    BY <1>3, <2>1 DEF RecordFillTx, FillNext
  <2> QED BY <2>2, FillNextBooks, FillRecords
<1> QED BY <1>2, <1>3

(***************************************************************************)
(* The worker's steps that leave the book alone.                           *)
(***************************************************************************)
LEMMA LedgerQuietKeeps ==
  ASSUME LInv, Quiet, UNCHANGED <<bookVars, mode>>,
         mode = "ready" \/ UNCHANGED <<worker, queue>>,
         QueueInv', worker' \in WorkerStates, WorkerInv', PendingInv'
  PROVE  LInv' /\ [Next]_vars
<1>1. BooksInv' /\ [Next]_vars
  BY DEF Quiet
<1>2. UNCHANGED <<connected, listening, book, waiting, mode>>
  BY DEF bookVars
<1>3. \A p \in Trades : Venued(p)'
  BY <1>2, QuietVenued
<1>4. BookTypes' /\ Modes'
  BY <1>2 DEF LInv, BookTypes, Modes
<1> QED BY <1>1, <1>3, <1>4 DEF LInv

LEMMA LedgerFillKeeps ==
  ASSUME LInv, NEW p \in Trades, NEW n \in Legs, FillNext(p, n),
         UNCHANGED <<bookVars, mode>>, mode = "ready",
         QueueInv', worker' \in WorkerStates, WorkerInv', PendingInv'
  PROVE  LInv'
<1>1. BooksInv'
  BY FillNextBooks
<1>2. UNCHANGED <<connected, listening, book, waiting, mode>>
  BY DEF bookVars
<1>3. \A q \in Trades : Venued(q)'
  BY <1>2, FillVenued
<1>4. BookTypes' /\ Modes'
  BY <1>2 DEF LInv, BookTypes, Modes
<1> QED BY <1>1, <1>3, <1>4 DEF LInv

LEMMA QueueKept ==
  ASSUME LInv, Quiet, UNCHANGED <<bookVars, queue>>
  PROVE  QueueInv'
BY QuietRecords, QueueSame DEF bookVars

LEMMA PendingKept ==
  ASSUME LInv, UNCHANGED pending
  PROVE  PendingInv'
BY DEF LInv, PendingInv

(* A worker between two of its tasks holds nothing. *)
LEMMA WorkerFree ==
  ASSUME worker'.step \in {"idle", "service", "cancel_entry"}
  PROVE  WorkerInv'
BY DEF WorkerInv

LEMMA IdleState ==
  /\ Idle \in WorkerStates /\ Idle.step = "idle"
  /\ \A t \in SUBSET Trades : Servicing(t) \in WorkerStates /\ Servicing(t).step = "service"
  /\ \A p \in Trades : [step |-> "place_entry", trade |-> p] \in WorkerStates
<1>1. \A p \in Trades : [step |-> "place_entry", trade |-> p] \in
        [step : {"place_entry"}, trade : Trades]
  OBVIOUS
<1> QED BY <1>1 DEF WorkerStates, Idle, Servicing

LEMMA NextPositionFree ==
  ASSUME worker \in WorkerStates, NextPosition,
         worker.step \in {"cancel_entry", "claim", "place_close", "ack_close", "record_entry"}
  PROVE  worker' \in WorkerStates /\ WorkerInv'
<1>1. worker.todo \ {worker.trade} \in SUBSET Trades
  BY WorkerFields
<1>2. worker' = Servicing(worker.todo \ {worker.trade})
  BY DEF NextPosition
<1> QED BY <1>1, <1>2, IdleState, WorkerFree

LEMMA AckEntryKeeps ==
  ASSUME LInv, AckEntry
  PROVE  LInv' /\ [Next]_vars
<1> DEFINE p == worker.trade
<1>1. /\ worker \in WorkerStates /\ WorkerInv /\ worker.step = "ack_entry" /\ mode = "ready"
      /\ UNCHANGED <<bookVars, queue, pending, mode>> /\ worker' = Idle
      /\ EntryStatusTx(p, worker.ack) \/ UNCHANGED ledgerVars
  BY DEF LInv, AckEntry, WorkerAt, DbStep, venueVars, bookVars
<1>2. p \in Trades /\ worker.ack \in {"submitted", "rejected"}
      /\ (worker.ack = "rejected" => book[p][0].status = "rejected")
  BY <1>1, WorkerFields DEF WorkerInv
<1>3. Quiet
  BY <1>1, <1>2, EntryStatusQuiet, NoChangeQuiet
<1>4. worker' \in WorkerStates /\ WorkerInv'
  BY <1>1, IdleState, WorkerFree
<1> QED BY <1>1, <1>3, <1>4, LedgerQuietKeeps, QueueKept, PendingKept

LEMMA AckCloseKeeps ==
  ASSUME LInv, AckClose
  PROVE  LInv' /\ [Next]_vars
<1> DEFINE p == worker.trade
           n == worker.leg
<1>1. /\ worker \in WorkerStates /\ WorkerInv /\ worker.step = "ack_close" /\ mode = "ready"
      /\ UNCHANGED <<bookVars, queue, pending, mode>> /\ NextPosition
      /\ SetStatusTx(p, n, worker.ack) \/ UNCHANGED ledgerVars
  BY DEF LInv, AckClose, WorkerAt, DbStep, venueVars, bookVars
<1>2. p \in Trades /\ n \in Legs /\ worker.ack \in {"submitted", "rejected"}
      /\ (worker.ack = "rejected" => book[p][n].status = "rejected")
      /\ <<p, n>> \in sent
  BY <1>1, WorkerFields DEF WorkerInv
<1>3. worker.ack = "submitted" \/ Over(p, n)
  BY <1>2, RejectedOver
<1>4. Quiet
  BY <1>1, <1>2, <1>3, StatusQuiet, NoChangeQuiet
<1>5. worker' \in WorkerStates /\ WorkerInv'
  BY <1>1, NextPositionFree
<1> QED BY <1>1, <1>4, <1>5, LedgerQuietKeeps, QueueKept, PendingKept

LEMMA EntryCancelledKeeps ==
  ASSUME LInv, EntryCancelled
  PROVE  LInv' /\ [Next]_vars
<1> DEFINE p == worker.trade
<1>1. /\ worker \in WorkerStates /\ WorkerInv /\ worker.step = "record_entry" /\ mode = "ready"
      /\ worker.lots = <<>>
      /\ UNCHANGED <<bookVars, queue, pending, mode>> /\ NextPosition
      /\ SetStatusTx(p, 0, "cancelled") \/ UNCHANGED ledgerVars
  BY DEF LInv, EntryCancelled, WorkerAt, DbStep, venueVars, bookVars, NoChange
<1>2. p \in Trades /\ 0 \in Legs
  BY <1>1, WorkerFields, LegsFacts
<1>3. orders[p][0].status # "none" => <<p, 0>> \in sent
  BY <1>2, LInvFacts DEF Books, EntryRow
<1>4. Known(p, 0) => Over(p, 0)
  <2>1. ReadBack(p, worker.lots) /\ Len(worker.lots) = 0
    BY <1>1 DEF WorkerInv
  <2>2. ~OnMarket(p, 0) /\ Filled(p, 0) <= RecordedLots(p, 0)
    BY <1>2, <2>1, BookFacts DEF ReadBack
  <2>3. Known(p, 0) => RecordedLots(p, 0) <= Filled(p, 0)
    BY <1>2, LInvFacts DEF Venued, Linked
  <2> QED BY <1>2, <2>2, <2>3, BookFacts DEF Over
<1>5. Quiet
  BY <1>1, <1>2, <1>3, <1>4, StatusQuiet, NoChangeQuiet
<1>6. worker' \in WorkerStates /\ WorkerInv'
  BY <1>1, NextPositionFree
<1> QED BY <1>1, <1>5, <1>6, LedgerQuietKeeps, QueueKept, PendingKept

LEMMA HeadItem ==
  ASSUME LInv, NEW type, Take(type)
  PROVE  /\ worker = Idle /\ mode = "ready" /\ queue # <<>> /\ queue' = Tail(queue)
         /\ queue[1] = Head(queue) /\ queue[1] \in Items /\ 1 \in DOMAIN queue
         /\ queue[1].type = type
<1>1. worker \in WorkerStates /\ worker.step = "idle" /\ mode = "ready"
  BY DEF LInv, Take, WorkerAt
<1>2. worker = Idle
  BY <1>1, WorkerFields
<1> QED BY <1>1, <1>2, LInvFacts DEF Take

(* An item that tells of no lot leaves the queue. *)
LEMMA QueueTook ==
  ASSUME LInv, Records, UNCHANGED bookVars, queue # <<>>, queue' = Tail(queue),
         queue[1].type # "update" \/ queue[1].lot = 0
  PROVE  QueueInv'
<1>1. \A p \in Trades, n \in Legs : RecordedLots(p, n)' \in Nat
  BY DEF Records
<1>2. \A p \in Trades, n \in Legs :
        IsUpdate(1, p, n) => queue[1].lot <= RecordedLots(p, n)'
  BY <1>1 DEF IsUpdate
<1> QED BY <1>2, QueueTail DEF bookVars

LEMMA TakeApprovalKeeps ==
  ASSUME LInv, TakeApproval
  PROVE  LInv' /\ [Next]_vars
<1> DEFINE p == Head(queue).trade
<1>1. /\ worker = Idle /\ mode = "ready" /\ queue # <<>> /\ queue' = Tail(queue)
      /\ queue[1] = Head(queue) /\ queue[1] \in Items /\ queue[1].type = "approved"
  BY HeadItem DEF TakeApproval
<1>2. p \in Trades
  BY <1>1 DEF Items, Wake, Venue!Updates
<1>3. UNCHANGED <<bookVars, pending, mode>>
  BY DEF TakeApproval
<1>4. \/ /\ InsertEntry(p) \/ UNCHANGED ledgerVars
         /\ worker' = worker
      \/ /\ InsertEntry(p)
         /\ worker' = [step |-> "place_entry", trade |-> p]
  BY DEF TakeApproval, DbStep, NoChange
<1>5. Quiet
  BY <1>2, <1>4, InsertQuiet, NoChangeQuiet
<1>6. QueueInv'
  BY <1>1, <1>3, <1>5, QuietRecords, QueueTook
<1>7. worker' \in WorkerStates /\ WorkerInv'
  <2>1. CASE worker' = worker
    BY <1>1, <2>1, IdleState, WorkerFree
  <2>2. CASE InsertEntry(p) /\ worker' = [step |-> "place_entry", trade |-> p]
    <3>1. orders'[p][0].status = "approved"
      BY <1>2, <2>2, LInvFacts, LegsFacts DEF InsertEntry, NoOrder
    <3>2. worker'.step = "place_entry" /\ worker'.trade = p
      BY <2>2
    <3>3. WorkerInv'
      BY <3>1, <3>2 DEF WorkerInv
    <3> QED BY <1>2, <2>2, <3>3, IdleState
  <2> QED BY <1>4, <2>1, <2>2
<1> QED BY <1>1, <1>3, <1>5, <1>6, <1>7, LedgerQuietKeeps, PendingKept

LEMMA TakeUpdateKeeps ==
  ASSUME LInv, TakeUpdate, "record_fill" \notin FaultySteps
  PROVE  LInv' /\ [Next]_vars
<1>u. PICK u : u = Head(queue)
  OBVIOUS
<1> DEFINE p == u.trade
           n == u.leg
<1>1. /\ worker = Idle /\ mode = "ready" /\ queue # <<>> /\ queue' = Tail(queue)
      /\ queue[1] = u /\ 1 \in DOMAIN queue /\ queue[1].type = "update"
  BY <1>u, HeadItem DEF TakeUpdate
<1>2. /\ p \in Trades /\ n \in Legs /\ u.lot \in Nat
      /\ IsUpdate(1, p, n)
      /\ \A q, m : IsUpdate(1, q, m) => q = p /\ m = n
  BY <1>1, QueueItems DEF IsUpdate
<1>3. UNCHANGED <<bookVars, pending, mode, worker>>
  BY DEF TakeUpdate, DbStep
<1>4. worker' \in WorkerStates /\ WorkerInv' /\ PendingInv'
  BY <1>1, <1>3, IdleState, WorkerFree, PendingKept
<1>5. CASE u.lot > 0
  <2>1. RecordFillTx(u)
    BY <1>5, <1>u DEF TakeUpdate, DbStep
  <2>2. u.lot > RecordedLots(p, n) =>
           /\ u.lot = RecordedLots(p, n) + 1
           /\ RecordedLots(p, n) < Filled(p, n)
           /\ u.ts = book[p][n].fillTs[RecordedLots(p, n) + 1]
    BY <1>1, <1>2, <1>5, HeadLot
  <2>a. u.lot \in Nat \ {0}
    BY <1>2, <1>5
  <2>3. /\ \/ UNCHANGED ledgerVars /\ u.lot <= RecordedLots(p, n)
           \/ FillNext(p, n) /\ u.lot = RecordedLots(p, n) + 1
        /\ [Next]_vars /\ Records
        /\ u.lot <= RecordedLots(p, n)'
    BY <1>2, <2>a, <2>1, <2>2, FillTxNext
  <2>b. \A q \in Trades, m \in Legs :
          IsUpdate(1, q, m) => queue[1].lot <= RecordedLots(q, m)'
    BY <1>1, <1>2, <2>3
  <2>4. QueueInv'
    BY <1>1, <1>3, <2>3, <2>b, QueueTail DEF bookVars
  <2>5. CASE UNCHANGED ledgerVars
    BY <1>1, <1>3, <1>4, <2>4, <2>5, NoChangeQuiet, LedgerQuietKeeps
  <2>6. CASE FillNext(p, n)
    BY <1>1, <1>2, <1>3, <1>4, <2>3, <2>4, <2>6, LedgerFillKeeps
  <2> QED BY <2>3, <2>5, <2>6
<1>6. CASE u.lot = 0
  <2>1. SetStatusTx(p, n, "cancelled") \/ UNCHANGED ledgerVars
    BY <1>6, <1>u DEF TakeUpdate, DbStep
  <2>2. Known(p, n) /\ Over(p, n)
    BY <1>1, <1>2, <1>6, HeadCancellation
  <2>3. <<p, n>> \in sent
    BY <1>2, <2>2, LInvFacts DEF Venued, Linked
  <2>4. Quiet
    BY <1>2, <2>1, <2>2, <2>3, StatusQuiet, NoChangeQuiet
  <2>5. QueueInv'
    BY <1>1, <1>3, <1>6, <2>4, QuietRecords, QueueTook
  <2> QED BY <1>1, <1>3, <1>4, <2>4, <2>5, LedgerQuietKeeps
<1> QED BY <1>2, <1>5, <1>6

LEMMA BeginObservationsKeeps ==
  ASSUME LInv, BeginObservations
  PROVE  LInv' /\ [Next]_vars
<1>1. /\ UNCHANGED <<ledgerVars, bookVars, pending, mode>> /\ mode = "ready"
      /\ worker' = [step |-> "observe", left |-> [p \in Trades |-> Len(pending[p])]]
      /\ UNCHANGED queue \/ Take("wake")
  BY DEF BeginObservations, WorkerAt
<1>2. Quiet
  BY <1>1, NoChangeQuiet
<1>3. QueueInv'
  <2>1. CASE Take("wake")
    <3>1. queue # <<>> /\ queue' = Tail(queue) /\ queue[1].type = "wake"
      BY <2>1, HeadItem
    <3> QED BY <1>1, <1>2, <3>1, QuietRecords, QueueTook
  <2> QED BY <1>1, <1>2, <2>1, QueueKept
<1>4. worker' \in WorkerStates /\ WorkerInv'
  <2>a. \A p \in Trades : pending[p] \in Seq(Intents) /\ Len(pending[p]) <= 2
    BY DEF LInv, PendingInv
  <2>b. \A p \in Trades : Len(pending[p]) \in Nat
    BY <2>a
  <2>1. \A p \in Trades : Len(pending[p]) \in 0..2
    <3> TAKE p \in Trades
    <3>1. Len(pending[p]) \in Nat /\ Len(pending[p]) <= 2
      BY <2>a, <2>b
    <3> DEFINE l == Len(pending[p])
    <3>2. l \in Nat /\ l <= 2
      BY <3>1
    <3> HIDE DEF l
    <3>3. l \in 0..2
      BY <3>2
    <3> QED BY <3>3 DEF l
  <2>2. /\ worker' \in [step : {"observe"}, left : [Trades -> 0..2]]
        /\ worker'.step = "observe"
        /\ \A p \in Trades : worker'.left[p] = Len(pending[p])
    BY <1>1, <2>1
  <2>3. \A p \in Trades : worker'.left[p] <= Len(pending'[p])
    BY <1>1, <2>1, <2>2
  <2>4. WorkerInv'
    BY <2>2, <2>3 DEF WorkerInv
  <2> QED BY <2>2, <2>4 DEF WorkerStates
<1> QED BY <1>1, <1>2, <1>3, <1>4, LedgerQuietKeeps, PendingKept

LEMMA ObserveOneKeeps ==
  ASSUME LInv, NEW p \in Trades, ObserveOne(p)
  PROVE  LInv' /\ [Next]_vars
<1> DEFINE intent == Head(pending[p])
           done == /\ worker' = [worker EXCEPT !.left[p] = @ - 1]
                   /\ pending' = [pending EXCEPT ![p] = Tail(@)]
           keep == worker' = [worker EXCEPT !.left[p] = 0] /\ UNCHANGED pending
<1>1. /\ worker.step = "observe" /\ mode = "ready" /\ worker.left[p] > 0
      /\ UNCHANGED <<bookVars, queue, mode>>
      /\ ObserveExit(p, intent.reason, intent.ts, TRUE) \/ UNCHANGED ledgerVars
      /\ done \/ keep
  BY DEF ObserveOne, WorkerAt, DbStep, venueVars, bookVars
<1>2. /\ worker.left \in [Trades -> 0..2]
      /\ worker = [step |-> "observe", left |-> worker.left]
      /\ \A q \in Trades : worker.left[q] <= Len(pending[q])
      /\ pending \in [Trades -> Seq(Intents)]
      /\ \A q \in Trades : Len(pending[q]) \in Nat /\ Len(pending[q]) <= 2
  BY <1>1, WorkerFields DEF LInv, WorkerInv, PendingInv
<1>3. pending[p] # <<>> /\ intent \in Intents
  BY <1>1, <1>2
<1>4. Quiet
  <2>1. intent.reason \in ExitReasons /\ intent.ts \in Times
    BY <1>3 DEF Intents
  <2> QED BY <1>1, <2>1, ObserveQuiet, NoChangeQuiet
<1>l. PICK w \in [Trades -> 0..2] : w = worker.left /\ worker = [step |-> "observe", left |-> w]
  BY <1>2
<1>5. ASSUME NEW left \in [Trades -> 0..2],
             worker' = [step |-> "observe", left |-> left],
             \A q \in Trades : left[q] <= Len(pending'[q])
      PROVE  worker' \in WorkerStates /\ WorkerInv'
  <2>1. worker' \in [step : {"observe"}, left : [Trades -> 0..2]]
        /\ worker'.step = "observe" /\ worker'.left = left
    BY <1>5
  <2>2. WorkerInv'
    BY <1>5, <2>1 DEF WorkerInv
  <2> QED BY <2>1, <2>2 DEF WorkerStates
<1>6. worker' \in WorkerStates /\ WorkerInv' /\ PendingInv'
  <2>1. CASE done
    <3> DEFINE left == [w EXCEPT ![p] = @ - 1]
    <3>1. w[p] \in 1..2
      BY <1>1, <1>l
    <3>a. left \in [Trades -> 0..2]
      BY <3>1
    <3>b. worker' = [worker EXCEPT !.left = left]
      BY <1>l, <2>1
    <3>2. worker' = [step |-> "observe", left |-> left]
      <4> HIDE DEF left
      <4> QED BY <1>l, <3>b
    <3>3. /\ Tail(pending[p]) \in Seq(Intents)
          /\ Len(Tail(pending[p])) = Len(pending[p]) - 1
      BY <1>2, <1>3
    <3>4. pending' = [pending EXCEPT ![p] = Tail(pending[p])]
      BY <2>1
    <3>5. pending'[p] = Tail(pending[p]) /\ \A q \in Trades : q # p => pending'[q] = pending[q]
      BY <1>2, <3>4
    <3>6. \A q \in Trades : left[q] <= Len(pending'[q])
      <4> TAKE q \in Trades
      <4>1. CASE q = p
        <5>1. left[p] = w[p] - 1 /\ w[p] <= Len(pending[p])
          BY <1>2, <1>l
        <5> HIDE DEF left
        <5> QED BY <1>2, <3>1, <3>3, <3>5, <4>1, <5>1
      <4>2. CASE q # p
        BY <1>2, <1>l, <3>5, <4>2
      <4> QED BY <4>1, <4>2
    <3> HIDE DEF left
    <3>7. worker' \in WorkerStates /\ WorkerInv'
      BY <1>5, <3>a, <3>2, <3>6
    <3>8. PendingInv'
      <4>1. pending' \in [Trades -> Seq(Intents)]
        BY <1>2, <3>3, <3>4
      <4>2. Len(pending'[p]) <= 1 /\ Len(pending'[p]) \in Nat
        BY <1>2, <3>3, <3>5
      <4>3. \A q \in Trades : q # p => /\ Len(pending'[q]) <= 2
                                       /\ Len(pending'[q]) = 2 =>
                                            pending'[q][2].reason # "eod_flatten"
        BY <3>5 DEF LInv, PendingInv
      <4> QED BY <4>1, <4>2, <4>3 DEF PendingInv
    <3> QED BY <3>7, <3>8
  <2>2. CASE keep
    <3> DEFINE left == [w EXCEPT ![p] = 0]
    <3>a. left \in [Trades -> 0..2]
      OBVIOUS
    <3>b. worker' = [worker EXCEPT !.left = left]
      BY <1>l, <2>2
    <3>1. worker' = [step |-> "observe", left |-> left]
      <4> HIDE DEF left
      <4> QED BY <1>l, <3>b
    <3>2. \A q \in Trades : left[q] <= Len(pending'[q])
      BY <1>2, <1>l, <2>2
    <3> HIDE DEF left
    <3> QED BY <1>5, <2>2, <3>a, <3>1, <3>2, PendingKept
  <2> QED BY <1>1, <2>1, <2>2
<1> QED BY <1>1, <1>4, <1>6, LedgerQuietKeeps, QueueKept

LEMMA ServiceKeeps ==
  ASSUME LInv, BeginService \/ EndService
  PROVE  LInv' /\ [Next]_vars
<1>1. /\ UNCHANGED <<ledgerVars, bookVars, queue, pending, mode>> /\ mode = "ready"
      /\ \/ worker' = Idle
         \/ worker' = Servicing({q \in Trades : Serviceable(q)})
  BY DEF BeginService, EndService, WorkerAt, venueVars, bookVars
<1>2. {q \in Trades : Serviceable(q)} \in SUBSET Trades
  OBVIOUS
<1>3. worker' \in WorkerStates /\ WorkerInv'
  BY <1>1, <1>2, IdleState, WorkerFree
<1> QED BY <1>1, <1>3, NoChangeQuiet, LedgerQuietKeeps, QueueKept, PendingKept

LEMMA FirstCloseLeg ==
  ASSUME IInv, NEW p \in Trades, CloseInTheWay(OrdersAfterExpiry(p))
  PROVE  FirstActiveClose(OrdersAfterExpiry(p)) \in CloseLegs
<1> DEFINE o == OrdersAfterExpiry(p)
<1>1. \A n \in CloseLegs : o[n].status \in Active => orders[p][n].status \in Active
  <2> TAKE n \in CloseLegs
  <2>1. n \in Legs
    BY LegsFacts
  <2>2. orders[p][n] \in OrderRows
    BY <2>1 DEF IInv, TypeOK
  <2>3. o[n] = orders[p][n] \/ o[n].status = "cancelled"
    BY <2>1, <2>2, OrdersAfterExpiryShape, WindowClosedRow DEF IInv
  <2> QED BY <2>3 DEF Active
<1>2. AtMostOneActive(p)
  BY DEF IInv, TradeInv
<1> HIDE DEF o
<1>3. PICK n \in CloseLegs : ActiveCloses(o) = {n}
  BY <1>1, <1>2 DEF CloseInTheWay, ActiveCloses, AtMostOneActive, o
<1> QED BY <1>3 DEF FirstActiveClose, CloseLegs, o

LEMMA PrepareKeeps ==
  ASSUME LInv, NEW p \in Trades, Prepare(p)
  PROVE  LInv' /\ [Next]_vars
<1>1. /\ worker.step = "service" /\ mode = "ready"
      /\ UNCHANGED <<bookVars, queue, pending, mode>>
      /\ \/ PrepareExit(p) /\ worker' = Prepared(p)
         \/ (PrepareExit(p) \/ UNCHANGED ledgerVars)
            /\ worker' = Servicing(worker.todo \ {p})
  BY DEF Prepare, WorkerAt, DbStep, venueVars, bookVars
<1>2. worker.todo \ {p} \in SUBSET Trades /\ IInv /\ 0 \in Legs
  BY <1>1, WorkerFields, LInvFacts, LegsFacts DEF LInv
<1>3. Quiet
  BY <1>1, PrepareQuiet, NoChangeQuiet
<1>4. ASSUME NEW n \in Legs, worker' = At("cancel_entry", p, n)
      PROVE  worker' \in WorkerStates /\ WorkerInv'
  <2>1. worker' = [step |-> "cancel_entry", trade |-> p, leg |-> n, todo |-> worker.todo \ {p}]
    BY <1>4 DEF At
  <2>2. worker' \in [step : {"cancel_entry", "claim", "place_close"}, trade : Trades,
                     leg : Legs, todo : SUBSET Trades] /\ worker'.step = "cancel_entry"
    BY <1>2, <2>1
  <2> QED BY <2>2, WorkerFree DEF WorkerStates
<1>5. ASSUME NEW n \in CloseLegs, worker' = At("claim", p, n)
      PROVE  worker' \in WorkerStates /\ WorkerInv'
  <2>1. worker' = [step |-> "claim", trade |-> p, leg |-> n, todo |-> worker.todo \ {p}]
    BY <1>5 DEF At
  <2>2. /\ worker' \in [step : {"cancel_entry", "claim", "place_close"}, trade : Trades,
                        leg : Legs, todo : SUBSET Trades]
        /\ worker'.step = "claim" /\ worker'.leg = n
    BY <1>2, <2>1, LegsFacts
  <2>3. WorkerInv'
    BY <2>2 DEF WorkerInv
  <2> QED BY <2>2, <2>3 DEF WorkerStates
<1>6. ASSUME worker' = Servicing(worker.todo \ {p})
      PROVE  worker' \in WorkerStates /\ WorkerInv'
  BY <1>2, <1>6, IdleState, WorkerFree
<1>7. ASSUME PrepareExit(p), worker' = Prepared(p)
      PROVE  worker' \in WorkerStates /\ WorkerInv'
  <2>1. CASE PrepareResult(p) = "cancel_entry"
    BY <1>2, <1>4, <1>7, <2>1 DEF Prepared
  <2>2. CASE PrepareResult(p) = "submit"
    <3>1. CloseInTheWay(OrdersAfterExpiry(p))
      BY <2>2 DEF PrepareResult
    <3>2. worker' = At("claim", p, FirstActiveClose(OrdersAfterExpiry(p)))
      BY <1>7, <2>2 DEF Prepared
    <3> QED BY <1>2, <1>5, <3>1, <3>2, FirstCloseLeg
  <2>3. CASE PrepareResult(p) = "reserve"
    <3>1. position[p].attempt + 1 <= MaxAttempts
      BY <1>7, <2>3
      DEF PrepareExit, PrepareReserve, PrepareRefuse, PrepareNoReservation,
          PrepareTouchesNothing
    <3>2. position[p].attempt \in Nat
      BY <1>2 DEF IInv, TypeOK, PositionRows, Legs
    <3>3. position[p].attempt + 1 \in CloseLegs
      BY <3>1, <3>2, LedgerAssumption DEF CloseLegs
    <3>4. worker' = At("claim", p, position[p].attempt + 1)
      BY <1>7, <2>3 DEF Prepared
    <3> QED BY <1>5, <3>3, <3>4
  <2>4. CASE PrepareResult(p) \notin {"cancel_entry", "submit", "reserve"}
    BY <1>6, <1>7, <2>4 DEF Prepared
  <2> QED BY <2>1, <2>2, <2>3, <2>4
<1> QED BY <1>1, <1>3, <1>6, <1>7, LedgerQuietKeeps, QueueKept, PendingKept

LEMMA ClaimKeeps ==
  ASSUME LInv, Claim
  PROVE  LInv' /\ [Next]_vars
<1>a. PICK p, n : p = worker.trade /\ n = worker.leg
  OBVIOUS
<1>1. /\ worker.step = "claim" /\ mode = "ready"
      /\ UNCHANGED <<bookVars, queue, pending, mode>>
      /\ \/ /\ ClaimDispatch(p, n) /\ ClaimResult(p, n) = "claimed"
            /\ worker' = At("place_close", p, n)
         \/ (ClaimDispatch(p, n) \/ UNCHANGED ledgerVars) /\ NextPosition
  BY <1>a DEF Claim, WorkerAt, DbStep, venueVars, bookVars
<1>2. p \in Trades /\ n \in CloseLegs /\ n \in Legs /\ worker \in WorkerStates
      /\ worker.todo \in SUBSET Trades
  BY <1>a, <1>1, WorkerFields, LegsFacts DEF LInv, WorkerInv
<1>3. Quiet
  BY <1>1, <1>2, ClaimQuiet, NoChangeQuiet
<1>4. ASSUME ClaimDispatch(p, n), ClaimResult(p, n) = "claimed",
             worker' = At("place_close", p, n)
      PROVE  worker' \in WorkerStates /\ WorkerInv'
  <2>1. worker' = [step |-> "place_close", trade |-> p, leg |-> n, todo |-> worker.todo \ {p}]
    BY <1>4 DEF At
  <2>2. /\ worker' \in [step : {"cancel_entry", "claim", "place_close"}, trade : Trades,
                        leg : Legs, todo : SUBSET Trades]
        /\ worker'.step = "place_close" /\ worker'.leg = n /\ worker'.trade = p
    BY <1>2, <2>1
  <2>3. Claimable(p, n) /\ IInv
    <3>1. orders[p][n].status # "none"
      BY <1>4 DEF ClaimResult
    <3>2. Claimable(p, n)
      BY <1>4, <3>1 DEF ClaimResult
    <3> QED BY <3>2, LInvFacts
  <2>4. ClaimCommit(p, n)
    BY <1>4, <2>3 DEF ClaimDispatch, ClaimRefuse, ClaimNoDispatch, Claimable
  <2>5. <<p, n>> \in sent'
    BY <2>4 DEF ClaimCommit
  <2>6. orders'[p][n].status = "approved"
    <3>1. orders[p][n].status = "approved"
      BY <2>3 DEF Claimable
    <3>3. OrdersAfterExpiry(p)[n] \in OrderRows /\ OrdersAfterExpiry(p) \in [Legs -> OrderRows]
          /\ orders \in [Trades -> [Legs -> OrderRows]]
      BY <1>2, <2>3, OrdersAfterExpiryShape, AfterExpiryEnds DEF IInv, TypeOK
    <3>4. orders'[p][n] = Marked(OrdersAfterExpiry(p)[n], request[p])
      BY <1>2, <2>4, <3>3 DEF ClaimCommit
    <3>5. orders'[p][n].status = OrdersAfterExpiry(p)[n].status
          /\ orders'[p][n].windowClosed = OrdersAfterExpiry(p)[n].windowClosed
      BY <3>3, <3>4 DEF Marked, OrderRows
    <3>6. ~OrdersAfterExpiry(p)[n].windowClosed
      <4> SUFFICES ASSUME orders'[p][n].windowClosed
                   PROVE  FALSE
        BY <3>5
      <4>1. TradeInv(p)'
        BY <1>2, <1>3 DEF Quiet, BooksInv, AInv, IInv
      <4> QED BY <1>2, <2>5, <4>1 DEF TradeInv, WindowClosedUnsent
    <3>7. OrdersAfterExpiry(p)[n] = orders[p][n]
      BY <1>2, <2>3, <3>6, AfterExpiryEnds
    <3> QED BY <3>1, <3>5, <3>7
  <2>7. WorkerInv'
    BY <1>2, <2>2, <2>5, <2>6 DEF WorkerInv
  <2> QED BY <2>2, <2>7 DEF WorkerStates
<1>5. NextPosition => worker' \in WorkerStates /\ WorkerInv'
  BY <1>1, <1>2, NextPositionFree
<1> QED BY <1>1, <1>3, <1>4, <1>5, LedgerQuietKeeps, QueueKept, PendingKept

(* The lots read back after the cancellation are recorded one by one; the  *)
(* queue may have told of some of them already.                            *)
LEMMA ReadBackTail ==
  ASSUME LInv, NEW p \in Trades, NEW lots \in Seq(Venue!Updates), lots # <<>>,
         ReadBack(p, lots)
  PROVE  /\ Head(lots).trade = p /\ Head(lots).leg = 0
         /\ Head(lots).lot \in Nat \ {0}
         /\ Head(lots).lot > RecordedLots(p, 0) =>
              /\ Head(lots).lot = RecordedLots(p, 0) + 1
              /\ RecordedLots(p, 0) < Filled(p, 0)
              /\ Head(lots).ts = book[p][0].fillTs[RecordedLots(p, 0) + 1]
         /\ (/\ UNCHANGED book
             /\ RecordedLots(p, 0)' \in Nat
             /\ RecordedLots(p, 0) <= RecordedLots(p, 0)'
             /\ Head(lots).lot <= RecordedLots(p, 0)') => ReadBack(p, Tail(lots))'
<1> DEFINE f == Filled(p, 0)
           r == RecordedLots(p, 0)
           l == Len(lots)
<1>0. /\ f \in Nat /\ r \in Nat /\ l \in Nat \ {0} /\ l <= f /\ f <= r + l
      /\ ~OnMarket(p, 0)
  BY BookFacts, LegsFacts DEF ReadBack
<1>1. \A k \in 1..l : lots[k] = Venue!Update(p, 0, f - l + k, book[p][0].fillTs[f - l + k])
  BY DEF ReadBack
<1>2. Head(lots) = Venue!Update(p, 0, f - l + 1, book[p][0].fillTs[f - l + 1])
  BY <1>0, <1>1
<1>3. /\ Tail(lots) \in Seq(Venue!Updates) /\ Len(Tail(lots)) = l - 1
      /\ \A k \in 1..(l - 1) : Tail(lots)[k] = lots[k + 1]
  BY <1>0
<1>4. /\ Head(lots).trade = p /\ Head(lots).leg = 0
      /\ Head(lots).lot = f - l + 1
      /\ Head(lots).ts = book[p][0].fillTs[f - l + 1]
  BY <1>2 DEF Venue!Update
<1>5. ASSUME UNCHANGED book, NEW s \in Nat, s = RecordedLots(p, 0)', Head(lots).lot <= s
      PROVE  ReadBack(p, Tail(lots))'
  <2>1. Filled(p, 0)' = f /\ ~OnMarket(p, 0)'
    BY <1>0, <1>5 DEF Filled, Venue!Filled, OnMarket
  <2>2. ASSUME NEW k \in 1..(l - 1)
        PROVE  Tail(lots)[k] = Venue!Update(p, 0, f - (l - 1) + k, book[p][0].fillTs[f - (l - 1) + k])
    <3>1. k + 1 \in 1..l /\ f - (l - 1) + k = f - l + (k + 1)
      BY <1>0
    <3>2. lots[k + 1] = Venue!Update(p, 0, f - l + (k + 1), book[p][0].fillTs[f - l + (k + 1)])
      BY <1>1, <3>1
    <3> QED BY <1>3, <3>1, <3>2
  <2> HIDE DEF f, r, l
  <2>3. l - 1 <= f /\ f <= s + (l - 1)
    BY <1>0, <1>4, <1>5
  <2> QED BY <1>3, <1>5, <2>1, <2>2, <2>3 DEF ReadBack
<1>6. Head(lots).lot \in Nat \ {0}
  BY <1>0, <1>4
<1>7. Head(lots).lot > r => Head(lots).lot = r + 1 /\ r < f /\ f - l + 1 = r + 1
  BY <1>0, <1>4
<1> QED BY <1>4, <1>5, <1>6, <1>7

LEMMA RecordEntryFillKeeps ==
  ASSUME LInv, RecordEntryFill, "record_fill" \notin FaultySteps
  PROVE  LInv' /\ [Next]_vars
<1>u. PICK p, lots, todo : p = worker.trade /\ lots = worker.lots /\ todo = worker.todo
  OBVIOUS
<1>v. PICK u : u = Head(lots)
  OBVIOUS
<1>1. /\ worker.step = "record_entry" /\ mode = "ready" /\ lots # <<>>
      /\ UNCHANGED <<bookVars, queue, pending, mode>>
      /\ RecordFillTx(u) /\ worker' = [worker EXCEPT !.lots = Tail(lots)]
  BY <1>u, <1>v DEF RecordEntryFill, WorkerAt, DbStep, venueVars, bookVars
<1>2. /\ worker \in WorkerStates /\ WorkerInv
      /\ p \in Trades /\ 0 \in Legs /\ lots \in Seq(Venue!Updates) /\ todo \in SUBSET Trades
      /\ worker = [step |-> "record_entry", trade |-> p, todo |-> todo, lots |-> lots]
      /\ ReadBack(p, lots)
  BY <1>u, <1>1, WorkerFields, LegsFacts DEF LInv, WorkerInv
<1>3. u.trade = p /\ u.leg = 0 /\ u.lot \in Nat \ {0}
  BY <1>v, <1>1, <1>2, ReadBackTail
<1>4. u.lot > RecordedLots(p, 0) =>
        /\ u.lot = RecordedLots(p, 0) + 1
        /\ RecordedLots(p, 0) < Filled(p, 0)
        /\ u.ts = book[p][0].fillTs[RecordedLots(p, 0) + 1]
  BY <1>v, <1>1, <1>2, ReadBackTail
<1>5. /\ UNCHANGED ledgerVars \/ FillNext(p, 0)
      /\ [Next]_vars /\ Records
      /\ u.lot <= RecordedLots(p, 0)'
  BY <1>1, <1>2, <1>3, <1>4, FillTxNext
<1>6. ReadBack(p, Tail(lots))'
  <2>1. RecordedLots(p, 0)' \in Nat /\ RecordedLots(p, 0) <= RecordedLots(p, 0)'
    BY <1>2, <1>5 DEF Records
  <2> QED BY <1>v, <1>1, <1>2, <1>5, <2>1, ReadBackTail DEF bookVars
<1>7. worker' \in WorkerStates /\ WorkerInv'
  <2>1. Tail(lots) \in Seq(Venue!Updates)
    BY <1>1, <1>2
  <2>2. PICK t : t = Tail(lots)
    OBVIOUS
  <2>3. worker' = [step |-> "record_entry", trade |-> p, todo |-> todo, lots |-> t]
    BY <1>1, <1>2, <2>2
  <2>4. worker' \in [step : {"record_entry"}, trade : Trades, todo : SUBSET Trades,
                     lots : Seq(Venue!Updates)]
    BY <1>2, <2>1, <2>2, <2>3
  <2>5. WorkerInv'
    BY <1>6, <2>2, <2>3 DEF WorkerInv
  <2> QED BY <2>4, <2>5 DEF WorkerStates
<1>8. QueueInv' /\ PendingInv'
  BY <1>1, <1>5, QueueSame, PendingKept DEF bookVars
<1>9. CASE UNCHANGED ledgerVars
  BY <1>1, <1>7, <1>8, <1>9, NoChangeQuiet, LedgerQuietKeeps
<1>10. CASE FillNext(p, 0)
  BY <1>1, <1>2, <1>5, <1>7, <1>8, <1>10, LedgerFillKeeps
<1> QED BY <1>5, <1>9, <1>10

(* Portfolio State's worker and the clock touch nothing of the process.    *)
LEMMA SurroundingsKeep ==
  ASSUME LInv, ApplyNextFill \/ Clock
  PROVE  LInv' /\ [Next]_vars
<1>1. /\ UNCHANGED <<bookVars, queue, pending, mode, worker>>
      /\ UNCHANGED <<orders, sent, fills>>
      /\ CommitFill \/ Tick
  BY DEF ApplyNextFill, Clock, venueVars, bookVars, CommitFill, Tick
<1>2. Quiet
  BY <1>1, CommitQuiet, TickQuiet
<1>3. worker' \in WorkerStates /\ WorkerInv'
  <2>1. \A p, lots : ReadBack(p, lots)' <=> ReadBack(p, lots)
    BY <1>1 DEF ReadBack, OnMarket, Filled, Venue!Filled, RecordedLots, FillsOf, bookVars
  <2> QED BY <1>1, <2>1 DEF LInv, WorkerInv, bookVars
<1> QED BY <1>1, <1>2, <1>3, LedgerQuietKeeps, QueueKept, PendingKept
(***************************************************************************)
(* The venue's steps: the ledger stays, the orders of one trade change.    *)
(***************************************************************************)
LEMMA VenueStepKeeps ==
  ASSUME LInv, mode = "ready", UNCHANGED <<ledgerVars, pending, mode, connected, listening>>,
         BookTypes', NEW p \in Trades,
         \A q \in Trades : q # p => book'[q] = book[q] /\ waiting'[q] = waiting[q],
         Venued(p)', QueueInv', worker' \in WorkerStates, WorkerInv'
  PROVE  LInv' /\ [Next]_vars
<1>1. BooksInv' /\ [Next]_vars /\ UNCHANGED vars
  BY BooksStep, LInvFacts DEF ledgerVars
<1>2. ASSUME NEW q \in Trades, q # p
      PROVE  Venued(q)'
  <2>1. /\ book'[q] = book[q] /\ waiting'[q] = waiting[q]
        /\ fills' = fills /\ orders' = orders /\ sent' = sent /\ now' = now
        /\ position' = position /\ cursor' = cursor /\ mode' = mode
        /\ Venued(q)
    BY <1>1, <1>2, LInvFacts DEF vars
  <2>2. /\ \A n : Filled(q, n)' = Filled(q, n)
        /\ \A n : Known(q, n)' <=> Known(q, n)
        /\ \A n : OnMarket(q, n)' <=> OnMarket(q, n)
        /\ \A n : RecordedLots(q, n)' = RecordedLots(q, n)
    BY <2>1 DEF Filled, Venue!Filled, Known, OnMarket, RecordedLots, FillsOf
  <2>3. \A n \in Legs : BookRow(q, n)'
    BY <2>1, <2>2 DEF Venued, BookRow
  <2>4. WaitingOne(q)'
    BY <2>1, <2>2 DEF Venued, WaitingOne
  <2>5. \A n \in Legs : Linked(q, n)'
    BY <2>1, <2>2 DEF Venued, Linked, Over
  <2>6. LateLots(q)'
    BY <2>1, <2>2 DEF Venued, LateLots
  <2>7. Alive(q)' \/ Done(q)'
    BY <2>1, <2>2 DEF Venued, Alive, Done, PendingFill
  <2> QED BY <2>3, <2>4, <2>5, <2>6, <2>7 DEF Venued
<1>3. Modes' /\ PendingInv'
  BY DEF LInv, Modes, PendingInv
<1> QED BY <1>1, <1>2, <1>3 DEF LInv

(* What the venue is asked while nothing changes there. *)
LEMMA VenueSameKeeps ==
  ASSUME LInv, mode = "ready", UNCHANGED <<ledgerVars, bookVars, queue, pending, mode>>,
         worker' \in WorkerStates, WorkerInv'
  PROVE  LInv' /\ [Next]_vars
BY NoChangeQuiet, LedgerQuietKeeps, QueueKept, PendingKept

(* The venue's book after an order its trade has permitted: nothing else   *)
(* of the trade is in the market.                                          *)
LEMMA PlacedMoves ==
  ASSUME LInv, mode = "ready", NEW p \in Trades, NEW n \in Legs, NEW qty \in 1..EntryQty,
         NEW regular \in BOOLEAN, Venue!PlaceOrder(p, n, qty, regular),
         orders[p][n].status \in Active, ~Known(p, n),
         NEW b, b = Venue!NewSimOrder(qty, regular)
  PROVE  /\ waiting' = IF regular THEN [waiting EXCEPT ![p] = Append(@, n)] ELSE waiting
         /\ UNCHANGED <<connected, listening, queue>>
         /\ b = [status |-> IF regular THEN "submitted" ELSE "rejected",
                 qty |-> qty, fillTs |-> <<>>]
         /\ b \in Venue!SimOrders
         /\ book'[p][n] = b
         /\ \A m \in Legs : m # n => book'[p][m] = book[p][m]
         /\ \A q \in Trades : q # p => book'[q] = book[q]
         /\ book' \in [Trades -> [Legs -> Venue!SimOrders]]
         /\ \A m \in Legs : ~OnMarket(p, m)
         /\ Alive(p) /\ RecordedLots(p, n) = 0
<1>0. /\ connected
      /\ book \in [Trades -> [Legs -> Venue!SimOrders]]
      /\ waiting \in [Trades -> Seq(Legs)]
      /\ \A m \in Legs : Linked(p, m) /\ BookRow(p, m)
      /\ WaitingOne(p) /\ LateLots(p)
      /\ AInv
  BY LInvFacts DEF LInv, Modes, Venued
<1>1. /\ book' = [book EXCEPT ![p][n] = b]
      /\ waiting' = IF regular THEN [waiting EXCEPT ![p] = Append(@, n)] ELSE waiting
      /\ UNCHANGED <<connected, listening, queue>>
  BY <1>0 DEF Venue!PlaceOrder, Known, Venue!Known
<1>2. /\ b = [status |-> IF regular THEN "submitted" ELSE "rejected",
              qty |-> qty, fillTs |-> <<>>]
      /\ b \in Venue!SimOrders
  <2>1. b = [status |-> IF regular THEN "submitted" ELSE "rejected",
              qty |-> qty, fillTs |-> <<>>]
    <3>0. PICK s : s = IF connected /\ regular THEN "submitted" ELSE "rejected"
      OBVIOUS
    <3>1. b = [Venue!NoSimOrder EXCEPT !.qty = qty, !.status = s]
      BY <3>0 DEF Venue!NewSimOrder
    <3>2. b = [status |-> s, qty |-> qty, fillTs |-> <<>>]
      BY <3>1 DEF Venue!NoSimOrder
    <3>3. s = IF regular THEN "submitted" ELSE "rejected"
      BY <1>0, <3>0
    <3> QED BY <3>2, <3>3
  <2> QED BY <2>1, LedgerAssumption DEF Venue!SimOrders, Venue!Open, Venue!Closed
<1>3. /\ book'[p][n] = b
      /\ \A m \in Legs : m # n => book'[p][m] = book[p][m]
      /\ \A q \in Trades : q # p => book'[q] = book[q]
      /\ book' \in [Trades -> [Legs -> Venue!SimOrders]]
  BY <1>0, <1>1, <1>2
<1>4. \A m \in Legs : ~OnMarket(p, m)
  <2> SUFFICES ASSUME NEW m \in Legs, OnMarket(p, m)
               PROVE  FALSE
    OBVIOUS
  <2>1. Known(p, m) /\ orders[p][m].status \in Active
    BY Unrecorded DEF Working
  <2> QED BY <1>0, <2>1, ActiveAlone
<1>5. Alive(p) /\ RecordedLots(p, n) = 0
  BY LInvFacts DEF Venued, Done, Alive
<1> QED BY <1>1, <1>2, <1>3, <1>4, <1>5

(* An order is placed with nothing else of its trade in the market. *)
LEMMA PlacedKeeps ==
  ASSUME LInv, mode = "ready", NEW p \in Trades, NEW n \in Legs, NEW qty \in 1..EntryQty,
         NEW regular \in BOOLEAN, Venue!PlaceOrder(p, n, qty, regular),
         UNCHANGED <<ledgerVars, pending, mode>>,
         <<p, n>> \in sent, orders[p][n].status \in Active, orders[p][n].qty = qty,
         worker' \in WorkerStates, WorkerInv'
  PROVE  LInv' /\ [Next]_vars
<1>1. CASE Known(p, n)
  <2>1. UNCHANGED <<bookVars, queue>>
    BY <1>1 DEF Venue!PlaceOrder, Known, Venue!Known, Venue!venueVars, bookVars
  <2> QED BY <2>1, VenueSameKeeps
<1>2. CASE ~Known(p, n)
  <2>b. PICK b : b = Venue!NewSimOrder(qty, regular)
    OBVIOUS
  <2>0. /\ connected
        /\ book \in [Trades -> [Legs -> Venue!SimOrders]]
        /\ waiting \in [Trades -> Seq(Legs)]
        /\ \A m \in Legs : Linked(p, m) /\ BookRow(p, m)
        /\ WaitingOne(p) /\ LateLots(p)
        /\ AInv
    BY LInvFacts DEF LInv, Modes, Venued
  <2>1. /\ waiting' = IF regular THEN [waiting EXCEPT ![p] = Append(@, n)] ELSE waiting
        /\ UNCHANGED <<connected, listening, queue>>
        /\ b = [status |-> IF regular THEN "submitted" ELSE "rejected",
                qty |-> qty, fillTs |-> <<>>]
        /\ b \in Venue!SimOrders
        /\ book'[p][n] = b
        /\ \A m \in Legs : m # n => book'[p][m] = book[p][m]
        /\ \A q \in Trades : q # p => book'[q] = book[q]
        /\ book' \in [Trades -> [Legs -> Venue!SimOrders]]
        /\ \A m \in Legs : ~OnMarket(p, m)
        /\ Alive(p) /\ RecordedLots(p, n) = 0
    BY <1>2, <2>b, PlacedMoves
  <2>6. waiting[p] = <<>>
    BY <2>0, <2>1 DEF WaitingOne
  <2>7. /\ waiting' \in [Trades -> Seq(Legs)]
        /\ waiting'[p] = IF regular THEN <<n>> ELSE <<>>
        /\ \A q \in Trades : q # p => waiting'[q] = waiting[q]
    <3>1. waiting[p] \in Seq(Legs) /\ Append(waiting[p], n) = <<n>>
      BY <2>0, <2>6
    <3>2. <<n>> \in Seq(Legs)
      OBVIOUS
    <3> QED BY <2>0, <2>1, <2>6, <3>1, <3>2
  <2>8. /\ \A q \in Trades, m \in Legs : Filled(q, m)' = Filled(q, m)
        /\ Filled(p, n) = 0
        /\ \A q \in Trades, m \in Legs : Known(q, m) => book'[q][m] = book[q][m]
        /\ \A m \in Legs : OnMarket(p, m)' <=> regular /\ m = n
        /\ Known(p, n)'
    <3>1. Filled(p, n) = 0 /\ Filled(p, n)' = 0
      BY <1>2, <2>1, BookFacts DEF Filled, Venue!Filled
    <3>2. \A q \in Trades, m \in Legs : q # p \/ m # n => book'[q][m] = book[q][m]
      BY <2>1
    <3>3. \A q \in Trades, m \in Legs : Filled(q, m)' = Filled(q, m)
      BY <3>1, <3>2 DEF Filled, Venue!Filled
    <3>4. \A m \in Legs : OnMarket(p, m)' <=> regular /\ m = n
      BY <2>1, <3>2 DEF OnMarket, Venue!Open
    <3> QED BY <1>2, <2>1, <3>1, <3>2, <3>3, <3>4 DEF Known
  <2>9. /\ UNCHANGED vars /\ UNCHANGED <<fills, orders, sent, now>>
        /\ \A q, m : RecordedLots(q, m)' = RecordedLots(q, m)
    BY DEF ledgerVars, vars, RecordedLots, FillsOf
  <2>10. Venued(p)'
    <3>1. \A m \in Legs : BookRow(p, m)'
      <4> TAKE m \in Legs
      <4>1. CASE m # n
        <5>1. book'[p][m] = book[p][m] /\ Filled(p, m)' = Filled(p, m) /\ now' = now
          BY <2>1, <2>8, <2>9, <4>1
        <5> QED BY <2>0, <5>1 DEF BookRow
      <4>2. CASE m = n
        BY <2>1, <2>8, <4>2 DEF BookRow, Venue!Open
      <4> QED BY <4>1, <4>2
    <3>2. WaitingOne(p)'
      BY <2>7, <2>8 DEF WaitingOne
    <3>3. \A m \in Legs : Linked(p, m)'
      <4> TAKE m \in Legs
      <4>1. CASE m # n
        <5>1. Known(p, m)' <=> Known(p, m)
          BY <2>1, <4>1 DEF Known
        <5>2. OnMarket(p, m)' <=> OnMarket(p, m)
          BY <2>1, <4>1 DEF OnMarket
        <5> QED BY <2>0, <2>1, <2>8, <2>9, <4>1, <5>1, <5>2 DEF Linked, Over
      <4>2. CASE m = n
        <5>1. orders[p][n].status # "none"
          BY DEF Active
        <5> QED BY <2>1, <2>8, <2>9, <4>2, <5>1 DEF Linked
      <4> QED BY <4>1, <4>2
    <3>4. LateLots(p)'
      <4> SUFFICES ASSUME NEW m \in Legs, NEW k \in Nat,
                          RecordedLots(p, m) < k, k <= Filled(p, m),
                          NEW i \in DOMAIN fills, fills[i].trade = p
                   PROVE  fills[i].ts <= book'[p][m].fillTs[k]
        BY <2>8, <2>9 DEF LateLots
      <4>1. Known(p, m)
        BY BookFacts
      <4>2. book'[p][m] = book[p][m]
        BY <2>8, <4>1
      <4> QED BY <2>0, <4>2 DEF LateLots
    <3>5. Alive(p)'
      <4>1. \A m \in Legs : Known(p, m) => Known(p, m)'
        BY <2>8 DEF Known
      <4> QED BY <2>1, <2>9, <4>1 DEF Alive
    <3> QED BY <3>1, <3>2, <3>3, <3>4, <3>5 DEF Venued
  <2>11. QueueInv'
    <3>1. QueueTells /\ QueueInOrder /\ QueueHolds /\ queue \in Seq(Items)
      BY DEF LInv, QueueInv
    <3>2. \A i, q, m : IsUpdate(i, q, m)' <=> IsUpdate(i, q, m)
      BY <2>1 DEF IsUpdate
    <3>3. QueueTells'
      <4> SUFFICES ASSUME NEW q \in Trades, NEW m \in Legs, NEW i \in DOMAIN queue,
                          IsUpdate(i, q, m)
                   PROVE  /\ queue[i].lot > 0 => /\ queue[i].lot <= Filled(q, m)
                                                 /\ queue[i].ts = book'[q][m].fillTs[queue[i].lot]
                          /\ queue[i].lot = 0 => book'[q][m].status = "cancelled"
        BY <2>1, <2>8, <3>2 DEF QueueTells
      <4>1. queue[i].lot \in Nat
        BY QueueItems DEF IsUpdate
      <4>2. Known(q, m)
        <5> SUFFICES ASSUME ~Known(q, m)
                     PROVE  FALSE
          OBVIOUS
        <5>1. Filled(q, m) = 0 /\ book[q][m].status = "none"
          BY BookFacts DEF Known
        <5> QED BY <3>1, <4>1, <5>1 DEF QueueTells
      <4>3. book'[q][m] = book[q][m]
        BY <2>8, <4>2
      <4> QED BY <3>1, <4>3 DEF QueueTells
    <3>4. QueueInOrder' /\ QueueHolds'
      BY <2>1, <2>8, <2>9, <3>1, <3>2 DEF QueueInOrder, QueueHolds
    <3> QED BY <2>1, <3>1, <3>3, <3>4 DEF QueueInv
  <2>12. BookTypes'
    BY <2>1, <2>7 DEF BookTypes
  <2> QED BY <2>1, <2>7, <2>10, <2>11, <2>12, VenueStepKeeps
<1> QED BY <1>1, <1>2

LEMMA PlaceEntryKeeps ==
  ASSUME LInv, PlaceEntry
  PROVE  LInv' /\ [Next]_vars
<1>p. PICK p : p = worker.trade
  OBVIOUS
<1>1. /\ worker.step = "place_entry" /\ mode = "ready"
      /\ Venue!PlaceOrder(p, 0, EntryQty, now \in RegularSession)
      /\ worker' = [step |-> "ack_entry", trade |-> p, ack |-> Venue!Ack(book'[p][0])]
      /\ UNCHANGED <<ledgerVars, pending, mode>>
  BY <1>p DEF PlaceEntry, WorkerAt
<1>2. p \in Trades /\ 0 \in Legs /\ orders[p][0].status = "approved"
  BY <1>p, <1>1, WorkerFields, LegsFacts DEF LInv, WorkerInv
<1>3. <<p, 0>> \in sent /\ orders[p][0].qty = EntryQty
  BY <1>2, LInvFacts DEF Books, EntryRow
<1>4. worker' \in WorkerStates /\ WorkerInv'
  <2>1. /\ Venue!Ack(book'[p][0]) \in {"submitted", "rejected"}
        /\ Venue!Ack(book'[p][0]) = "rejected" => book'[p][0].status = "rejected"
    BY DEF Venue!Ack
  <2>2. PICK ack : ack = Venue!Ack(book'[p][0])
    OBVIOUS
  <2>3. worker' \in [step : {"ack_entry"}, trade : Trades, ack : {"submitted", "rejected"}]
    BY <1>1, <1>2, <2>1, <2>2
  <2>4. WorkerInv'
    BY <1>1, <2>1, <2>2 DEF WorkerInv
  <2> QED BY <2>3, <2>4 DEF WorkerStates
<1>5. EntryQty \in 1..EntryQty /\ "approved" \in Active /\ (now \in RegularSession) \in BOOLEAN
  BY LedgerAssumption DEF Active
<1> QED BY <1>1, <1>2, <1>3, <1>4, <1>5, PlacedKeeps

(* A close is for some lots, no more than the entry's. *)
LEMMA CloseQuantity ==
  ASSUME LInv, NEW p \in Trades, NEW n \in CloseLegs, orders[p][n].status # "none"
  PROVE  orders[p][n].qty \in 1..EntryQty
<1>1. orders[p][n].qty <= EntryQty
  BY LInvFacts DEF Books, ClosesFit
<1>2. orders[p][n].qty # 0
  BY LInvFacts DEF TradeInv, CloseShape
<1>3. orders[p][n].qty \in Nat
  BY LInvFacts, LegsFacts DEF OrderRows
<1> QED BY <1>1, <1>2, <1>3, LedgerAssumption

LEMMA PlaceCloseKeeps ==
  ASSUME LInv, PlaceClose
  PROVE  LInv' /\ [Next]_vars
<1>p. PICK p, n, todo : p = worker.trade /\ n = worker.leg /\ todo = worker.todo
  OBVIOUS
<1>1. /\ worker.step = "place_close" /\ mode = "ready"
      /\ Venue!PlaceOrder(p, n, orders[p][n].qty, now \in RegularSession)
      /\ worker' = [step |-> "ack_close", trade |-> p, leg |-> n, todo |-> todo,
                    ack |-> Venue!Ack(book'[p][n])]
      /\ UNCHANGED <<ledgerVars, pending, mode>>
  BY <1>p DEF PlaceClose, WorkerAt
<1>2. /\ p \in Trades /\ n \in CloseLegs /\ n \in Legs /\ todo \in SUBSET Trades
      /\ <<p, n>> \in sent /\ orders[p][n].status = "approved"
  BY <1>p, <1>1, WorkerFields, LegsFacts DEF LInv, WorkerInv
<1>3. orders[p][n].qty \in 1..EntryQty
  BY <1>2, CloseQuantity
<1>4. worker' \in WorkerStates /\ WorkerInv'
  <2>1. /\ Venue!Ack(book'[p][n]) \in {"submitted", "rejected"}
        /\ Venue!Ack(book'[p][n]) = "rejected" => book'[p][n].status = "rejected"
    BY DEF Venue!Ack
  <2>2. PICK ack : ack = Venue!Ack(book'[p][n])
    OBVIOUS
  <2>3. worker' \in [step : {"ack_close"}, trade : Trades, leg : Legs,
                     todo : SUBSET Trades, ack : {"submitted", "rejected"}]
    BY <1>1, <1>2, <2>1, <2>2
  <2>a. sent' = sent
    BY <1>1 DEF ledgerVars, vars
  <2>4. WorkerInv'
    BY <1>1, <1>2, <2>a, <2>1, <2>2 DEF WorkerInv
  <2> QED BY <2>3, <2>4 DEF WorkerStates
<1>5. "approved" \in Active /\ (now \in RegularSession) \in BOOLEAN
  BY DEF Active
<1>6. PICK qty \in 1..EntryQty : qty = orders[p][n].qty
  BY <1>3
<1> QED BY <1>1, <1>2, <1>4, <1>5, <1>6, PlacedKeeps
(* A fill or a cancellation is told of at the end of the queue.            *)
LEMMA QueueTold ==
  ASSUME LInv, UNCHANGED ledgerVars, NEW p \in Trades, NEW n \in Legs, OnMarket(p, n),
         NEW x \in Venue!Updates, x.trade = p, x.leg = n, queue' = Append(queue, x),
         \A q \in Trades, m \in Legs : q # p \/ m # n => book'[q][m] = book[q][m],
         \A k \in 1..Filled(p, n) : book'[p][n].fillTs[k] = book[p][n].fillTs[k],
         \/ /\ x.lot = 0 /\ book'[p][n].status = "cancelled"
            /\ Filled(p, n)' = Filled(p, n)
         \/ /\ x.lot = Filled(p, n) + 1 /\ Filled(p, n)' = Filled(p, n) + 1
            /\ x.ts = book'[p][n].fillTs[Filled(p, n) + 1]
  PROVE  QueueInv'
<1>0. /\ queue \in Seq(Items) /\ DOMAIN queue = 1..Len(queue) /\ Len(queue) \in Nat
      /\ QueueTells /\ QueueInOrder /\ QueueHolds
      /\ Filled(p, n) \in Nat
      /\ book[p][n].status # "cancelled"
  BY LInvFacts, BookFacts DEF LInv, QueueInv, OnMarket, Venue!Open
<1>a. x \in Items /\ x.type = "update" /\ x.lot \in Nat
  BY LedgerAssumption DEF Items, Venue!Updates
<1>l. PICK l \in Nat : l = Len(queue)
  BY <1>0
<1>1. /\ queue' \in Seq(Items)
      /\ DOMAIN queue' = 1..(l + 1)
      /\ \A i \in 1..l : queue'[i] = queue[i]
      /\ queue'[l + 1] = x
  BY <1>0, <1>a, <1>l, AppendProperties
<1>2. /\ \A i \in DOMAIN queue' : i \in DOMAIN queue \/ i = l + 1
      /\ \A i \in DOMAIN queue : i \in DOMAIN queue' /\ queue'[i] = queue[i]
                                 /\ i # l + 1
      /\ \A i \in DOMAIN queue : \A q, m : IsUpdate(i, q, m)' <=> IsUpdate(i, q, m)
      /\ \A q, m : IsUpdate(l + 1, q, m)' <=> q = p /\ m = n
      /\ l + 1 \in DOMAIN queue'
  BY <1>0, <1>a, <1>l, <1>1 DEF IsUpdate
<1>3. \A q \in Trades, m \in Legs :
        /\ Filled(q, m) \in Nat /\ Filled(q, m)' \in Nat /\ Filled(q, m) <= Filled(q, m)'
        /\ q # p \/ m # n => Filled(q, m)' = Filled(q, m)
        /\ \A k \in 1..Filled(q, m) : book'[q][m].fillTs[k] = book[q][m].fillTs[k]
  <2> TAKE q \in Trades, m \in Legs
  <2>0. Filled(q, m) \in Nat
    BY BookFacts
  <2>1. CASE q # p \/ m # n
    <3>1. book'[q][m] = book[q][m]
      BY <2>1
    <3>2. Filled(q, m)' = Filled(q, m)
      BY <3>1 DEF Filled, Venue!Filled
    <3> QED BY <2>0, <3>1, <3>2
  <2>2. CASE q = p /\ m = n
    BY <1>0, <2>2
  <2> QED BY <2>1, <2>2
<1>4. \A q, m : RecordedLots(q, m)' = RecordedLots(q, m)
  BY DEF ledgerVars, vars, RecordedLots, FillsOf
<1>5. ASSUME NEW i \in DOMAIN queue, IsUpdate(i, p, n)
      PROVE  queue[i].lot \in Nat /\ queue[i].lot > 0 /\ queue[i].lot <= Filled(p, n)
  <2>1. queue[i].lot \in Nat
    BY <1>5, QueueItems DEF IsUpdate
  <2>2. queue[i].lot # 0
    BY <1>0, <1>5 DEF QueueTells
  <2> QED BY <1>0, <1>5, <2>1, <2>2 DEF QueueTells
<1>6. QueueTells'
  <2> SUFFICES ASSUME NEW q \in Trades, NEW m \in Legs, NEW i \in DOMAIN queue',
                      IsUpdate(i, q, m)'
               PROVE  /\ queue'[i].lot > 0 => /\ queue'[i].lot <= Filled(q, m)'
                                              /\ queue'[i].ts = book'[q][m].fillTs[queue'[i].lot]
                      /\ queue'[i].lot = 0 => book'[q][m].status = "cancelled"
    BY DEF QueueTells
  <2>1. CASE i = l + 1
    <3>1. q = p /\ m = n /\ queue'[i] = x
      BY <1>1, <1>2, <2>1
    <3> QED BY <1>0, <1>3, <1>a, <3>1
  <2>2. CASE i \in DOMAIN queue
    <3>1. IsUpdate(i, q, m) /\ queue'[i] = queue[i] /\ queue[i].lot \in Nat
      BY <1>2, <2>2, QueueItems DEF IsUpdate
    <3>2. ASSUME queue[i].lot > 0
          PROVE  /\ queue[i].lot <= Filled(q, m)'
                 /\ queue[i].ts = book'[q][m].fillTs[queue[i].lot]
      <4>1. queue[i].lot <= Filled(q, m) /\ queue[i].ts = book[q][m].fillTs[queue[i].lot]
        BY <1>0, <2>2, <3>1, <3>2 DEF QueueTells
      <4>2. queue[i].lot \in 1..Filled(q, m)
        BY <1>3, <3>1, <3>2, <4>1
      <4>3. Filled(q, m) \in Nat /\ Filled(q, m)' \in Nat /\ Filled(q, m) <= Filled(q, m)'
        BY <1>3
      <4>4. queue[i].lot <= Filled(q, m)'
        BY <3>1, <4>1, <4>3
      <4>5. book'[q][m].fillTs[queue[i].lot] = book[q][m].fillTs[queue[i].lot]
        BY <1>3, <4>2
      <4> QED BY <4>1, <4>4, <4>5
    <3>3. ASSUME queue[i].lot = 0
          PROVE  book'[q][m].status = "cancelled"
      <4>1. book[q][m].status = "cancelled"
        BY <1>0, <2>2, <3>1, <3>3 DEF QueueTells
      <4>2. q # p \/ m # n
        BY <1>0, <4>1
      <4> QED BY <4>1, <4>2
    <3> QED BY <3>1, <3>2, <3>3
  <2> QED BY <1>2, <2>1, <2>2
<1>7. QueueInOrder'
  <2> SUFFICES ASSUME NEW q \in Trades, NEW m \in Legs, NEW i \in DOMAIN queue',
                      NEW j \in DOMAIN queue',
                      IsUpdate(i, q, m)', IsUpdate(j, q, m)', i < j
               PROVE  /\ queue'[i].lot > 0
                      /\ (queue'[j].lot = 0 \/ queue'[i].lot < queue'[j].lot)
    BY DEF QueueInOrder
  <2>1. i \in DOMAIN queue /\ IsUpdate(i, q, m) /\ queue'[i] = queue[i]
    BY <1>0, <1>l, <1>1, <1>2
  <2>2. CASE j \in DOMAIN queue
    BY <1>0, <1>2, <2>1, <2>2 DEF QueueInOrder
  <2>3. CASE j = l + 1
    <3>1. q = p /\ m = n /\ queue'[j] = x
      BY <1>1, <1>2, <2>3
    <3>2. queue[i].lot \in Nat /\ queue[i].lot > 0 /\ queue[i].lot <= Filled(p, n)
      BY <1>5, <2>1, <3>1
    <3> QED BY <1>0, <1>a, <2>1, <3>1, <3>2
  <2> QED BY <1>2, <2>2, <2>3
<1>8. QueueHolds'
  <2> SUFFICES ASSUME NEW q \in Trades, NEW m \in Legs, NEW k \in Nat,
                      RecordedLots(q, m) < k, k <= Filled(q, m)'
               PROVE  \E i \in DOMAIN queue' : IsUpdate(i, q, m)' /\ queue'[i].lot = k
    BY <1>4 DEF QueueHolds
  <2>1. CASE k <= Filled(q, m)
    <3>1. PICK i \in DOMAIN queue : IsUpdate(i, q, m) /\ queue[i].lot = k
      BY <1>0, <2>1 DEF QueueHolds
    <3> QED BY <1>2, <3>1
  <2>2. CASE ~(k <= Filled(q, m))
    <3>1. q = p /\ m = n /\ x.lot = k
      BY <1>3, <2>2
    <3> QED BY <1>1, <1>2, <3>1
  <2> QED BY <2>1, <2>2
<1> QED BY <1>1, <1>6, <1>7, <1>8 DEF QueueInv

(* The venue counts as the ledger does. *)
LEMMA SameCount ==
  ASSUME NEW S
  PROVE  Venue!Cardinality(S) = Cardinality(S)
BY DEF Venue!Cardinality, Cardinality

(* What is left of a single waiting order. *)
LEMMA KeepOne ==
  ASSUME NEW n, NEW S
  PROVE  Venue!Keep(<<n>>, S) = IF n \in S THEN <<n>> ELSE <<>>
<1> DEFINE s == <<n>>
<1>0. DOMAIN s = {1} /\ s[1] = n
  OBVIOUS
<1>a. s = <<n>>
  OBVIOUS
<1> HIDE DEF s
<1> DEFINE A == Venue!KeptAt(s, S)
           Nth(k) == CHOOSE i \in A : Venue!Rank(s, S, i) = k
<1>b. \A i : Venue!Rank(s, S, i) = Cardinality({j \in A : j <= i})
  BY SameCount DEF Venue!Rank
<1>c. Venue!Keep(s, S) = [k \in 1..Cardinality(A) |-> s[Nth(k)]]
  BY SameCount DEF Venue!Keep
<1>d. A = {i \in DOMAIN s : s[i] \in S}
  BY DEF Venue!KeptAt
<1> HIDE DEF A
<1>1. CASE n \in S
  <2>1. A = {1}
    BY <1>0, <1>1, <1>d
  <2>2. Cardinality(A) = 1
    BY <2>1, FS_Singleton
  <2>3. {j \in A : j <= 1} = A
    BY <2>1
  <2>4. Venue!Rank(s, S, 1) = 1
    BY <1>b, <2>2, <2>3
  <2>5. Nth(1) = 1
    BY <2>1, <2>4
  <2> HIDE DEF Nth
  <2>6. \A k \in 1..1 : s[Nth(k)] = n
    BY <1>0, <2>5
  <2>7. Venue!Keep(s, S) = [k \in 1..1 |-> n]
    BY <1>c, <2>2, <2>6
  <2>8. [k \in 1..1 |-> n] = <<n>>
    OBVIOUS
  <2> QED BY <1>a, <1>1, <2>7, <2>8
<1>2. CASE n \notin S
  <2>1. A = {}
    BY <1>0, <1>2, <1>d
  <2>2. Cardinality(A) = 0
    BY <2>1, FS_EmptySet
  <2> HIDE DEF Nth
  <2>3. Venue!Keep(s, S) = <<>>
    BY <1>c, <2>2
  <2> QED BY <1>a, <1>2, <2>3
<1> QED BY <1>1, <1>2
LEMMA CancelEntryKeeps ==
  ASSUME LInv, CancelEntry
  PROVE  LInv' /\ [Next]_vars
<1>p. PICK p, todo, lots : /\ p = worker.trade /\ todo = worker.todo
                           /\ lots = Venue!FillReports(worker.trade, 0)
  OBVIOUS
<1>1. /\ worker.step = "cancel_entry" /\ mode = "ready"
      /\ Venue!CancelOrder(p, 0)
      /\ worker' = [step |-> "record_entry", trade |-> p, todo |-> todo, lots |-> lots]
      /\ UNCHANGED <<ledgerVars, pending, mode>>
  BY <1>p DEF CancelEntry, WorkerAt
<1>2. p \in Trades /\ todo \in SUBSET Trades /\ 0 \in Legs
  BY <1>p, <1>1, WorkerFields, LegsFacts DEF LInv
<1>f. PICK f \in Nat : f = Filled(p, 0)
  BY <1>2, BookFacts
<1>3. /\ Len(lots) = f /\ lots \in Seq(Venue!Updates)
      /\ \A k \in 1..f : lots[k] = Venue!Update(p, 0, k, book[p][0].fillTs[k])
  <2>1. f <= EntryQty /\ \A k \in 1..f : book[p][0].fillTs[k] \in Times
    BY <1>2, <1>f, BookFacts
  <2>2. \A k \in 1..f : Venue!Update(p, 0, k, book[p][0].fillTs[k]) \in Venue!Updates
    <3> TAKE k \in 1..f
    <3>1. k \in 0..EntryQty /\ book[p][0].fillTs[k] \in Times
      BY <2>1, LedgerAssumption
    <3>2. PICK ts \in Times : ts = book[p][0].fillTs[k]
      BY <3>1
    <3>3. Venue!Update(p, 0, k, ts) = [type |-> "update", trade |-> p, leg |-> 0, lot |-> k, ts |-> ts]
      BY DEF Venue!Update
    <3>4. 0 \in Venue!Legs
      BY <1>2 DEF Legs, Venue!Legs
    <3>5. Venue!Update(p, 0, k, ts) \in Venue!Updates
      BY <1>2, <3>1, <3>3, <3>4 DEF Venue!Updates
    <3> QED BY <3>2, <3>5
  <2>3. lots = [k \in 1..f |-> Venue!Update(p, 0, k, book[p][0].fillTs[k])]
    BY <1>p, <1>f DEF Venue!FillReports, Filled
  <2> DEFINE u(k) == Venue!Update(p, 0, k, book[p][0].fillTs[k])
  <2>4. lots = [k \in 1..f |-> u(k)] /\ \A k \in 1..f : u(k) \in Venue!Updates
    BY <2>2, <2>3
  <2> HIDE DEF u
  <2>5. Len(lots) = f /\ lots \in Seq(Venue!Updates) /\ \A k \in 1..f : lots[k] = u(k)
    BY <2>4
  <2> QED BY <2>5 DEF u
<1>4. ASSUME Filled(p, 0)' = f, ~OnMarket(p, 0)',
             \A k \in 1..f : book'[p][0].fillTs[k] = book[p][0].fillTs[k]
      PROVE  worker' \in WorkerStates /\ WorkerInv'
  <2>1. worker' \in [step : {"record_entry"}, trade : Trades, todo : SUBSET Trades,
                     lots : Seq(Venue!Updates)]
    BY <1>1, <1>2, <1>3
  <2>2. RecordedLots(p, 0)' = RecordedLots(p, 0) /\ RecordedLots(p, 0) \in Nat
    BY <1>1, <1>2, BookFacts DEF ledgerVars, vars, RecordedLots, FillsOf
  <2>3. /\ \A k \in 1..f : lots[k] = Venue!Update(p, 0, k, book'[p][0].fillTs[k])
        /\ \A k \in 1..f : f - f + k = k
        /\ f <= f /\ f <= RecordedLots(p, 0)' + f
    BY <1>3, <1>4, <2>2
  <2>4. ReadBack(p, lots)'
    BY <1>3, <1>4, <2>3 DEF ReadBack
  <2>5. WorkerInv'
    BY <1>1, <2>4 DEF WorkerInv
  <2> QED BY <2>1, <2>5 DEF WorkerStates
<1>5. CASE ~OnMarket(p, 0)
  <2>1. UNCHANGED <<bookVars, queue>>
    BY <1>1, <1>5 DEF Venue!CancelOrder, OnMarket, Venue!venueVars, bookVars
  <2>2. Filled(p, 0)' = f /\ ~OnMarket(p, 0)' /\ book' = book
    BY <1>f, <1>5, <2>1 DEF Filled, Venue!Filled, OnMarket, bookVars
  <2> QED BY <1>1, <1>4, <2>1, <2>2, VenueSameKeeps
<1>6. CASE OnMarket(p, 0)
  <2>0. /\ listening /\ Venued(p)
        /\ book \in [Trades -> [Legs -> Venue!SimOrders]]
        /\ waiting \in [Trades -> Seq(Legs)]
        /\ Working(p, 0) /\ waiting[p] = <<0>>
        /\ \A m \in Legs : m # 0 => ~OnMarket(p, m)
    BY <1>1, <1>2, <1>6, LInvFacts, Unrecorded DEF LInv, Modes, Venued, WaitingOne
  <2>x. PICK x : x = Venue!Update(p, 0, 0, 0)
    OBVIOUS
  <2>1. /\ book' = [book EXCEPT ![p][0].status = "cancelled"]
        /\ waiting' = [waiting EXCEPT ![p] = Venue!Without(@, 0)]
        /\ queue' = queue \o <<x>>
        /\ UNCHANGED <<connected, listening>>
    BY <1>1, <1>6, <2>0, <2>x DEF Venue!CancelOrder, Venue!Dispatch, OnMarket
  <2>2. queue' = Append(queue, x) /\ x \in Venue!Updates
        /\ x.trade = p /\ x.leg = 0 /\ x.lot = 0
    <3>1. x = [type |-> "update", trade |-> p, leg |-> 0, lot |-> 0, ts |-> 0]
      BY <2>x DEF Venue!Update
    <3>2. 0 \in Venue!Legs /\ 0 \in 0..EntryQty
      BY <1>2, LedgerAssumption DEF Legs, Venue!Legs
    <3>3. x \in Venue!Updates
      BY <1>2, <3>1, <3>2 DEF Venue!Updates
    <3>4. queue \o <<x>> = Append(queue, x)
      BY LInvFacts
    <3> QED BY <2>1, <3>1, <3>3, <3>4
  <2>3. Venue!Without(waiting[p], 0) = <<>>
    BY <2>0, KeepOne DEF Venue!Without
  <2>4. /\ waiting' \in [Trades -> Seq(Legs)] /\ waiting'[p] = <<>>
        /\ \A q \in Trades : q # p => waiting'[q] = waiting[q]
    <3>1. waiting' = [waiting EXCEPT ![p] = <<>>]
      BY <2>1, <2>3
    <3>2. <<>> \in Seq(Legs)
      OBVIOUS
    <3> QED BY <1>2, <2>0, <3>1, <3>2
  <2>b. PICK b : b = [book[p][0] EXCEPT !.status = "cancelled"]
    OBVIOUS
  <2>5. /\ b \in Venue!SimOrders /\ b.status = "cancelled"
        /\ b.qty = book[p][0].qty /\ b.fillTs = book[p][0].fillTs
    BY <1>2, <2>b, BookFacts DEF Venue!SimOrders, Venue!Closed
  <2>6. /\ book'[p][0] = b
        /\ \A m \in Legs : m # 0 => book'[p][m] = book[p][m]
        /\ \A q \in Trades : q # p => book'[q] = book[q]
        /\ book' \in [Trades -> [Legs -> Venue!SimOrders]]
    BY <1>2, <2>0, <2>1, <2>b, <2>5
  <2>7. /\ \A q, m : RecordedLots(q, m)' = RecordedLots(q, m)
        /\ UNCHANGED <<fills, orders, sent, now>>
    BY <1>1 DEF ledgerVars, vars, RecordedLots, FillsOf
  <2>8. \A m \in Legs : /\ Filled(p, m)' = Filled(p, m)
                        /\ Known(p, m)' <=> Known(p, m)
                        /\ ~OnMarket(p, m)'
    <3> TAKE m \in Legs
    <3>1. CASE m = 0
      <4>1. Filled(p, m)' = Filled(p, m) /\ Known(p, m)' /\ ~OnMarket(p, m)'
        BY <2>5, <2>6, <3>1 DEF Filled, Venue!Filled, Known, OnMarket, Venue!Open
      <4>2. Known(p, m)
        BY <1>6, <3>1 DEF Known, OnMarket, Venue!Open
      <4> QED BY <4>1, <4>2
    <3>2. CASE m # 0
      BY <2>0, <2>6, <3>2 DEF Filled, Venue!Filled, Known, OnMarket
    <3> QED BY <3>1, <3>2
  <2>9. Venued(p)'
    <3>1. \A m \in Legs : BookRow(p, m)'
      <4> TAKE m \in Legs
      <4>0. BookRow(p, m)
        BY <2>0 DEF Venued
      <4>1. CASE m # 0
        BY <2>6, <2>7, <2>8, <4>0, <4>1 DEF BookRow
      <4>2. CASE m = 0
        <5>1. Filled(p, 0)' = Filled(p, 0) /\ now' = now
          BY <1>2, <2>7, <2>8
        <5> QED BY <2>5, <2>6, <4>0, <4>2, <5>1 DEF BookRow, Venue!Open
      <4> QED BY <4>1, <4>2
    <3>2. WaitingOne(p)'
      BY <2>4, <2>8 DEF WaitingOne
    <3>3. \A m \in Legs : Linked(p, m)'
      <4> TAKE m \in Legs
      <4>0. Linked(p, m)
        BY <2>0 DEF Venued
      <4>1. CASE m # 0
        BY <2>0, <2>6, <2>7, <2>8, <4>0, <4>1 DEF Linked, Over
      <4>2. CASE m = 0
        BY <2>0, <2>5, <2>6, <2>7, <2>8, <4>0, <4>2 DEF Linked, Working
      <4> QED BY <4>1, <4>2
    <3>4. LateLots(p)'
      <4>1. \A m \in Legs : book'[p][m].fillTs = book[p][m].fillTs
        BY <2>5, <2>6
      <4> QED BY <2>0, <2>7, <2>8, <4>1 DEF Venued, LateLots
    <3>5. Alive(p)'
      BY <1>1, <1>2, <2>0, <2>7, <2>8 DEF Venued, Alive, Done, Working
    <3> QED BY <3>1, <3>2, <3>3, <3>4, <3>5 DEF Venued
  <2>10. QueueInv'
    <3>1. \A q \in Trades, m \in Legs : q # p \/ m # 0 => book'[q][m] = book[q][m]
      BY <2>6
    <3>2. \A k \in 1..Filled(p, 0) : book'[p][0].fillTs[k] = book[p][0].fillTs[k]
      BY <2>5, <2>6
    <3> QED BY <1>1, <1>2, <1>6, <2>2, <2>5, <2>6, <2>8, <3>1, <3>2, QueueTold
  <2>11. worker' \in WorkerStates /\ WorkerInv'
    BY <1>2, <1>4, <1>f, <2>5, <2>6, <2>8
  <2>12. BookTypes'
    BY <2>4, <2>6 DEF BookTypes
  <2> QED BY <1>1, <1>2, <2>1, <2>4, <2>6, <2>9, <2>10, <2>11, <2>12, VenueStepKeeps
<1> QED BY <1>5, <1>6
(* What the worker knows of orders that are no longer in the market stands *)
(* through a tick.                                                         *)
LEMMA WorkerStands ==
  ASSUME LInv, UNCHANGED <<ledgerVars, worker, pending>>,
         \A q \in Trades, m \in Legs : ~OnMarket(q, m) => book'[q][m] = book[q][m]
  PROVE  worker' \in WorkerStates /\ WorkerInv'
<1>0. /\ worker \in WorkerStates /\ WorkerInv /\ worker' = worker /\ pending' = pending
      /\ orders' = orders /\ sent' = sent
      /\ \A q, m : RecordedLots(q, m)' = RecordedLots(q, m)
  BY DEF LInv, ledgerVars, vars, RecordedLots, FillsOf
<1>1. \A q \in Trades, m \in Legs :
        book[q][m].status = "rejected" => book'[q][m].status = "rejected"
  BY DEF OnMarket, Venue!Open
<1>2. ASSUME NEW q \in Trades, NEW lots, ReadBack(q, lots)
      PROVE  ReadBack(q, lots)'
  <2>1. book'[q][0] = book[q][0]
    BY <1>2, LegsFacts DEF ReadBack
  <2> QED BY <1>0, <1>2, <2>1 DEF ReadBack, OnMarket, Filled, Venue!Filled
<1>3. worker.step = "record_entry" => ReadBack(worker.trade, worker.lots)'
  <2>1. PICK p, lots : p = worker.trade /\ lots = worker.lots
    OBVIOUS
  <2> QED BY <1>0, <1>2, <2>1, WorkerFields DEF WorkerInv
<1>4. 0 \in Legs /\ CloseLegs \subseteq Legs
  BY LegsFacts
<1>5. /\ worker.step = "place_entry" => orders'[worker.trade][0].status = "approved"
      /\ (worker.step = "ack_entry" /\ worker.ack = "rejected") =>
           book'[worker.trade][0].status = "rejected"
      /\ worker.step \in {"claim", "place_close", "ack_close"} => worker.leg \in CloseLegs
      /\ worker.step = "place_close" =>
           /\ <<worker.trade, worker.leg>> \in sent'
           /\ orders'[worker.trade][worker.leg].status = "approved"
      /\ worker.step = "ack_close" =>
           /\ <<worker.trade, worker.leg>> \in sent'
           /\ worker.ack = "rejected" =>
                book'[worker.trade][worker.leg].status = "rejected"
      /\ worker.step = "observe" => \A p \in Trades : worker.left[p] <= Len(pending'[p])
  BY <1>0, <1>1, <1>4, WorkerFields DEF WorkerInv
<1>6. WorkerInv'
  <2>1. PICK p, lots : p = worker.trade /\ lots = worker.lots
    OBVIOUS
  <2>2. worker.step = "record_entry" => ReadBack(p, lots)'
    BY <1>0, <1>2, <2>1, WorkerFields DEF WorkerInv
  <2>3. worker'.step = "record_entry" => /\ worker'.trade = p /\ worker'.lots = lots
                                         /\ ReadBack(p, lots)'
    BY <1>0, <2>1, <2>2
  <2> QED BY <1>0, <1>5, <2>3 DEF WorkerInv
<1> QED BY <1>0, <1>6

(* A lot of an order for q of them. *)
LEMMA FillOneRow ==
  ASSUME NEW b \in Venue!SimOrders, NEW ts \in Times, NEW f \in Nat, f = Len(b.fillTs),
         f < b.qty
  PROVE  /\ Venue!FillOne(b, ts) \in Venue!SimOrders
         /\ Venue!FillOne(b, ts).qty = b.qty
         /\ Len(Venue!FillOne(b, ts).fillTs) = f + 1
         /\ \A k \in 1..f : Venue!FillOne(b, ts).fillTs[k] = b.fillTs[k]
         /\ Venue!FillOne(b, ts).fillTs[f + 1] = ts
         /\ Venue!FillOne(b, ts).status =
              IF f + 1 = b.qty THEN "filled" ELSE "partially_filled"
<1> DEFINE status == IF f + 1 = b.qty THEN "filled" ELSE "partially_filled"
           stamps == Append(b.fillTs, ts)
<1>1. b.fillTs \in Seq(Times) /\ b = [status |-> b.status, qty |-> b.qty, fillTs |-> b.fillTs]
      /\ b.qty \in 0..EntryQty
  BY DEF Venue!SimOrders
<1>2. /\ stamps \in Seq(Times) /\ Len(stamps) = f + 1
      /\ \A k \in 1..f : stamps[k] = b.fillTs[k]
      /\ stamps[f + 1] = ts
  BY <1>1, AppendProperties
<1>3. status \in {"none"} \cup Venue!Open \cup Venue!Closed
  BY DEF Venue!Open, Venue!Closed
<1>4. Venue!FillOne(b, ts) = [b EXCEPT !.fillTs = stamps, !.status = status]
  BY DEF Venue!FillOne
<1> HIDE DEF status, stamps
<1>5. Venue!FillOne(b, ts) = [status |-> status, qty |-> b.qty, fillTs |-> stamps]
  BY <1>1, <1>4
<1>6. Venue!FillOne(b, ts) \in Venue!SimOrders
  BY <1>1, <1>2, <1>3, <1>5 DEF Venue!SimOrders
<1> QED BY <1>2, <1>5, <1>6 DEF status

(* A tick fills the next lot of the one order that waits.                  *)
TickFills(p, n, b, f) ==
  /\ waiting[p] = <<n>> /\ \A m \in Legs : OnMarket(p, m) <=> m = n
  /\ f = Filled(p, n) /\ b.qty = book[p][n].qty
  /\ Len(b.fillTs) = f + 1
  /\ \A k \in 1..f : b.fillTs[k] = book[p][n].fillTs[k]
  /\ b.fillTs[f + 1] = now
  /\ b.status = IF f + 1 = b.qty THEN "filled" ELSE "partially_filled"
  /\ f + 1 <= b.qty /\ b.qty <= EntryQty /\ b.qty \in Nat
  /\ book'[p][n] = b
  /\ \A m \in Legs : m # n => book'[p][m] = book[p][m]
  /\ \A q \in Trades : q # p => book'[q] = book[q]
  /\ book' \in [Trades -> [Legs -> Venue!SimOrders]]
  /\ waiting' \in [Trades -> Seq(Legs)]
  /\ waiting'[p] = IF f + 1 # b.qty THEN <<n>> ELSE <<>>
  /\ \A q \in Trades : q # p => waiting'[q] = waiting[q]
  /\ queue' = queue \o <<Venue!Update(p, n, f + 1, now)>>
  /\ UNCHANGED <<connected, listening>>

LEMMA TickMoves ==
  ASSUME LInv, NEW p \in Trades, MarketTick(p)
  PROVE  \E n \in Legs, b \in Venue!SimOrders, f \in Nat : TickFills(p, n, b, f)
<1>1. /\ mode = "ready" /\ Venue!IngestTick(p, now) /\ waiting[p] # <<>>
      /\ UNCHANGED <<ledgerVars, worker, pending, mode>>
  BY DEF MarketTick, Venue!IngestTick
<1>2. /\ listening /\ Venued(p)
      /\ book \in [Trades -> [Legs -> Venue!SimOrders]]
      /\ waiting \in [Trades -> Seq(Legs)]
  BY <1>1, LInvFacts DEF LInv, Modes
<1>n. PICK n \in Legs : waiting[p] = <<n>> /\ \A m \in Legs : OnMarket(p, m) <=> m = n
  BY <1>1, <1>2 DEF Venued, WaitingOne
<1>f. PICK f \in Nat : f = Filled(p, n)
  BY BookFacts
<1>b. PICK b : b = Venue!FillOne(book[p][n], now)
  OBVIOUS
<1>x. PICK x : x = Venue!Update(p, n, f + 1, now)
  OBVIOUS
<1>3. /\ b \in Venue!SimOrders /\ b.qty = book[p][n].qty
      /\ Len(b.fillTs) = f + 1
      /\ \A k \in 1..f : b.fillTs[k] = book[p][n].fillTs[k]
      /\ b.fillTs[f + 1] = now
      /\ b.status = IF f + 1 = b.qty THEN "filled" ELSE "partially_filled"
      /\ f + 1 <= b.qty /\ b.qty <= EntryQty /\ b.qty \in Nat
  <2>1. /\ book[p][n] \in Venue!SimOrders /\ now \in Times
        /\ f = Len(book[p][n].fillTs) /\ f < book[p][n].qty
        /\ book[p][n].qty \in 0..EntryQty
    BY <1>n, <1>f, LInvFacts, BookFacts DEF Filled, Venue!Filled
  <2>2. b \in Venue!SimOrders /\ b.qty = book[p][n].qty
        /\ Len(b.fillTs) = f + 1
        /\ (\A k \in 1..f : b.fillTs[k] = book[p][n].fillTs[k])
        /\ b.fillTs[f + 1] = now
        /\ b.status = IF f + 1 = book[p][n].qty THEN "filled" ELSE "partially_filled"
    <3>1. PICK o \in Venue!SimOrders, ts \in Times : o = book[p][n] /\ ts = now
      BY <2>1
    <3>2. b = Venue!FillOne(o, ts) /\ f = Len(o.fillTs) /\ f < o.qty
      BY <1>b, <2>1, <3>1
    <3>3. b \in Venue!SimOrders /\ b.qty = o.qty
          /\ Len(b.fillTs) = f + 1
          /\ (\A k \in 1..f : b.fillTs[k] = o.fillTs[k])
          /\ b.fillTs[f + 1] = ts
          /\ b.status = IF f + 1 = o.qty THEN "filled" ELSE "partially_filled"
      BY <3>2, FillOneRow
    <3> QED BY <3>1, <3>3
  <2> QED BY <2>1, <2>2, LedgerAssumption
<1> DEFINE after == [m \in Legs |-> IF m = n THEN b ELSE book[p][m]]
           open == {m \in Legs : after[m].status \in Venue!Open}
<1>4. /\ book' = [book EXCEPT ![p] = after]
      /\ waiting' = [waiting EXCEPT ![p] = Venue!Keep(waiting[p], open)]
      /\ queue' = queue \o <<x>>
      /\ UNCHANGED <<connected, listening>>
  <2> DEFINE hit == {waiting[p][i] : i \in DOMAIN waiting[p]}
             next == [m \in Legs |-> IF m \in hit THEN Venue!FillOne(book[p][m], now)
                                     ELSE book[p][m]]
             told == [i \in DOMAIN waiting[p] |->
                        Venue!Update(p, waiting[p][i], Venue!Filled(p, waiting[p][i]) + 1, now)]
  <2>1. hit = {n} /\ DOMAIN waiting[p] = {1} /\ waiting[p][1] = n
    BY <1>n
  <2>2. next = after
    BY <1>b, <2>1
  <2>3. told = <<x>>
    <3>1. Venue!Update(p, n, Venue!Filled(p, n) + 1, now) = x
      BY <1>f, <1>x DEF Filled
    <3>2. \A i \in {1} : Venue!Update(p, waiting[p][i], Venue!Filled(p, waiting[p][i]) + 1, now) = x
      BY <2>1, <3>1
    <3>3. told = [i \in {1} |-> x]
      BY <2>1, <3>2
    <3>4. [i \in {1} |-> x] = <<x>>
      OBVIOUS
    <3> QED BY <3>3, <3>4
  <2>4. /\ book' = [book EXCEPT ![p] = next]
        /\ waiting' = [waiting EXCEPT ![p] =
                         Venue!Keep(@, {m \in Legs : next[m].status \in Venue!Open})]
        /\ Venue!Dispatch(told)
        /\ UNCHANGED <<connected, listening>>
    BY <1>1 DEF Venue!IngestTick, Venue!Legs, Legs
  <2> HIDE DEF next, told, after
  <2> QED BY <1>2, <2>2, <2>3, <2>4 DEF Venue!Dispatch
<1>5. /\ book'[p][n] = b
      /\ \A m \in Legs : m # n => book'[p][m] = book[p][m]
      /\ \A q \in Trades : q # p => book'[q] = book[q]
      /\ book' \in [Trades -> [Legs -> Venue!SimOrders]]
  <2>1. /\ after \in [Legs -> Venue!SimOrders] /\ after[n] = b
        /\ \A m \in Legs : m # n => after[m] = book[p][m]
    BY <1>2, <1>3
  <2> HIDE DEF after
  <2> QED BY <1>2, <1>4, <2>1
<1>6. n \in open <=> f + 1 # b.qty
  <2>1. n \in open <=> b.status \in Venue!Open
    OBVIOUS
  <2> QED BY <1>3, <2>1 DEF Venue!Open
<1>7. /\ waiting' \in [Trades -> Seq(Legs)]
      /\ waiting'[p] = IF f + 1 # b.qty THEN <<n>> ELSE <<>>
      /\ \A q \in Trades : q # p => waiting'[q] = waiting[q]
  <2>1. Venue!Keep(waiting[p], open) = IF f + 1 # b.qty THEN <<n>> ELSE <<>>
    <3> HIDE DEF open
    <3> QED BY <1>n, <1>6, KeepOne
  <2> HIDE DEF open
  <2>2. waiting' = [waiting EXCEPT ![p] = IF f + 1 # b.qty THEN <<n>> ELSE <<>>]
    BY <1>4, <2>1
  <2>3. <<n>> \in Seq(Legs) /\ <<>> \in Seq(Legs)
    OBVIOUS
  <2> QED BY <1>2, <2>2, <2>3
<1> HIDE DEF after, open
<1>8. TickFills(p, n, b, f)
  BY <1>3, <1>4, <1>5, <1>7, <1>n, <1>f, <1>x DEF TickFills
<1> QED BY <1>3, <1>8

LEMMA MarketTickKeeps ==
  ASSUME LInv, NEW p \in Trades, MarketTick(p)
  PROVE  LInv' /\ [Next]_vars
<1>1. /\ mode = "ready"
      /\ UNCHANGED <<ledgerVars, worker, pending, mode>>
  BY DEF MarketTick
<1>2. /\ listening /\ Venued(p)
      /\ book \in [Trades -> [Legs -> Venue!SimOrders]]
      /\ waiting \in [Trades -> Seq(Legs)]
  BY <1>1, LInvFacts DEF LInv, Modes
<1>n. PICK n \in Legs, b \in Venue!SimOrders, f \in Nat : TickFills(p, n, b, f)
  BY TickMoves
<1>x. PICK x : x = Venue!Update(p, n, f + 1, now)
  OBVIOUS
<1>3. /\ waiting[p] = <<n>> /\ \A m \in Legs : OnMarket(p, m) <=> m = n
      /\ f = Filled(p, n) /\ b.qty = book[p][n].qty
      /\ Len(b.fillTs) = f + 1
      /\ \A k \in 1..f : b.fillTs[k] = book[p][n].fillTs[k]
      /\ b.fillTs[f + 1] = now
      /\ b.status = IF f + 1 = b.qty THEN "filled" ELSE "partially_filled"
      /\ f + 1 <= b.qty /\ b.qty <= EntryQty /\ b.qty \in Nat
  BY <1>n DEF TickFills
<1>5. /\ book'[p][n] = b
      /\ \A m \in Legs : m # n => book'[p][m] = book[p][m]
      /\ \A q \in Trades : q # p => book'[q] = book[q]
      /\ book' \in [Trades -> [Legs -> Venue!SimOrders]]
  BY <1>n DEF TickFills
<1>7. /\ waiting' \in [Trades -> Seq(Legs)]
      /\ waiting'[p] = IF f + 1 # b.qty THEN <<n>> ELSE <<>>
      /\ \A q \in Trades : q # p => waiting'[q] = waiting[q]
      /\ queue' = queue \o <<x>>
      /\ UNCHANGED <<connected, listening>>
  BY <1>n, <1>x DEF TickFills
<1>8. /\ queue' = Append(queue, x) /\ x \in Venue!Updates
      /\ x.trade = p /\ x.leg = n /\ x.lot = f + 1 /\ x.ts = now
  <2>1. x = [type |-> "update", trade |-> p, leg |-> n, lot |-> f + 1, ts |-> now]
    BY <1>x DEF Venue!Update
  <2>2. n \in Venue!Legs /\ f + 1 \in 0..EntryQty /\ now \in Times
    BY <1>3, LInvFacts DEF Legs, Venue!Legs
  <2>3. x \in Venue!Updates
    BY <2>1, <2>2 DEF Venue!Updates
  <2>4. queue \o <<x>> = Append(queue, x)
    BY LInvFacts
  <2> QED BY <1>7, <2>1, <2>3, <2>4
<1>9. /\ \A q, m : RecordedLots(q, m)' = RecordedLots(q, m)
      /\ UNCHANGED <<fills, orders, sent, now>>
  BY <1>1 DEF ledgerVars, vars, RecordedLots, FillsOf
<1>10. /\ Filled(p, n)' = f + 1
       /\ Known(p, n) /\ Known(p, n)'
       /\ OnMarket(p, n)' <=> f + 1 # b.qty
       /\ Working(p, n)
  <2>1. Filled(p, n)' = f + 1
    BY <1>3, <1>5 DEF Filled, Venue!Filled
  <2>2. Known(p, n) /\ Working(p, n)
    BY <1>3, Unrecorded
  <2>3. Known(p, n)' /\ (OnMarket(p, n)' <=> f + 1 # b.qty)
    BY <1>3, <1>5 DEF Known, OnMarket, Venue!Open
  <2> QED BY <2>1, <2>2, <2>3
<1>11. \A m \in Legs : m # n => /\ Filled(p, m)' = Filled(p, m)
                                /\ Known(p, m)' <=> Known(p, m)
                                /\ ~OnMarket(p, m) /\ ~OnMarket(p, m)'
  BY <1>3, <1>5 DEF Filled, Venue!Filled, Known, OnMarket
<1>12. Venued(p)'
  <2>0. now \in Nat /\ FillsPast(p) /\ \A k \in 1..f : book[p][n].fillTs[k] \in Nat
    BY <1>3, LInvFacts, BookFacts DEF Books
  <2>1. \A m \in Legs : BookRow(p, m)'
    <3> TAKE m \in Legs
    <3>0. BookRow(p, m)
      BY <1>2 DEF Venued
    <3>1. CASE m # n
      BY <1>5, <1>9, <1>11, <3>0, <3>1 DEF BookRow
    <3>2. CASE m = n
      <4>1. /\ b.status \in {"filled", "partially_filled"}
            /\ b.status = "filled" <=> f + 1 = b.qty
        BY <1>3
      <4>2. ASSUME NEW k \in 1..(f + 1)
            PROVE  /\ b.fillTs[k] <= now
                   /\ \A j \in 1..k : b.fillTs[j] <= b.fillTs[k]
        <5>1. \A i \in 1..f : book[p][n].fillTs[i] <= now
          BY <1>3, <3>0, <3>2 DEF BookRow
        <5>2. CASE k = f + 1
          <6>1. b.fillTs[k] = now
            BY <1>3, <5>2
          <6>2. \A j \in 1..k : j \in 1..f \/ j = k
            BY <5>2
          <6>3. \A j \in 1..k : b.fillTs[j] <= now
            <7> TAKE j \in 1..k
            <7>1. CASE j \in 1..f
              BY <1>3, <5>1, <7>1
            <7>2. CASE j = k
              BY <2>0, <6>1, <7>2
            <7> QED BY <6>2, <7>1, <7>2
          <6> QED BY <2>0, <6>1, <6>3
        <5>3. CASE k # f + 1
          <6>1. k \in 1..f /\ \A j \in 1..k : j \in 1..f
            BY <5>3
          <6>2. \A j \in 1..k : book[p][n].fillTs[j] <= book[p][n].fillTs[k]
            BY <1>3, <3>0, <3>2, <6>1 DEF BookRow
          <6> QED BY <1>3, <5>1, <6>1, <6>2
        <5> QED BY <5>2, <5>3
      <4>3. f + 1 > 0 /\ f + 1 <= b.qty /\ f + 1 \in Nat
        BY <1>3
      <4>4. /\ b.status # "none" /\ b.status # "submitted"
            /\ b.status # "rejected" /\ b.status # "cancelled"
            /\ b.status \in Venue!Open => f + 1 < b.qty
        BY <1>3, <4>1 DEF Venue!Open
      <4>5. book'[p][m] = b /\ Filled(p, m)' = f + 1 /\ now' = now
        BY <1>5, <1>9, <1>10, <3>2
      <4> QED BY <4>1, <4>2, <4>3, <4>4, <4>5 DEF BookRow
    <3> QED BY <3>1, <3>2
  <2>2. WaitingOne(p)'
    <3>1. CASE f + 1 # b.qty
      BY <1>7, <1>10, <1>11, <3>1 DEF WaitingOne
    <3>2. CASE f + 1 = b.qty
      BY <1>7, <1>10, <1>11, <3>2 DEF WaitingOne
    <3> QED BY <3>1, <3>2
  <2>3. \A m \in Legs : Linked(p, m)'
    <3> TAKE m \in Legs
    <3>0. Linked(p, m)
      BY <1>2 DEF Venued
    <3>1. CASE m # n
      <4>1. book'[p][m] = book[p][m] /\ (Over(p, m)' <=> Over(p, m))
        BY <1>5, <1>9, <1>11, <3>1 DEF Over
      <4> QED BY <1>9, <1>11, <3>0, <3>1, <4>1 DEF Linked
    <3>2. CASE m = n
      <4>1. RecordedLots(p, n) <= f + 1
        BY <1>3, <1>10, <3>0, <3>2, BookFacts DEF Linked
      <4>2. /\ <<p, n>> \in sent /\ orders[p][n].status # "none"
            /\ b.qty = orders[p][n].qty /\ orders[p][n].status \in Active
        BY <1>3, <1>10, <3>0, <3>2 DEF Linked, Working
      <4> QED BY <1>5, <1>9, <1>10, <3>2, <4>1, <4>2 DEF Linked
    <3> QED BY <3>1, <3>2
  <2>4. LateLots(p)'
    <3> SUFFICES ASSUME NEW m \in Legs, NEW k \in Nat,
                        RecordedLots(p, m) < k, k <= Filled(p, m)',
                        NEW i \in DOMAIN fills, fills[i].trade = p
                 PROVE  fills[i].ts <= book'[p][m].fillTs[k]
      BY <1>9 DEF LateLots
    <3>0. LateLots(p)
      BY <1>2 DEF Venued
    <3>1. CASE m # n
      BY <1>5, <1>11, <3>0, <3>1 DEF LateLots
    <3>2. CASE m = n /\ k <= f
      <4>1. k \in 1..f
        BY <3>2, BookFacts
      <4>2. book'[p][m].fillTs[k] = book[p][n].fillTs[k]
        BY <1>3, <1>5, <3>2, <4>1
      <4> QED BY <1>3, <3>0, <3>2, <4>2 DEF LateLots
    <3>3. CASE m = n /\ k = f + 1
      <4>1. book'[p][m].fillTs[k] = now
        BY <1>3, <1>5, <3>3
      <4> QED BY <2>0, <4>1 DEF FillsPast
    <3> QED BY <1>10, <3>1, <3>2, <3>3
  <2>5. Alive(p)'
    <3>1. Alive(p)
      BY <1>1, <1>2, <1>10 DEF Venued, Done, Working
    <3>2. \A m \in Legs : Known(p, m)' <=> Known(p, m)
      BY <1>10, <1>11
    <3> QED BY <1>9, <3>1, <3>2 DEF Alive
  <2> QED BY <2>1, <2>2, <2>3, <2>4, <2>5 DEF Venued
<1>13. QueueInv'
  <2>1. \A q \in Trades, m \in Legs : q # p \/ m # n => book'[q][m] = book[q][m]
    BY <1>5
  <2>2. \A k \in 1..Filled(p, n) : book'[p][n].fillTs[k] = book[p][n].fillTs[k]
    BY <1>3, <1>5
  <2>3. x.ts = book'[p][n].fillTs[Filled(p, n) + 1]
    BY <1>3, <1>5, <1>8
  <2>4. OnMarket(p, n)
    BY <1>3
  <2> QED BY <1>1, <1>8, <1>10, <1>3, <2>1, <2>2, <2>3, <2>4, QueueTold
<1>14. worker' \in WorkerStates /\ WorkerInv'
  <2>1. \A q \in Trades, m \in Legs : ~OnMarket(q, m) => book'[q][m] = book[q][m]
    BY <1>3, <1>5
  <2> QED BY <1>1, <2>1, WorkerStands
<1>15. BookTypes'
  BY <1>5, <1>7 DEF BookTypes
<1> QED BY <1>1, <1>7, <1>5, <1>12, <1>13, <1>14, <1>15, VenueStepKeeps
(***************************************************************************)
(* What enters the process, and its end and beginning.                     *)
(***************************************************************************)
LEMMA ApproveKeeps ==
  ASSUME LInv, NEW p \in Trades, Approve(p)
  PROVE  LInv' /\ [Next]_vars
<1>1. /\ mode = "ready" /\ queue' = Append(queue, Approval(p))
      /\ UNCHANGED <<ledgerVars, bookVars, worker, pending, mode>>
  BY DEF Approve
<1>2. PICK x : x = Approval(p)
  OBVIOUS
<1>3. x \in Items /\ x.type # "update"
  BY <1>2 DEF Approval, Items
<1>4. Quiet
  BY <1>1, NoChangeQuiet
<1>5. QueueInv'
  BY <1>1, <1>2, <1>3, <1>4, QuietRecords, QueueAppend DEF bookVars
<1>6. worker' \in WorkerStates /\ WorkerInv'
  BY <1>1, WorkerStands DEF bookVars
<1> QED BY <1>1, <1>4, <1>5, <1>6, LedgerQuietKeeps, PendingKept

(* At most an EOD observation waits when another is latched after it.      *)
LEMMA LatchKeeps ==
  ASSUME LInv, NEW p \in Trades, NEW reason \in ExitReasons, Latch(p, reason)
  PROVE  LInv' /\ [Next]_vars
<1>i. PICK i : i = [reason |-> reason, ts |-> now]
  OBVIOUS
<1>1. /\ mode = "ready" /\ queue' = Append(queue, Wake)
      /\ pending' = [pending EXCEPT ![p] = Append(@, i)]
      /\ UNCHANGED <<ledgerVars, bookVars, worker, mode>>
      /\ \A k \in DOMAIN pending[p] :
           pending[p][k].reason = "eod_flatten" /\ reason # "eod_flatten"
  BY <1>i DEF Latch, Observable
<1>2. /\ i \in Intents /\ i.reason = reason
      /\ pending \in [Trades -> Seq(Intents)]
      /\ \A q \in Trades : /\ Len(pending[q]) <= 2
                           /\ Len(pending[q]) = 2 => pending[q][2].reason # "eod_flatten"
  BY <1>i, LInvFacts DEF Intents, LInv, PendingInv
<1>3. Wake \in Items /\ Wake.type # "update"
  BY DEF Wake, Items
<1>4. Quiet
  BY <1>1, NoChangeQuiet
<1>5. QueueInv'
  BY <1>1, <1>3, <1>4, QuietRecords, QueueAppend DEF bookVars
<1>s. PICK s \in Seq(Intents) : s = pending[p]
  BY <1>2
<1>6. /\ Append(s, i) \in Seq(Intents) /\ Len(s) \in Nat
      /\ Len(Append(s, i)) = Len(s) + 1
      /\ Append(s, i)[Len(s) + 1] = i
  BY <1>2, AppendProperties
<1>l. PICK l \in Nat : l = Len(s)
  BY <1>6
<1>7. l <= 1
  <2>0. l <= 2
    BY <1>2, <1>l, <1>s
  <2> SUFFICES ASSUME Len(s) = 2
               PROVE  FALSE
    BY <2>0, <1>l
  <2>1. 2 \in DOMAIN s
    OBVIOUS
  <2>2. s[2].reason # "eod_flatten"
    BY <1>2, <1>s
  <2>3. s[2].reason = "eod_flatten"
    BY <1>1, <1>s, <2>1
  <2> QED BY <2>2, <2>3
<1>8. /\ pending' \in [Trades -> Seq(Intents)]
      /\ pending'[p] = Append(s, i)
      /\ \A q \in Trades : q # p => pending'[q] = pending[q]
  BY <1>1, <1>2, <1>6, <1>s
<1>9. PendingInv'
  <2>1. Len(pending'[p]) <= 2
    BY <1>6, <1>7, <1>8, <1>l
  <2>2. Len(pending'[p]) = 2 => pending'[p][2].reason # "eod_flatten"
    <3> SUFFICES ASSUME Len(Append(s, i)) = 2
                 PROVE  i.reason # "eod_flatten" /\ Append(s, i)[2] = i
      BY <1>8
    <3>1. Len(s) = 1
      BY <1>6, <1>l
    <3>2. 1 \in DOMAIN s
      BY <3>1
    <3> QED BY <1>1, <1>2, <1>6, <1>s, <3>1, <3>2
  <2> QED BY <1>2, <1>8, <2>1, <2>2 DEF PendingInv
<1>10. worker' \in WorkerStates /\ WorkerInv'
  <2>0. worker \in WorkerStates /\ WorkerInv /\ worker' = worker /\ book' = book
        /\ orders' = orders /\ sent' = sent /\ fills' = fills
    BY <1>1 DEF LInv, bookVars, ledgerVars, vars
  <2>1. \A q \in Trades : Len(pending[q]) <= Len(pending'[q])
    <3> TAKE q \in Trades
    <3>1. CASE q = p
      <4>1. Len(pending'[q]) = l + 1 /\ Len(pending[q]) = l
        BY <1>6, <1>8, <1>l, <1>s, <3>1
      <4> QED BY <4>1
    <3>2. CASE q # p
      <4>1. Len(pending[q]) \in Nat /\ pending'[q] = pending[q]
        BY <1>2, <1>8, <3>2
      <4> QED BY <4>1
    <3> QED BY <3>1, <3>2
  <2>2. worker.step = "observe" => \A q \in Trades : worker.left[q] <= Len(pending'[q])
    <3> SUFFICES ASSUME worker.step = "observe", NEW q \in Trades
                 PROVE  worker.left[q] <= Len(pending'[q])
      OBVIOUS
    <3>1. worker.left[q] \in 0..2 /\ worker.left[q] <= Len(pending[q])
      BY <2>0, WorkerFields DEF WorkerInv
    <3>2. Len(pending[q]) \in Nat /\ Len(pending'[q]) \in Nat
      BY <1>2, <1>8
    <3> QED BY <2>1, <3>1, <3>2
  <2>3. \A q, lots : ReadBack(q, lots)' <=> ReadBack(q, lots)
    BY <2>0 DEF ReadBack, OnMarket, Filled, Venue!Filled, RecordedLots, FillsOf
  <2> QED BY <2>0, <2>2, <2>3 DEF WorkerInv
<1> QED BY <1>1, <1>4, <1>5, <1>9, <1>10, LedgerQuietKeeps

(* A process without a book. *)
Emptied ==
  /\ worker' = Idle /\ queue' = <<>>
  /\ book' = [p \in Trades |-> [n \in Legs |-> Venue!NoSimOrder]]
  /\ waiting' = [p \in Trades |-> <<>>]

LEMMA EmptiedKeeps ==
  ASSUME BooksInv, BooksInv', fills' = fills, Emptied, PendingInv',
         mode' \in {"down", "starting", "ready", "blocked"},
         connected' = (mode' \in {"starting", "ready"}),
         listening' = (mode' = "ready"),
         mode' = "ready" => \A p \in Trades : Alive(p)' \/ Done(p)'
  PROVE  LInv'
<1>1. /\ book' = [p \in Trades |-> [n \in Legs |-> Venue!NoSimOrder]]
      /\ waiting' = [p \in Trades |-> <<>>] /\ queue' = <<>> /\ worker' = Idle
      /\ TypeOK'
  BY DEF Emptied, BooksInv, AInv, IInv
<1>2. /\ Venue!NoSimOrder = [status |-> "none", qty |-> 0, fillTs |-> <<>>]
      /\ Venue!NoSimOrder \in Venue!SimOrders
  <2>1. <<>> \in Seq(Times) /\ 0 \in 0..EntryQty
    BY LedgerAssumption
  <2> QED BY <2>1 DEF Venue!NoSimOrder, Venue!SimOrders
<1>3. \A p \in Trades, n \in Legs : book'[p][n] = Venue!NoSimOrder
  BY <1>1
<1>4. BookTypes'
  BY <1>1, <1>2 DEF BookTypes
<1>5. \A p \in Trades, n \in Legs : /\ Filled(p, n)' = 0
                                    /\ ~Known(p, n)' /\ ~OnMarket(p, n)'
                                    /\ RecordedLots(p, n)' \in Nat
  <2>1. \A p \in Trades, n \in Legs : RecordedLots(p, n)' \in Nat
    <3> TAKE p \in Trades, n \in Legs
    <3>1. RecordedLots(p, n)' = RecordedLots(p, n) /\ RecordedLots(p, n) \in Nat
      BY RecordedFacts DEF BooksInv, RecordedLots, FillsOf
    <3> QED BY <3>1
  <2> QED BY <1>2, <1>3, <2>1 DEF Filled, Venue!Filled, Known, OnMarket, Venue!Open
<1>6. \A p \in Trades : Venued(p)'
  <2> TAKE p \in Trades
  <2>1. \A n \in Legs : BookRow(p, n)'
    <3> TAKE n \in Legs
    <3>1. book'[p][n] = Venue!NoSimOrder /\ Filled(p, n)' = 0
      BY <1>3, <1>5
    <3> QED BY <1>2, <3>1 DEF BookRow, Venue!Open
  <2>2. WaitingOne(p)'
    BY <1>1, <1>5 DEF WaitingOne
  <2>3. \A n \in Legs : Linked(p, n)'
    BY <1>5 DEF Linked
  <2>4. LateLots(p)'
    BY <1>5 DEF LateLots
  <2> QED BY <2>1, <2>2, <2>3, <2>4 DEF Venued
<1>7. QueueInv'
  <2>1. queue' \in Seq(Items) /\ DOMAIN queue' = {}
    BY <1>1
  <2>2. QueueHolds'
    BY <1>5 DEF QueueHolds
  <2> QED BY <2>1, <2>2 DEF QueueInv, QueueTells, QueueInOrder
<1>8. worker' \in WorkerStates /\ WorkerInv'
  BY <1>1, IdleState, WorkerFree
<1>9. Modes'
  BY <1>1 DEF Modes
<1> QED BY <1>4, <1>6, <1>7, <1>8, <1>9 DEF LInv

LEMMA CrashKeeps ==
  ASSUME LInv, Crash
  PROVE  LInv' /\ [Next]_vars
<1>1. /\ Emptied /\ UNCHANGED ledgerVars /\ mode' = "down" /\ BooksInv
      /\ connected' = FALSE /\ listening' = FALSE
      /\ pending' = [p \in Trades |-> <<>>]
  BY LInvFacts DEF Crash, Emptied
<1>2. BooksInv' /\ [Next]_vars /\ fills' = fills
  BY <1>1, NoChangeQuiet DEF Quiet
<1>3. PendingInv'
  <2>1. \A p \in Trades : pending'[p] = <<>>
    BY <1>1
  <2>2. <<>> \in Seq(Intents) /\ Len(<<>>) = 0
    OBVIOUS
  <2>3. pending' \in [Trades -> Seq(Intents)]
    BY <1>1, <2>2
  <2> QED BY <2>1, <2>2, <2>3 DEF PendingInv
<1>4. /\ mode' \in {"down", "starting", "ready", "blocked"} /\ mode' # "ready"
      /\ connected' = (mode' \in {"starting", "ready"})
      /\ listening' = (mode' = "ready")
  <2>1. (mode' \in {"starting", "ready"}) = FALSE /\ (mode' = "ready") = FALSE
    BY <1>1
  <2> QED BY <1>1, <2>1
<1> QED BY <1>1, <1>2, <1>3, <1>4, EmptiedKeeps

(* Outside "ready" the process holds nothing. *)
LEMMA NotReadyEmpty ==
  ASSUME LInv, mode # "ready", UNCHANGED <<book, waiting, queue, worker>>
  PROVE  Emptied
BY DEF LInv, Modes, Emptied

LEMMA StartKeeps ==
  ASSUME LInv, Start
  PROVE  LInv' /\ [Next]_vars
<1>1. /\ mode = "down" /\ mode' = "starting" /\ UNCHANGED ledgerVars
      /\ UNCHANGED <<listening, book, waiting, queue, worker, pending>>
      /\ connected' = TRUE
  BY DEF Start, Venue!Connect
<1>2. BooksInv' /\ [Next]_vars /\ fills' = fills
  BY <1>1, NoChangeQuiet DEF Quiet
<1>3. Emptied /\ PendingInv' /\ listening' = FALSE /\ BooksInv
  BY <1>1, NotReadyEmpty, PendingKept DEF LInv, Modes
<1>4. /\ mode' \in {"down", "starting", "ready", "blocked"} /\ mode' # "ready"
      /\ connected' = (mode' \in {"starting", "ready"})
      /\ listening' = (mode' = "ready")
  BY <1>1, <1>3
<1> QED BY <1>2, <1>3, <1>4, EmptiedKeeps

(* Reconciliation leaves no order of a flat trade active, but closes that  *)
(* an open position would need: the trades of a process that starts to     *)
(* trade are new or over.                                                  *)
LEMMA ReconciledDone ==
  ASSUME BooksInv, BooksInv', ReconcileLostBook, cursor = Len(fills),
         NEW p \in Trades, ~Discrepancy(p),
         \A n \in Legs : ~Known(p, n)'
  PROVE  Alive(p)' \/ Done(p)'
<1>1. /\ TypeOK /\ TypeOK' /\ TradeInv(p) /\ Accounts(p) /\ Accounts(p)' /\ Books(p)
      /\ UNCHANGED <<fills, cursor, position>>
  BY DEF BooksInv, AInv, IInv, ReconcileLostBook
<1>2. /\ \A n \in Legs : /\ orders[p][n] \in OrderRows
                         /\ orders'[p][n].status = Reconciled(n, orders[p][n].status)
      /\ \A n \in Legs : RecordedLots(p, n)' = RecordedLots(p, n)
      /\ ~PendingFill(p) /\ ~PendingFill(p)'
  <2>1. ~PendingFill(p) /\ ~PendingFill(p)'
    BY <1>1, FillsFacts DEF PendingFill
  <2>2. \A n \in Legs : RecordedLots(p, n)' = RecordedLots(p, n)
    BY <1>1 DEF RecordedLots, FillsOf
  <2>3. \A n \in Legs : orders[p][n] \in OrderRows
    BY <1>1 DEF TypeOK
  <2>4. \A n \in Legs : orders'[p][n].status = Reconciled(n, orders[p][n].status)
    <3> TAKE n \in Legs
    <3>1. orders'[p][n] = [orders[p][n] EXCEPT !.status = Reconciled(n, @)]
      BY DEF ReconcileLostBook
    <3> QED BY <2>3, <3>1 DEF OrderRows
  <2> QED BY <2>1, <2>2, <2>3, <2>4
<1>3. position[p].qty = 0 /\ position[p].qty \in Nat
  <2>1. Flat(p)
    BY DEF Discrepancy
  <2> QED BY <1>1, <2>1 DEF Flat, Accounts, PositionShape, TypeOK, PositionRows
<1>4. \A n \in CloseLegs : orders[p][n].status # "approved"
  <2> SUFFICES ASSUME NEW n \in CloseLegs, orders[p][n].status = "approved"
               PROVE  FALSE
    OBVIOUS
  <2> QED BY <1>1, <1>3 DEF Accounts, ReservedWhole, TradeInv, CloseShape
<1>5. \A n \in Legs : orders'[p][n].status \notin Active
  BY <1>2, <1>4, LegsFacts DEF Reconciled, Active, OrderRows
<1>6. CASE orders'[p][0].status \in Terminal
  BY <1>1, <1>2, <1>3, <1>5, <1>6 DEF Done
<1>7. CASE orders'[p][0].status \notin Terminal
  <2>1. orders[p][0].status = "none"
    BY <1>2, <1>7, LegsFacts DEF Reconciled, Terminal, OrderRows, Active
  <2>2. \A n \in CloseLegs : orders[p][n].status = "none"
    BY <1>1, <2>1 DEF Accounts, EntryOver, Reserved, Terminal
  <2>3. \A n \in Legs : RecordedLots(p, n) = 0
    BY <2>1, <2>2, LegsFacts, RecordedFacts DEF BooksInv
  <2> QED BY <1>2, <2>3 DEF Alive
<1> QED BY <1>6, <1>7

LEMMA RecoverKeeps ==
  ASSUME LInv, Recover
  PROVE  LInv' /\ [Next]_vars
<1>1. /\ mode = "starting" /\ cursor = Len(fills) /\ ReconcileLostBook
      /\ UNCHANGED <<book, waiting, queue, worker, pending>>
      /\ \/ /\ mode' = "blocked" /\ connected' = FALSE /\ listening' = FALSE
         \/ /\ \A p \in Trades : ~Discrepancy(p)
            /\ mode' = "ready" /\ listening' = TRUE /\ connected' = connected
  BY DEF Recover, Venue!Disconnect, Venue!Register
<1>2. Next /\ BooksInv' /\ BooksInv
  BY <1>1, BooksStep, LInvFacts DEF Next
<1>3. Emptied /\ PendingInv' /\ connected = TRUE
  BY <1>1, NotReadyEmpty, PendingKept DEF LInv, Modes
<1>4. \A p \in Trades, n \in Legs : ~Known(p, n)'
  BY <1>3 DEF Emptied, Known, Venue!NoSimOrder
<1>5. mode' = "ready" => \A p \in Trades : Alive(p)' \/ Done(p)'
  BY <1>1, <1>2, <1>4, ReconciledDone
<1>6. /\ mode' \in {"down", "starting", "ready", "blocked"}
      /\ connected' = (mode' \in {"starting", "ready"})
      /\ listening' = (mode' = "ready")
  <2>1. CASE mode' = "blocked" /\ connected' = FALSE /\ listening' = FALSE
    <3>1. (mode' \in {"starting", "ready"}) = FALSE /\ (mode' = "ready") = FALSE
      BY <2>1
    <3> QED BY <2>1, <3>1
  <2>2. CASE mode' = "ready" /\ listening' = TRUE /\ connected' = TRUE
    BY <2>2
  <2> QED BY <1>1, <1>3, <2>1, <2>2
<1>7. fills' = fills
  BY <1>1 DEF ReconcileLostBook
<1> QED BY <1>2, <1>3, <1>5, <1>6, <1>7, EmptiedKeeps
(***************************************************************************)
(* The invariant of the composed system.                                   *)
(***************************************************************************)
LEMMA LInvInit == LifecycleInit => LInv
<1> SUFFICES ASSUME LifecycleInit
             PROVE  LInv
  OBVIOUS
<1>1. /\ Init /\ worker = Idle /\ mode = "down" /\ queue = <<>>
      /\ connected = FALSE /\ listening = FALSE
      /\ book = [p \in Trades |-> [n \in Legs |-> Venue!NoSimOrder]]
      /\ waiting = [p \in Trades |-> <<>>]
      /\ pending = [p \in Trades |-> <<>>]
  BY DEF LifecycleInit, Venue!Init, Venue!Legs, Legs
<1>2. BooksInv
  BY <1>1, BooksInit
<1>3. /\ Venue!NoSimOrder = [status |-> "none", qty |-> 0, fillTs |-> <<>>]
      /\ Venue!NoSimOrder \in Venue!SimOrders
  <2>1. <<>> \in Seq(Times) /\ 0 \in 0..EntryQty
    BY LedgerAssumption
  <2> QED BY <2>1 DEF Venue!NoSimOrder, Venue!SimOrders
<1>4. \A p \in Trades, n \in Legs : book[p][n] = Venue!NoSimOrder
  BY <1>1
<1>5. \A p \in Trades, n \in Legs : /\ Filled(p, n) = 0
                                    /\ ~Known(p, n) /\ ~OnMarket(p, n)
                                    /\ RecordedLots(p, n) \in Nat
  BY <1>2, <1>3, <1>4, RecordedFacts
  DEF Filled, Venue!Filled, Known, OnMarket, Venue!Open, BooksInv
<1>6. \A p \in Trades : Venued(p)
  <2> TAKE p \in Trades
  <2>1. \A n \in Legs : BookRow(p, n)
    BY <1>3, <1>4, <1>5 DEF BookRow, Venue!Open
  <2>2. WaitingOne(p)
    BY <1>1, <1>5 DEF WaitingOne
  <2>3. LateLots(p) /\ \A n \in Legs : Linked(p, n)
    BY <1>5 DEF LateLots, Linked
  <2> QED BY <1>1, <2>1, <2>2, <2>3 DEF Venued
<1>7. QueueInv
  <2>1. queue \in Seq(Items) /\ DOMAIN queue = {}
    BY <1>1
  <2>2. QueueHolds
    BY <1>5 DEF QueueHolds
  <2> QED BY <2>1, <2>2 DEF QueueInv, QueueTells, QueueInOrder
<1>8. worker \in WorkerStates /\ WorkerInv
  BY <1>1, IdleState DEF WorkerInv
<1>9. PendingInv
  <2>1. <<>> \in Seq(Intents) /\ Len(<<>>) = 0
    OBVIOUS
  <2>2. \A p \in Trades : pending[p] = <<>>
    BY <1>1
  <2> QED BY <1>1, <2>1, <2>2 DEF PendingInv
<1>10. BookTypes
  <2>1. <<>> \in Seq(Legs)
    OBVIOUS
  <2> QED BY <1>1, <1>3, <2>1 DEF BookTypes
<1>11. Modes
  <2>1. mode = "down" /\ connected = FALSE /\ listening = FALSE
    BY <1>1
  <2>2. /\ mode \in {"down", "starting", "ready", "blocked"}
        /\ connected = (mode \in {"starting", "ready"})
        /\ listening = (mode = "ready")
    <3>1. (mode \in {"starting", "ready"}) = FALSE /\ (mode = "ready") = FALSE
      BY <2>1
    <3> QED BY <2>1, <3>1
  <2> QED BY <1>1, <2>2 DEF Modes
<1> QED BY <1>2, <1>6, <1>7, <1>8, <1>9, <1>10, <1>11 DEF LInv

(* No step that can be taken while every fill is recorded breaks it, and   *)
(* each is a step of the ledger's own specification, or leaves the ledger  *)
(* alone.                                                                  *)
LEMMA LInvStep ==
  ASSUME LInv, [LifecycleNext]_lifecycleVars, "record_fill" \notin FaultySteps
  PROVE  LInv' /\ [Next]_vars
<1>1. CASE Worker
  BY <1>1, TakeApprovalKeeps, PlaceEntryKeeps, AckEntryKeeps, TakeUpdateKeeps,
     BeginObservationsKeeps, ObserveOneKeeps, ServiceKeeps, PrepareKeeps, CancelEntryKeeps,
     RecordEntryFillKeeps, EntryCancelledKeeps, ClaimKeeps, PlaceCloseKeeps, AckCloseKeeps
  DEF Worker
<1>2. CASE ApplyNextFill \/ Clock
  BY <1>2, SurroundingsKeep
<1>3. CASE Crash \/ Start \/ Recover
  BY <1>3, CrashKeeps, StartKeeps, RecoverKeeps
<1>4. CASE \E p \in Trades : Approve(p) \/ MarketTick(p) \/ \E r \in ExitReasons : Latch(p, r)
  BY <1>4, ApproveKeeps, MarketTickKeeps, LatchKeeps
<1>5. CASE UNCHANGED lifecycleVars
  <2>1. UNCHANGED <<ledgerVars, bookVars, queue, worker, pending, mode>>
    BY <1>5 DEF lifecycleVars, venueVars, bookVars
  <2>2. worker' \in WorkerStates /\ WorkerInv'
    BY <2>1, WorkerStands DEF bookVars
  <2> QED BY <2>1, <2>2, NoChangeQuiet, LedgerQuietKeeps, QueueKept, PendingKept
<1> QED BY <1>1, <1>2, <1>3, <1>4, <1>5 DEF LifecycleNext

(* The worker, its queue, the venue's book and the ledger agree, whatever  *)
(* ticks, redeliveries, lost acknowledgements, crashes and restarts come:  *)
(* each order of the venue was permitted by the ledger, each lot is        *)
(* recorded or queued, in its order, and nothing the worker holds across   *)
(* an await has become untrue.                                             *)
THEOREM LifecycleInductive ==
  ASSUME "record_fill" \notin FaultySteps
  PROVE  LifecycleSpec => []LInv
<1>1. LInv /\ [LifecycleNext]_lifecycleVars => LInv'
  BY LInvStep
<1> QED BY <1>1, LInvInit, PTL DEF LifecycleSpec

(* Type correctness of the composed system. *)
THEOREM LifecycleTypes ==
  ASSUME "record_fill" \notin FaultySteps
  PROVE  LifecycleSpec => []LifecycleTypeOK
<1>1. LInv => LifecycleTypeOK
  BY DEF LInv, PendingInv, Modes, LifecycleTypeOK
<1> QED BY <1>1, LifecycleInductive, PTL

(* The real worker, venue, Portfolio State worker and restart use the      *)
(* ledger only as ExecutionLedger allows its callers: every theorem about  *)
(* the ledger holds in the running system.                                 *)
THEOREM LedgerContractTheorem ==
  ASSUME "record_fill" \notin FaultySteps
  PROVE  LifecycleSpec => LedgerContract
<1>1. LifecycleInit => Init
  BY DEF LifecycleInit
<1>2. LInv /\ [LifecycleNext]_lifecycleVars => [Next]_vars
  BY LInvStep
<1> QED BY <1>1, <1>2, LifecycleInductive, PTL DEF LifecycleSpec, LedgerContract, Spec

(***************************************************************************)
(* The venue's net lots and the ledger's position.                         *)
(***************************************************************************)
SoldAtVenue(p) ==
  {x \in CloseLegs \X (1..EntryQty) : x[2] <= Filled(p, x[1])}

(* What the venue nets, in the ledger's terms. *)
LEMMA NetLotsAre ==
  ASSUME NEW p \in Trades
  PROVE  /\ Venue!NetLots(p) = Filled(p, 0) - Cardinality(SoldAtVenue(p))
         /\ IsFiniteSet(SoldAtVenue(p))
         /\ Cardinality(SoldAtVenue(p)) \in Nat
<1>1. (Venue!Legs \ {0}) = CloseLegs
  BY LedgerAssumption DEF Venue!Legs, CloseLegs
<1>2. {x \in (Venue!Legs \ {0}) \X (1..EntryQty) : x[2] <= Venue!Filled(p, x[1])}
        = SoldAtVenue(p)
  BY <1>1 DEF SoldAtVenue, Filled
<1>3. Venue!NetLots(p) = Filled(p, 0) - Cardinality(SoldAtVenue(p))
  BY <1>2, SameCount DEF Venue!NetLots, Filled
<1>4. IsFiniteSet(CloseLegs \X (1..EntryQty))
  <2>1. IsFiniteSet(CloseLegs) /\ IsFiniteSet(1..EntryQty)
    BY LedgerAssumption, FS_Interval DEF CloseLegs
  <2> QED BY <2>1, FS_Product
<1>5. SoldAtVenue(p) \subseteq CloseLegs \X (1..EntryQty)
  BY DEF SoldAtVenue
<1> QED BY <1>3, <1>4, <1>5, FS_Subset, FS_CardinalityType

LEMMA NothingTraded ==
  ASSUME LInv, NEW p \in Trades, \A n \in Legs : ~Known(p, n)
  PROVE  Venue!NetLots(p) = 0 /\ SoldAtVenue(p) = {}
<1>1. \A n \in Legs : Filled(p, n) = 0
  BY BookFacts
<1>2. SoldAtVenue(p) = {}
  <2> SUFFICES ASSUME NEW n \in CloseLegs, NEW k \in 1..EntryQty, k <= Filled(p, n)
               PROVE  FALSE
    BY DEF SoldAtVenue
  <2> QED BY <1>1, LegsFacts
<1> QED BY <1>1, <1>2, NetLotsAre, FS_EmptySet, LegsFacts

(* With every lot of a trade recorded, the venue nets the ledger's balance. *)
LEMMA RecordedNet ==
  ASSUME LInv, NEW p \in Trades, ~PendingFill(p),
         \A n \in Legs : RecordedLots(p, n) = Filled(p, n)
  PROVE  position[p].qty = Venue!NetLots(p)
<1>1. Books(p) /\ AInv /\ TypeOK
  BY LInvFacts
<1>2. PendingEntries(p) = 0 /\ PendingCloses(p) = 0
  BY <1>1, PendingByLegs, FS_EmptySet DEF PendingEntries, PendingCloses
<1>3. SoldLots(p) = SoldAtVenue(p)
  BY LegsFacts DEF SoldLots, SoldAtVenue
<1>4. Cardinality(SoldLots(p)) \in Nat /\ position[p].qty \in Nat /\ RecordedLots(p, 0) \in Nat
  BY <1>1, SoldFinite, RecordedFacts, LegsFacts
<1>5. RecordedLots(p, 0) - Cardinality(SoldLots(p)) = position[p].qty
  BY <1>1, <1>2, <1>4 DEF Books, Balance
<1>6. RecordedLots(p, 0) = Filled(p, 0)
  BY LegsFacts
<1> QED BY <1>3, <1>5, <1>6, NetLotsAre

(* At rest the queue holds nothing, so nothing is unrecorded.              *)
LEMMA RestRecords ==
  ASSUME LInv, AtRest, NEW p \in Trades
  PROVE  position[p].qty = Venue!NetLots(p)
<1>1. mode = "ready" /\ queue = <<>> /\ cursor = Len(fills)
  BY DEF AtRest, WorkerAt
<1>2. Venued(p) /\ QueueHolds /\ TypeOK
  BY LInvFacts DEF LInv, QueueInv
<1>3. ~PendingFill(p)
  BY <1>1, <1>2, FillsFacts DEF PendingFill
<1>4. ASSUME NEW n \in Legs
      PROVE  Filled(p, n) <= RecordedLots(p, n)
  <2>1. Filled(p, n) \in Nat /\ RecordedLots(p, n) \in Nat
    BY BookFacts
  <2>2. ~(RecordedLots(p, n) < Filled(p, n))
    <3> SUFFICES ASSUME RecordedLots(p, n) < Filled(p, n)
                 PROVE  FALSE
      OBVIOUS
    <3>1. \E i \in DOMAIN queue : IsUpdate(i, p, n) /\ queue[i].lot = Filled(p, n)
      BY <1>2, <2>1 DEF QueueHolds
    <3> QED BY <1>1, <3>1
  <2> QED BY <2>1, <2>2
<1>5. CASE Alive(p)
  <2>1. ASSUME NEW n \in Legs
        PROVE  RecordedLots(p, n) = Filled(p, n)
    <3>1. CASE Known(p, n)
      <4>1. RecordedLots(p, n) <= Filled(p, n)
        BY <1>2, <3>1 DEF Venued, Linked
      <4> QED BY <1>4, <4>1, BookFacts
    <3>2. CASE ~Known(p, n)
      BY <1>5, <3>2, BookFacts DEF Alive
    <3> QED BY <3>1, <3>2
  <2> QED BY <1>3, <2>1, RecordedNet
<1>6. CASE Done(p)
  BY <1>6, NothingTraded DEF Done
<1> QED BY <1>1, <1>2, <1>5, <1>6 DEF Venued

(* Whenever the worker rests with its queue empty and every fill is        *)
(* applied, the ledger's positions are the venue's: no race of ticks,      *)
(* cancellations, read-backs, crashes and restarts loses a fill or counts  *)
(* one twice.                                                              *)
THEOREM PositionsAgree ==
  ASSUME "record_fill" \notin FaultySteps
  PROVE  LifecycleSpec => []AtRestPositionsAgree
<1>1. LInv => AtRestPositionsAgree
  BY RestRecords DEF AtRestPositionsAgree
<1> QED BY <1>1, LifecycleInductive, PTL

(***************************************************************************)
(* The composed system implements ReduceOnlyExit.                          *)
(***************************************************************************)
Held == [p \in Trades |-> Venue!NetLots(p)]
Entering == [p \in Trades |-> book[p][0].status \in Venue!Open]
Closing == [p \in Trades |-> Cardinality(LotsAtVenue(p))]

LEMMA NetLotsNext ==
  ASSUME NEW p \in Trades
  PROVE  Venue!NetLots(p)' = Filled(p, 0)' - Cardinality(SoldAtVenue(p)')
<1>1. (Venue!Legs \ {0}) = CloseLegs
  BY LedgerAssumption DEF Venue!Legs, CloseLegs
<1>2. {x \in (Venue!Legs \ {0}) \X (1..EntryQty) : x[2] <= Venue!Filled(p, x[1])}'
        = SoldAtVenue(p)'
  BY <1>1 DEF SoldAtVenue, Filled
<1> QED BY <1>2 DEF Venue!NetLots, Filled, Venue!Cardinality, Cardinality

(* The lots of a trade whose book stands. *)
LEMMA SameLots ==
  ASSUME NEW p \in Trades, book'[p] = book[p]
  PROVE  /\ Venue!NetLots(p)' = Venue!NetLots(p)
         /\ LotsAtVenue(p)' = LotsAtVenue(p)
<1>1. \A n : Filled(p, n)' = Filled(p, n)
  BY DEF Filled, Venue!Filled
<1>2. Venue!NetLots(p)' = Venue!NetLots(p)
  <2>1. SoldAtVenue(p)' = SoldAtVenue(p)
    BY <1>1 DEF SoldAtVenue
  <2> QED BY <1>1, <2>1, NetLotsAre, NetLotsNext
<1>3. LotsAtVenue(p)' = LotsAtVenue(p)
  BY <1>1 DEF LotsAtVenue, Filled
<1> QED BY <1>2, <1>3

LEMMA ExitStands ==
  ASSUME book' = book
  PROVE  UNCHANGED Exit!exitVars
<1>1. \A p \in Trades : /\ Venue!NetLots(p)' = Venue!NetLots(p)
                        /\ LotsAtVenue(p)' = LotsAtVenue(p)
  BY SameLots
<1>2. /\ Held' = Held /\ Entering' = Entering /\ Closing' = Closing
  BY <1>1 DEF Held, Entering, Closing
<1> QED BY <1>2 DEF Held, Entering, Closing, Exit!exitVars

(* What a step does that changes the book of one trade only. *)
LEMMA ExitMoves ==
  ASSUME NEW p \in Trades, \A q \in Trades : q # p => book'[q] = book[q],
         NEW h, Venue!NetLots(p)' = h,
         NEW c, Cardinality(LotsAtVenue(p)') = c,
         NEW e \in BOOLEAN, OnMarket(p, 0)' <=> e
  PROVE  /\ Held' = [Held EXCEPT ![p] = h]
         /\ Closing' = [Closing EXCEPT ![p] = c]
         /\ Entering' = [Entering EXCEPT ![p] = e]
         /\ h = Venue!NetLots(p) => Held' = Held
         /\ c = Cardinality(LotsAtVenue(p)) => Closing' = Closing
         /\ (OnMarket(p, 0) <=> e) => Entering' = Entering
<1>1. \A q \in Trades : q # p => /\ Venue!NetLots(q)' = Venue!NetLots(q)
                                 /\ LotsAtVenue(q)' = LotsAtVenue(q)
                                 /\ OnMarket(q, 0)' <=> OnMarket(q, 0)
  BY SameLots DEF OnMarket
<1>2. Held' = [Held EXCEPT ![p] = h]
  BY <1>1 DEF Held
<1>3. Closing' = [Closing EXCEPT ![p] = c]
  BY <1>1 DEF Closing
<1>4. Entering' = [Entering EXCEPT ![p] = e]
  BY <1>1 DEF Entering, OnMarket
<1>5. h = Venue!NetLots(p) => Held' = Held
  BY <1>2 DEF Held
<1>6. c = Cardinality(LotsAtVenue(p)) => Closing' = Closing
  BY <1>3 DEF Closing
<1>7. (OnMarket(p, 0) <=> e) => Entering' = Entering
  BY <1>4 DEF Entering, OnMarket
<1> QED BY <1>2, <1>3, <1>4, <1>5, <1>6, <1>7


(***************************************************************************)
(* The steps that reach the venue.                                         *)
(***************************************************************************)
(* An order has lots in the market only while it is there. *)
LEMMA LotsFacts ==
  ASSUME LInv, NEW p \in Trades
  PROVE  /\ IsFiniteSet(LotsAtVenue(p)) /\ Cardinality(LotsAtVenue(p)) \in Nat
         /\ (\A n \in CloseLegs : ~OnMarket(p, n)) =>
              LotsAtVenue(p) = {} /\ Cardinality(LotsAtVenue(p)) = 0
<1>1. IsFiniteSet(CloseLegs) /\ IsFiniteSet(1..EntryQty)
  BY LedgerAssumption, FS_Interval DEF CloseLegs
<1>2. IsFiniteSet(CloseLegs \X (1..EntryQty))
  BY <1>1, FS_Product
<1>3. LotsAtVenue(p) \subseteq CloseLegs \X (1..EntryQty)
  BY DEF LotsAtVenue
<1>4. (\A n \in CloseLegs : ~OnMarket(p, n)) => LotsAtVenue(p) = {}
  BY DEF LotsAtVenue, OnMarket
<1> QED BY <1>2, <1>3, <1>4, FS_Subset, FS_CardinalityType, FS_EmptySet

(* A tick buys a lot of the entry, or sells one of the close. *)
LEMMA TickRefines ==
  ASSUME LInv, NEW p \in Trades, MarketTick(p)
  PROVE  Exit!Buy(p) \/ Exit!Sell(p)
<1>n. PICK n \in Legs, b \in Venue!SimOrders, f \in Nat : TickFills(p, n, b, f)
  BY TickMoves
<1>1. /\ \A m \in Legs : OnMarket(p, m) <=> m = n
      /\ f = Filled(p, n) /\ b.qty = book[p][n].qty /\ Len(b.fillTs) = f + 1
      /\ b.status = IF f + 1 = b.qty THEN "filled" ELSE "partially_filled"
      /\ f + 1 <= b.qty /\ b.qty <= EntryQty /\ b.qty \in Nat
      /\ book'[p][n] = b
      /\ \A m \in Legs : m # n => book'[p][m] = book[p][m]
      /\ \A q \in Trades : q # p => book'[q] = book[q]
  BY <1>n DEF TickFills
<1>2. /\ Filled(p, n)' = f + 1
      /\ OnMarket(p, n)' <=> f + 1 # b.qty
      /\ \A m \in Legs : m # n => Filled(p, m)' = Filled(p, m) /\ ~OnMarket(p, m)'
  BY <1>1 DEF Filled, Venue!Filled, OnMarket, Venue!Open
<1>3. /\ Venue!NetLots(p) = Filled(p, 0) - Cardinality(SoldAtVenue(p))
      /\ IsFiniteSet(SoldAtVenue(p)) /\ Cardinality(SoldAtVenue(p)) \in Nat
      /\ Venue!NetLots(p)' = Filled(p, 0)' - Cardinality(SoldAtVenue(p)')
      /\ IsFiniteSet(LotsAtVenue(p)) /\ Cardinality(LotsAtVenue(p)) \in Nat
      /\ 0 \in Legs /\ CloseLegs \subseteq Legs /\ 0 \notin CloseLegs
      /\ EntryQty \in Nat
  BY NetLotsAre, NetLotsNext, LotsFacts, LegsFacts, LedgerAssumption
<1>4. CASE n = 0
  <2>1. SoldAtVenue(p)' = SoldAtVenue(p)
    BY <1>2, <1>3, <1>4 DEF SoldAtVenue
  <2>2. LotsAtVenue(p)' = LotsAtVenue(p)
    <3>1. \A m \in CloseLegs : book'[p][m] = book[p][m] /\ Filled(p, m)' = Filled(p, m)
      BY <1>1, <1>2, <1>3, <1>4
    <3> QED BY <3>1 DEF LotsAtVenue, Filled
  <2>3. /\ Venue!NetLots(p)' = Venue!NetLots(p) + 1
        /\ Venue!NetLots(p) < EntryQty
    BY <1>1, <1>2, <1>3, <1>4, <2>1
  <2>4. PICK more \in BOOLEAN : OnMarket(p, 0)' <=> more
    OBVIOUS
  <2>5. /\ Held' = [Held EXCEPT ![p] = Venue!NetLots(p) + 1]
        /\ Closing' = Closing
        /\ Entering' = [Entering EXCEPT ![p] = more]
    <3>1. PICK h : h = Venue!NetLots(p) + 1
      OBVIOUS
    <3> QED BY <1>1, <2>2, <2>3, <2>4, <3>1, ExitMoves
  <2>6. Held[p] = Venue!NetLots(p) /\ Entering[p]
    BY <1>1, <1>4 DEF Held, Entering, OnMarket
  <2> QED BY <2>3, <2>5, <2>6 DEF Exit!Buy, Held, Closing, Entering
<1>5. CASE n # 0
  <2> DEFINE y == <<n, f + 1>>
  <2>0. n \in CloseLegs /\ y \in CloseLegs \X (1..EntryQty)
    BY <1>1, <1>3, <1>5, LegsFacts
  <2>1. /\ y \notin SoldAtVenue(p) /\ SoldAtVenue(p)' = SoldAtVenue(p) \cup {y}
    <3>1. y \notin SoldAtVenue(p)
      BY <1>1 DEF SoldAtVenue
    <3>2. \A m \in CloseLegs, k \in 1..EntryQty :
            k <= Filled(p, m)' <=> (k <= Filled(p, m) \/ <<m, k>> = y)
      <4> TAKE m \in CloseLegs, k \in 1..EntryQty
      <4>1. CASE m = n
        BY <1>1, <1>2, <4>1
      <4>2. CASE m # n
        BY <1>2, <1>3, <4>2
      <4> QED BY <4>1, <4>2
    <3> QED BY <2>0, <3>1, <3>2 DEF SoldAtVenue
  <2>2. /\ y \in LotsAtVenue(p) /\ LotsAtVenue(p)' = LotsAtVenue(p) \ {y}
    <3>1. y \in LotsAtVenue(p)
      BY <1>1, <2>0 DEF LotsAtVenue, OnMarket, Filled
    <3>2. \A m \in CloseLegs, k \in 1..EntryQty :
            (OnMarket(p, m)' /\ Filled(p, m)' < k /\ k <= book'[p][m].qty) <=>
              /\ OnMarket(p, m) /\ Filled(p, m) < k /\ k <= book[p][m].qty
              /\ <<m, k>> # y
      <4> TAKE m \in CloseLegs, k \in 1..EntryQty
      <4>1. CASE m = n
        BY <1>1, <1>2, <4>1
      <4>2. CASE m # n
        BY <1>1, <1>2, <1>3, <4>2
      <4> QED BY <4>1, <4>2
    <3> QED BY <2>0, <3>1, <3>2 DEF LotsAtVenue, OnMarket, Filled
  <2> HIDE DEF y
  <2>3. /\ Cardinality(SoldAtVenue(p)') = Cardinality(SoldAtVenue(p)) + 1
        /\ Cardinality(LotsAtVenue(p)') = Cardinality(LotsAtVenue(p)) - 1
    BY <1>3, <2>1, <2>2, AddedLot, RemovedLot
  <2>4. Cardinality(LotsAtVenue(p)) > 0
    BY <1>3, <2>2, FS_EmptySet
  <2>5. Filled(p, 0)' = Filled(p, 0) /\ ~OnMarket(p, 0) /\ ~OnMarket(p, 0)'
        /\ Filled(p, 0) \in Nat
    BY <1>1, <1>2, <1>3, <1>5, BookFacts
  <2>6. Venue!NetLots(p)' = Venue!NetLots(p) - 1
    BY <1>3, <2>3, <2>5
  <2>7. /\ Held' = [Held EXCEPT ![p] = Venue!NetLots(p) - 1]
        /\ Closing' = [Closing EXCEPT ![p] = Cardinality(LotsAtVenue(p)) - 1]
        /\ Entering' = Entering
    <3>1. PICK h, c : h = Venue!NetLots(p) - 1 /\ c = Cardinality(LotsAtVenue(p)) - 1
      OBVIOUS
    <3>2. PICK e \in BOOLEAN : e = FALSE
      OBVIOUS
    <3> QED BY <1>1, <2>3, <2>5, <2>6, <3>1, <3>2, ExitMoves
  <2>8. Held[p] = Venue!NetLots(p) /\ Closing[p] = Cardinality(LotsAtVenue(p))
    BY DEF Held, Closing
  <2> QED BY <2>4, <2>7, <2>8 DEF Exit!Sell, Held, Closing, Entering
<1> QED BY <1>4, <1>5

(* A cancelled entry leaves the market with what it has bought. *)
LEMMA CancelRefines ==
  ASSUME LInv, NEW p \in Trades, Venue!CancelOrder(p, 0)
  PROVE  Exit!EndEntry(p) \/ UNCHANGED Exit!exitVars
<1>1. CASE ~OnMarket(p, 0)
  BY <1>1, ExitStands DEF Venue!CancelOrder, OnMarket, Venue!venueVars
<1>2. CASE OnMarket(p, 0)
  <2>0. book \in [Trades -> [Legs -> Venue!SimOrders]] /\ 0 \in Legs
    BY LInvFacts, LegsFacts
  <2>1. book' = [book EXCEPT ![p][0].status = "cancelled"]
    BY <1>2 DEF Venue!CancelOrder, OnMarket
  <2>b. PICK b : b = [book[p][0] EXCEPT !.status = "cancelled"]
    OBVIOUS
  <2>2. b.status = "cancelled" /\ b.fillTs = book[p][0].fillTs
    BY <2>0, <2>b DEF Venue!SimOrders
  <2>3. /\ book'[p][0] = b
        /\ \A m \in Legs : m # 0 => book'[p][m] = book[p][m]
        /\ \A q \in Trades : q # p => book'[q] = book[q]
    BY <2>0, <2>1, <2>b
  <2>4. \A m \in Legs : Filled(p, m)' = Filled(p, m)
    BY <2>2, <2>3 DEF Filled, Venue!Filled
  <2>5. Venue!NetLots(p)' = Venue!NetLots(p)
    <3>1. SoldAtVenue(p)' = SoldAtVenue(p)
      BY <2>4, LegsFacts DEF SoldAtVenue
    <3> QED BY <2>0, <2>4, <3>1, NetLotsAre, NetLotsNext
  <2>6. LotsAtVenue(p)' = LotsAtVenue(p)
    <3>1. \A m \in CloseLegs : book'[p][m] = book[p][m] /\ Filled(p, m)' = Filled(p, m)
      BY <2>3, <2>4, LegsFacts
    <3> QED BY <3>1 DEF LotsAtVenue, Filled
  <2>7. ~OnMarket(p, 0)'
    BY <2>2, <2>3 DEF OnMarket, Venue!Open
  <2>8. /\ Held' = Held /\ Closing' = Closing
        /\ Entering' = [Entering EXCEPT ![p] = FALSE]
    <3>1. PICK e \in BOOLEAN : e = FALSE
      OBVIOUS
    <3> QED BY <2>3, <2>5, <2>6, <2>7, <3>1, ExitMoves
  <2>9. Entering[p]
    BY <1>2 DEF Entering, OnMarket
  <2> QED BY <2>8, <2>9 DEF Exit!EndEntry, Held, Closing, Entering
<1> QED BY <1>1, <1>2

(* A placement changes no lots but those of its own order. *)
LEMMA PlacedLots ==
  ASSUME LInv, mode = "ready", NEW p \in Trades, NEW n \in Legs, NEW qty \in 1..EntryQty,
         NEW regular \in BOOLEAN, Venue!PlaceOrder(p, n, qty, regular),
         orders[p][n].status \in Active, ~Known(p, n)
  PROVE  /\ \A q \in Trades : q # p => book'[q] = book[q]
         /\ Venue!NetLots(p)' = Venue!NetLots(p)
         /\ \A m \in Legs : OnMarket(p, m)' <=> regular /\ m = n
         /\ \A m \in Legs : ~OnMarket(p, m)
         /\ LotsAtVenue(p) = {} /\ Cardinality(LotsAtVenue(p)) = 0
         /\ LotsAtVenue(p)' = IF regular /\ n # 0 THEN {n} \X (1..qty) ELSE {}
         /\ Alive(p)
<1>b. PICK b : b = Venue!NewSimOrder(qty, regular)
  OBVIOUS
<1>1. /\ b = [status |-> IF regular THEN "submitted" ELSE "rejected",
              qty |-> qty, fillTs |-> <<>>]
      /\ book'[p][n] = b
      /\ \A m \in Legs : m # n => book'[p][m] = book[p][m]
      /\ \A q \in Trades : q # p => book'[q] = book[q]
      /\ \A m \in Legs : ~OnMarket(p, m)
      /\ Alive(p)
  BY <1>b, PlacedMoves
<1>2. \A m \in Legs : Filled(p, m)' = Filled(p, m)
  <2>1. Filled(p, n) = 0 /\ Filled(p, n)' = 0
    BY <1>1, BookFacts DEF Filled, Venue!Filled
  <2> QED BY <1>1, <2>1 DEF Filled, Venue!Filled
<1>3. Venue!NetLots(p)' = Venue!NetLots(p)
  <2>1. SoldAtVenue(p)' = SoldAtVenue(p)
    BY <1>2, LegsFacts DEF SoldAtVenue
  <2> QED BY <1>2, <2>1, LegsFacts, NetLotsAre, NetLotsNext
<1>4. \A m \in Legs : OnMarket(p, m)' <=> regular /\ m = n
  BY <1>1 DEF OnMarket, Venue!Open
<1>5. LotsAtVenue(p) = {} /\ Cardinality(LotsAtVenue(p)) = 0
  BY <1>1, LotsFacts, LegsFacts
<1>6. LotsAtVenue(p)' = IF regular /\ n # 0 THEN {n} \X (1..qty) ELSE {}
  <2>0. /\ Filled(p, n)' = 0 /\ book'[p][n].qty = qty
        /\ CloseLegs \subseteq Legs /\ 0 \notin CloseLegs /\ EntryQty \in Nat
        /\ n # 0 => n \in CloseLegs
    BY <1>1, LegsFacts, LedgerAssumption DEF Filled, Venue!Filled
  <2>1. \A m \in CloseLegs, k \in 1..EntryQty :
          (OnMarket(p, m)' /\ Filled(p, m)' < k /\ k <= book'[p][m].qty) <=>
            regular /\ m = n /\ k <= qty
    BY <1>4, <2>0
  <2>2. LotsAtVenue(p)' =
          {x \in CloseLegs \X (1..EntryQty) : regular /\ x[1] = n /\ x[2] <= qty}
    BY <2>1 DEF LotsAtVenue, OnMarket, Filled
  <2>3. CASE regular /\ n # 0
    <3>1. \A k : k \in 1..qty <=> k \in 1..EntryQty /\ k <= qty
      BY <2>0
    <3> QED BY <2>0, <2>2, <2>3, <3>1
  <2>4. CASE ~(regular /\ n # 0)
    BY <2>0, <2>2, <2>4
  <2> QED BY <2>3, <2>4
<1> QED BY <1>1, <1>3, <1>4, <1>5, <1>6

LEMMA PlaceEntryRefines ==
  ASSUME LInv, PlaceEntry
  PROVE  Exit!Next \/ UNCHANGED Exit!exitVars
<1>p. PICK p : p = worker.trade
  OBVIOUS
<1>r. PICK regular \in BOOLEAN : regular = (now \in RegularSession)
  <2>1. (now \in RegularSession) \in BOOLEAN
    OBVIOUS
  <2> WITNESS (now \in RegularSession) \in BOOLEAN
  <2> QED OBVIOUS
<1>1. /\ worker.step = "place_entry" /\ mode = "ready"
      /\ Venue!PlaceOrder(p, 0, EntryQty, regular)
  BY <1>p, <1>r DEF PlaceEntry, WorkerAt
<1>2. /\ p \in Trades /\ 0 \in Legs /\ orders[p][0].status = "approved"
      /\ "approved" \in Active /\ EntryQty \in 1..EntryQty
  BY <1>p, <1>1, WorkerFields, LegsFacts, LedgerAssumption DEF LInv, WorkerInv, Active
<1>3. CASE Known(p, 0)
  BY <1>1, <1>3, ExitStands DEF Venue!PlaceOrder, Known, Venue!Known, Venue!venueVars
<1>4. CASE ~Known(p, 0)
  <2>1. /\ \A q \in Trades : q # p => book'[q] = book[q]
        /\ Venue!NetLots(p)' = Venue!NetLots(p)
        /\ OnMarket(p, 0)' <=> regular
        /\ ~OnMarket(p, 0)
        /\ LotsAtVenue(p)' = {} /\ LotsAtVenue(p) = {} /\ Cardinality(LotsAtVenue(p)) = 0
    BY <1>1, <1>2, <1>4, PlacedLots
  <2>2. \A m \in Legs : ~Known(p, m)
    <3> SUFFICES ASSUME NEW m \in Legs, m # 0, Known(p, m)
                 PROVE  FALSE
      BY <1>4
    <3>1. m \in CloseLegs /\ orders[p][m].status # "none"
      BY <1>2, LInvFacts, LegsFacts DEF Venued, Linked
    <3>2. orders[p][0].status \in Terminal
      BY <1>2, <3>1, LInvFacts DEF Accounts, EntryOver, Reserved
    <3> QED BY <1>2, <3>2 DEF Terminal
  <2>3. Venue!NetLots(p) = 0
    BY <1>2, <2>2, NothingTraded
  <2>4. /\ Held' = Held /\ Closing' = Closing
        /\ Entering' = [Entering EXCEPT ![p] = regular]
        /\ ~regular => Entering' = Entering
    <3>1. PICK h, c : h = Venue!NetLots(p) /\ c = Cardinality(LotsAtVenue(p))
      OBVIOUS
    <3>2. Cardinality(LotsAtVenue(p)') = c
      BY <2>1, <3>1
    <3> QED BY <1>2, <2>1, <3>1, <3>2, ExitMoves
  <2>5. CASE regular
    <3>1. Held[p] = 0 /\ Closing[p] = 0 /\ ~Entering[p]
      BY <1>2, <2>1, <2>3 DEF Held, Closing, Entering, OnMarket
    <3>2. Entering' = [Entering EXCEPT ![p] = TRUE]
      BY <2>4, <2>5
    <3>3. Exit!SendEntry(p)
      BY <2>4, <3>1, <3>2 DEF Exit!SendEntry, Held, Closing, Entering
    <3> QED BY <1>2, <3>3 DEF Exit!Next
  <2>6. CASE ~regular
    BY <2>4, <2>6 DEF Held, Closing, Entering, Exit!exitVars
  <2> QED BY <2>5, <2>6
<1> QED BY <1>3, <1>4

(* The close the worker sends is still for exactly what is held. *)
LEMMA PlaceCloseRefines ==
  ASSUME LInv, PlaceClose
  PROVE  Exit!Next \/ UNCHANGED Exit!exitVars
<1>p. PICK p, n : p = worker.trade /\ n = worker.leg
  OBVIOUS
<1>r. PICK regular \in BOOLEAN : regular = (now \in RegularSession)
  <2>1. (now \in RegularSession) \in BOOLEAN
    OBVIOUS
  <2> WITNESS (now \in RegularSession) \in BOOLEAN
  <2> QED OBVIOUS
<1>1. /\ worker.step = "place_close" /\ mode = "ready"
      /\ Venue!PlaceOrder(p, n, orders[p][n].qty, regular)
  BY <1>p, <1>r DEF PlaceClose, WorkerAt
<1>2. /\ p \in Trades /\ n \in CloseLegs /\ n \in Legs /\ n # 0 /\ 0 \in Legs
      /\ orders[p][n].status = "approved" /\ "approved" \in Active
  BY <1>p, <1>1, WorkerFields, LegsFacts DEF LInv, WorkerInv, Active
<1>q. PICK qty \in 1..EntryQty : qty = orders[p][n].qty
  <2>1. orders[p][n].qty <= EntryQty
    BY <1>2, LInvFacts DEF Books, ClosesFit
  <2>2. orders[p][n].qty # 0 /\ orders[p][n].qty \in Nat
    BY <1>2, LInvFacts DEF TradeInv, CloseShape, OrderRows
  <2> QED BY <2>1, <2>2, LedgerAssumption
<1>3. CASE Known(p, n)
  BY <1>1, <1>3, ExitStands DEF Venue!PlaceOrder, Known, Venue!Known, Venue!venueVars
<1>4. CASE ~Known(p, n)
  <2>1. /\ \A q \in Trades : q # p => book'[q] = book[q]
        /\ Venue!NetLots(p)' = Venue!NetLots(p)
        /\ ~OnMarket(p, 0)' /\ ~OnMarket(p, 0)
        /\ LotsAtVenue(p) = {} /\ Cardinality(LotsAtVenue(p)) = 0
        /\ LotsAtVenue(p)' = IF regular THEN {n} \X (1..qty) ELSE {}
        /\ Alive(p)
    <3>1. Venue!PlaceOrder(p, n, qty, regular)
      BY <1>1, <1>q
    <3>2. /\ \A q \in Trades : q # p => book'[q] = book[q]
          /\ Venue!NetLots(p)' = Venue!NetLots(p)
          /\ \A m \in Legs : OnMarket(p, m)' <=> regular /\ m = n
          /\ \A m \in Legs : ~OnMarket(p, m)
          /\ LotsAtVenue(p) = {} /\ Cardinality(LotsAtVenue(p)) = 0
          /\ LotsAtVenue(p)' = IF regular /\ n # 0 THEN {n} \X (1..qty) ELSE {}
          /\ Alive(p)
      BY <1>1, <1>2, <1>4, <3>1, PlacedLots
    <3> QED BY <1>2, <3>2
  <2>2. \A m \in Legs : RecordedLots(p, m) = Filled(p, m)
    <3> TAKE m \in Legs
    <3>1. CASE Known(p, m)
      <4>1. orders[p][m].status \notin Active
        BY <1>2, <1>4, <3>1, ActiveAlone, LInvFacts
      <4> QED BY <1>2, <3>1, <4>1, LInvFacts DEF Venued, Linked, Over
    <3>2. CASE ~Known(p, m)
      BY <1>2, <2>1, <3>2, BookFacts DEF Alive
    <3> QED BY <3>1, <3>2
  <2>3. ~PendingFill(p) /\ position[p].qty = qty
    BY <1>2, <1>q, LInvFacts DEF Accounts, ReservedWhole
  <2>4. Venue!NetLots(p) = qty
    BY <1>2, <2>2, <2>3, RecordedNet
  <2>5. regular => Cardinality(LotsAtVenue(p)') = qty
    <3>1. /\ IsFiniteSet({n}) /\ Cardinality({n}) = 1
          /\ IsFiniteSet(1..qty) /\ Cardinality(1..qty) = qty
      <4>1. qty \in Int /\ 1 \in Int /\ ~(1 > qty) /\ qty - 1 + 1 = qty
        BY LedgerAssumption
      <4> QED BY <4>1, FS_Singleton, FS_Interval
    <3>2. Cardinality({n} \X (1..qty)) = Cardinality({n}) * Cardinality(1..qty)
      BY <3>1, FS_Product
    <3>3. \A k \in Nat : 1 * k = k
      OBVIOUS
    <3>4. Cardinality({n} \X (1..qty)) = qty
      <4>1. PICK b : b = Cardinality(1..qty)
        OBVIOUS
      <4>2. Cardinality({n} \X (1..qty)) = 1 * b
        BY <3>1, <3>2, <4>1
      <4> QED BY <3>1, <3>3, <4>1, <4>2, LedgerAssumption
    <3> QED BY <2>1, <3>4
  <2>6. CASE regular
    <3>1. /\ Held' = Held /\ Entering' = Entering
          /\ Closing' = [Closing EXCEPT ![p] = qty]
      <4>1. PICK h, c : h = Venue!NetLots(p) /\ c = qty
        OBVIOUS
      <4>2. PICK e \in BOOLEAN : e = FALSE
        OBVIOUS
      <4> QED BY <1>2, <2>1, <2>5, <2>6, <4>1, <4>2, ExitMoves
    <3>2. Held[p] = qty /\ Closing[p] = 0 /\ ~Entering[p]
      BY <1>2, <2>1, <2>4 DEF Held, Closing, Entering, OnMarket
    <3>3. Exit!SendClose(p)
      BY <3>1, <3>2 DEF Exit!SendClose, Held, Closing, Entering
    <3> QED BY <1>2, <3>3 DEF Exit!Next
  <2>7. CASE ~regular
    <3>1. Held' = Held /\ Entering' = Entering /\ Closing' = Closing
      <4>1. PICK h, c : h = Venue!NetLots(p) /\ c = Cardinality(LotsAtVenue(p))
        OBVIOUS
      <4>2. PICK e \in BOOLEAN : e = FALSE
        OBVIOUS
      <4>3. Cardinality(LotsAtVenue(p)') = c
        BY <2>1, <2>7, <4>1
      <4> QED BY <1>2, <2>1, <4>1, <4>2, <4>3, ExitMoves
    <3> QED BY <3>1 DEF Held, Closing, Entering, Exit!exitVars
  <2> QED BY <2>6, <2>7
<1> QED BY <1>3, <1>4

(* The book of a new process is empty. *)
LEMMA EmptyLots ==
  ASSUME NEW p \in Trades, NEW b, b = Venue!NoSimOrder
  PROVE  /\ (\A n \in Legs : book[p][n] = b) =>
              /\ Venue!NetLots(p) = 0 /\ ~OnMarket(p, 0)
              /\ Cardinality(LotsAtVenue(p)) = 0
         /\ (\A n \in Legs : book'[p][n] = b) =>
              /\ Venue!NetLots(p)' = 0 /\ ~OnMarket(p, 0)'
              /\ Cardinality(LotsAtVenue(p)') = 0
<1>1. b.status \notin Venue!Open /\ Len(b.fillTs) = 0
  BY DEF Venue!NoSimOrder, Venue!Open
<1>2. 0 \in Legs /\ CloseLegs \subseteq Legs
  BY LegsFacts
<1>3. ASSUME \A n \in Legs : book[p][n] = b
      PROVE  /\ Venue!NetLots(p) = 0 /\ ~OnMarket(p, 0)
             /\ Cardinality(LotsAtVenue(p)) = 0
  <2>1. SoldAtVenue(p) = {} /\ LotsAtVenue(p) = {}
    BY <1>1, <1>2, <1>3 DEF SoldAtVenue, LotsAtVenue, Filled, Venue!Filled
  <2>2. Filled(p, 0) = 0 /\ ~OnMarket(p, 0)
    BY <1>1, <1>2, <1>3 DEF Filled, Venue!Filled, OnMarket
  <2> QED BY <2>1, <2>2, NetLotsAre, FS_EmptySet
<1>4. ASSUME \A n \in Legs : book'[p][n] = b
      PROVE  /\ Venue!NetLots(p)' = 0 /\ ~OnMarket(p, 0)'
             /\ Cardinality(LotsAtVenue(p)') = 0
  <2>1. SoldAtVenue(p)' = {} /\ LotsAtVenue(p)' = {}
    BY <1>1, <1>2, <1>4 DEF SoldAtVenue, LotsAtVenue, Filled, Venue!Filled
  <2>2. Filled(p, 0)' = 0 /\ ~OnMarket(p, 0)'
    BY <1>1, <1>2, <1>4 DEF Filled, Venue!Filled, OnMarket
  <2> QED BY <2>1, <2>2, NetLotsNext, FS_EmptySet
<1> QED BY <1>3, <1>4

LEMMA CrashRefines ==
  ASSUME Crash
  PROVE  Exit!LoseBook
<1>b. PICK b : b = Venue!NoSimOrder
  OBVIOUS
<1>1. \A p \in Trades, n \in Legs : book'[p][n] = b
  BY <1>b DEF Crash
<1>2. \A p \in Trades : /\ Venue!NetLots(p)' = 0 /\ ~OnMarket(p, 0)'
                        /\ Cardinality(LotsAtVenue(p)') = 0
  BY <1>b, <1>1, EmptyLots
<1>3. Held' = [p \in Trades |-> 0] /\ Closing' = [p \in Trades |-> 0]
  BY <1>2 DEF Held, Closing
<1>4. Entering' = [p \in Trades |-> FALSE]
  <2>1. \A p \in Trades : (book'[p][0].status \in Venue!Open) = FALSE
    BY <1>2 DEF OnMarket
  <2> QED BY <2>1 DEF Entering
<1> QED BY <1>3, <1>4 DEF Exit!LoseBook, Held, Closing, Entering

LEMMA ExitInit == LifecycleInit => Exit!Init
<1> SUFFICES ASSUME LifecycleInit
             PROVE  Exit!Init
  OBVIOUS
<1>b. PICK b : b = Venue!NoSimOrder
  OBVIOUS
<1>1. \A p \in Trades, n \in Legs : book[p][n] = b
  BY <1>b DEF LifecycleInit, Venue!Init, Venue!Legs, Legs
<1>2. \A p \in Trades : /\ Venue!NetLots(p) = 0 /\ ~OnMarket(p, 0)
                        /\ Cardinality(LotsAtVenue(p)) = 0
  BY <1>b, <1>1, EmptyLots
<1>3. \A p \in Trades : (book[p][0].status \in Venue!Open) = FALSE
  BY <1>2 DEF OnMarket
<1> QED BY <1>2, <1>3 DEF Exit!Init

LEMMA ExitStep == LInv /\ [LifecycleNext]_lifecycleVars => [Exit!Next]_Exit!exitVars
<1> SUFFICES ASSUME LInv, [LifecycleNext]_lifecycleVars
             PROVE  Exit!Next \/ UNCHANGED Exit!exitVars
  OBVIOUS
<1>1. CASE PlaceEntry \/ PlaceClose
  BY <1>1, PlaceEntryRefines, PlaceCloseRefines
<1>2. CASE CancelEntry
  <2>1. worker.trade \in Trades /\ Venue!CancelOrder(worker.trade, 0)
    BY <1>2, WorkerFields DEF CancelEntry, WorkerAt, LInv
  <2> QED BY <2>1, CancelRefines DEF Exit!Next
<1>3. CASE \E p \in Trades : MarketTick(p)
  BY <1>3, TickRefines DEF Exit!Next
<1>4. CASE Crash
  BY <1>4, CrashRefines DEF Exit!Next
<1>5. CASE \/ TakeApproval \/ AckEntry \/ TakeUpdate
           \/ BeginObservations \/ (\E p \in Trades : ObserveOne(p)) \/ BeginService
           \/ (\E p \in Trades : Prepare(p)) \/ RecordEntryFill
           \/ EntryCancelled \/ Claim \/ AckClose \/ EndService
  <2>1. book' = book
    BY <1>5 DEF TakeApproval, AckEntry, TakeUpdate, BeginObservations, ObserveOne,
       BeginService, Prepare, RecordEntryFill, EntryCancelled, Claim, AckClose,
       EndService, venueVars, bookVars
  <2> QED BY <2>1, ExitStands
<1>6. CASE ApplyNextFill \/ Clock \/ Start \/ Recover
  <2>1. book' = book
    BY <1>6 DEF ApplyNextFill, Clock, Start, Recover, Venue!Connect, Venue!Disconnect,
       Venue!Register, venueVars
  <2> QED BY <2>1, ExitStands
<1>7. CASE \E p \in Trades : Approve(p) \/ \E r \in ExitReasons : Latch(p, r)
  <2>1. book' = book
    BY <1>7 DEF Approve, Latch, bookVars
  <2> QED BY <2>1, ExitStands
<1>8. CASE UNCHANGED lifecycleVars
  BY <1>8, ExitStands DEF lifecycleVars, venueVars
<1> QED BY <1>1, <1>2, <1>3, <1>4, <1>5, <1>6, <1>7, <1>8 DEF LifecycleNext, Worker

(* The composed system implements ReduceOnlyExit: what the worker sends    *)
(* after all its awaits is still one close, for exactly what is held, with *)
(* no entry left in the market.                                            *)
THEOREM ExitContractTheorem ==
  ASSUME "record_fill" \notin FaultySteps
  PROVE  LifecycleSpec => ExitContract
BY ExitInit, ExitStep, LifecycleInductive, PTL DEF LifecycleSpec, ExitContract, Exit!Spec

(* So the venue never holds a close that could sell more than was bought,  *)
(* or that stands beside a working entry: no tick turns a long position    *)
(* short.                                                                  *)
THEOREM VenueNeverReverses ==
  ASSUME "record_fill" \notin FaultySteps
  PROVE  LifecycleSpec => []Exit!NeverReverses
BY ExitContractTheorem, Exit!NeverReversesTheorem, PTL DEF ExitContract

(***************************************************************************)
(* What the ledger promises, kept by the running system.                   *)
(***************************************************************************)
(* The theorems about the ledger's reachable states and steps, of the      *)
(* composed system: one close at a time, never for more than is held, no   *)
(* fill the position's accounting refuses, none of the exits' defensive    *)
(* branches, a marker wherever a close was permitted, and no permission    *)
(* for what cannot be placed.                                              *)
THEOREM LedgerKeptTheorem ==
  ASSUME "record_fill" \notin FaultySteps
  PROVE  LifecycleSpec => /\ [](OneActiveClose /\ ReduceOnly /\ AccountingAccepts)
                          /\ [](NoUnsafeExit /\ MarkerRecordsDispatch)
                          /\ EvidenceImmutable /\ RetryDelayKept
                          /\ DispatchOnlyWhenPlaceable
BY LedgerContractTheorem, OneActiveCloseTheorem, ReduceOnlyTheorem, AccountingTheorem,
   UnsafeExitTheorem, MarkerTheorem, EvidenceTheorem, RetryDelayTheorem, DispatchTheorem,
   PTL DEF LedgerContract

(* No step of the composed system moves an order's status back: only a     *)
(* fill that is not recorded lets a later report overtake it.              *)
THEOREM StatusOnlyForward ==
  ASSUME "record_fill" \notin FaultySteps
  PROVE  LifecycleSpec => OrderStatusOnlyForward
<1> DEFINE AllForward == \A p \in Trades, n \in Legs :
                           StatusForward(orders[p][n].status, orders'[p][n].status)
<1>1. LInv /\ [LifecycleNext]_lifecycleVars => [AllForward]_lifecycleVars
  <2> SUFFICES ASSUME LInv, [LifecycleNext]_lifecycleVars,
                      NEW p \in Trades, NEW n \in Legs
               PROVE  StatusForward(orders[p][n].status, orders'[p][n].status)
    BY DEF AllForward
  <2>1. [Next]_vars /\ IInv
    BY LInvStep, LInvFacts
  <2>2. CASE Next
    BY <2>1, <2>2, StepForward
  <2>3. CASE UNCHANGED vars
    BY <2>3, ForwardReflexive DEF vars
  <2> QED BY <2>1, <2>2, <2>3
<1> QED BY <1>1, LifecycleInductive, PTL DEF LifecycleSpec, OrderStatusOnlyForward, AllForward

(* At rest every fill of the venue's book is in the ledger: only a failing *)
(* record_fill loses one.                                                  *)
THEOREM NoFillLost ==
  ASSUME "record_fill" \notin FaultySteps
  PROVE  LifecycleSpec => []NoFillDiscarded
<1>1. LInv => NoFillDiscarded
  <2> SUFFICES ASSUME LInv, AtRest, NEW p \in Trades, NEW n \in Legs,
                      NEW lot \in 1..Venue!Filled(p, n)
               PROVE  Recorded(p, n, lot)
    BY DEF NoFillDiscarded
  <2>1. Filled(p, n) \in Nat /\ RecordedLots(p, n) \in Nat /\ BooksInv
    BY BookFacts, LInvFacts
  <2>2. lot \in Nat /\ lot # 0 /\ lot <= Filled(p, n)
    BY <2>1 DEF Filled
  <2>3. lot <= RecordedLots(p, n)
    <3> SUFFICES ASSUME RecordedLots(p, n) < lot
                 PROVE  FALSE
      BY <2>1, <2>2
    <3>1. \E i \in DOMAIN queue : IsUpdate(i, p, n) /\ queue[i].lot = lot
      BY <2>2 DEF LInv, QueueInv, QueueHolds
    <3> QED BY <3>1 DEF AtRest
  <2> QED BY <2>1, <2>2, <2>3, RecordedIff
<1> QED BY <1>1, LifecycleInductive, PTL

(***************************************************************************)
(* The ledger's order statuses and the venue's.  Here the transactions     *)
(* that record what the venue reports must not fail: an acknowledgement or *)
(* a cancellation that is not recorded is not reported again.              *)
(***************************************************************************)
ReportsRecorded == {"ack", "set_status", "record_fill"} \cap FaultySteps = {}

(* The worker holds the venue's acknowledgement of an order. *)
AtAck(p, n) ==
  \/ worker.step = "ack_entry" /\ worker.trade = p /\ n = 0
  \/ worker.step = "ack_close" /\ worker.trade = p /\ worker.leg = n

(* A cancellation the ledger will learn of, from the queue or the worker.  *)
CancelQueued(p, n) == \E i \in DOMAIN queue : IsUpdate(i, p, n) /\ queue[i].lot = 0
CancelComing(p, n) ==
  CancelQueued(p, n) \/ (worker.step = "record_entry" /\ worker.trade = p)

(* How far an acknowledged order is, by its recorded lots. *)
Progress(p, n) ==
  LET lots == RecordedLots(p, n) IN
  IF lots = 0 THEN "submitted"
  ELSE IF lots = book[p][n].qty THEN "filled" ELSE "partially_filled"

Unacked(p, n) ==
  /\ orders[p][n].status = "approved"
  /\ RecordedLots(p, n) = 0
  /\ book[p][n].status # "cancelled"
  /\ worker.ack = "rejected" <=> book[p][n].status = "rejected"

Acked(p, n) ==
  LET atVenue == book[p][n].status
      status == orders[p][n].status
  IN \/ atVenue = "rejected" /\ status = "rejected"
     \/ atVenue = "cancelled" /\ status = "cancelled"
     \/ /\ atVenue # "rejected" /\ status = Progress(p, n)
        /\ atVenue = "cancelled" => /\ CancelComing(p, n)
                                    /\ Filled(p, n) < book[p][n].qty

Follows(p, n) == Known(p, n) => IF AtAck(p, n) THEN Unacked(p, n) ELSE Acked(p, n)

FollowInv == \A p \in Trades, n \in Legs : Follows(p, n)

(* An order that keeps all this follows on. *)
LEMMA KeptFollows ==
  ASSUME NEW p \in Trades, NEW n \in Legs, Follows(p, n),
         book'[p][n] = book[p][n],
         RecordedLots(p, n)' = RecordedLots(p, n),
         Known(p, n) => orders'[p][n].status = orders[p][n].status,
         AtAck(p, n)' <=> AtAck(p, n),
         AtAck(p, n) => worker'.ack = worker.ack,
         (book[p][n].status = "cancelled" /\ CancelComing(p, n)) => CancelComing(p, n)'
  PROVE  Follows(p, n)'
<1>1. /\ Known(p, n)' <=> Known(p, n)
      /\ Filled(p, n)' = Filled(p, n)
      /\ Progress(p, n)' = Progress(p, n)
  BY DEF Known, Filled, Venue!Filled, Progress
<1> SUFFICES ASSUME Known(p, n)
             PROVE  IF AtAck(p, n)' THEN Unacked(p, n)' ELSE Acked(p, n)'
  BY <1>1 DEF Follows
<1>2. CASE AtAck(p, n)
  BY <1>2 DEF Follows, Unacked
<1>3. CASE ~AtAck(p, n)
  BY <1>1, <1>3 DEF Follows, Acked
<1> QED BY <1>2, <1>3

(* A step that tells the ledger nothing, taken by a worker that holds no   *)
(* report of the venue.                                                    *)
LEMMA SilentFollows ==
  ASSUME FollowInv, book' = book, fills' = fills,
         \A q \in Trades, n \in Legs :
           Known(q, n) => orders'[q][n].status = orders[q][n].status,
         \A q \in Trades, n \in Legs : CancelQueued(q, n) => CancelQueued(q, n)',
         \/ worker' = worker
         \/ /\ worker.step \notin {"ack_entry", "ack_close", "record_entry"}
            /\ worker'.step \notin {"ack_entry", "ack_close"}
  PROVE  FollowInv'
<1> SUFFICES ASSUME NEW p \in Trades, NEW n \in Legs
             PROVE  Follows(p, n)'
  BY DEF FollowInv
<1>1. Follows(p, n) /\ book'[p][n] = book[p][n]
      /\ RecordedLots(p, n)' = RecordedLots(p, n)
  BY DEF FollowInv, RecordedLots, FillsOf
<1>2. /\ AtAck(p, n)' <=> AtAck(p, n)
      /\ AtAck(p, n) => worker'.ack = worker.ack
      /\ CancelComing(p, n) => CancelComing(p, n)'
  BY DEF AtAck, CancelComing
<1> QED BY <1>1, <1>2, KeptFollows

(* The status of an order the venue knows does not change with the end of  *)
(* an EOD window.                                                          *)
LEMMA WindowsSilent ==
  ASSUME LInv, BooksInv', [Next]_vars,
         \A q \in Trades, n \in Legs : Alters(q, n) => EndsUnsent(q, n)
  PROVE  \A q \in Trades, n \in Legs :
           Known(q, n) => orders'[q][n].status = orders[q][n].status
<1> TAKE q \in Trades, n \in Legs
<1>1. EndsUnsent(q, n) => ~Known(q, n)
  BY UnsentUnknown
<1>2. Known(q, n) => orders[q][n].status # "none"
  BY LInvFacts DEF Venued, Linked
<1> QED BY <1>1, <1>2 DEF Alters

(* A queued cancellation stays queued until it is taken. *)
LEMMA CancelAppended ==
  ASSUME LInv, NEW x, queue' = Append(queue, x), NEW p, NEW n, CancelQueued(p, n)
  PROVE  CancelQueued(p, n)'
<1>1. PICK i \in DOMAIN queue : IsUpdate(i, p, n) /\ queue[i].lot = 0
  BY DEF CancelQueued
<1>2. i \in DOMAIN queue' /\ queue'[i] = queue[i]
  BY <1>1, LInvFacts
<1> QED BY <1>1, <1>2 DEF CancelQueued, IsUpdate

LEMMA CancelTail ==
  ASSUME LInv, queue # <<>>, queue' = Tail(queue), NEW p, NEW n, CancelQueued(p, n),
         ~(IsUpdate(1, p, n) /\ queue[1].lot = 0)
  PROVE  CancelQueued(p, n)'
<1>1. PICK i \in DOMAIN queue : IsUpdate(i, p, n) /\ queue[i].lot = 0
  BY DEF CancelQueued
<1>2. i # 1
  BY <1>1
<1>l. PICK l \in Nat : l = Len(queue) /\ DOMAIN queue = 1..l
  BY LInvFacts
<1>3. i - 1 \in DOMAIN queue' /\ queue'[i - 1] = queue[i]
  BY <1>1, <1>2, <1>l, LInvFacts
<1>j. PICK j : j = i - 1
  OBVIOUS
<1> QED BY <1>1, <1>3, <1>j DEF CancelQueued, IsUpdate

(* The acknowledgement of an entry, or of a close. *)
LEMMA AckEntryFollows ==
  ASSUME LInv, FollowInv, AckEntry, ReportsRecorded
  PROVE  FollowInv'
<1>p. PICK p, ack : p = worker.trade /\ ack = worker.ack
  OBVIOUS
<1>1. /\ worker.step = "ack_entry" /\ worker' = Idle
      /\ book' = book /\ queue' = queue
      /\ EntryStatusTx(p, ack)
  BY <1>p DEF AckEntry, WorkerAt, DbStep, venueVars, bookVars, ReportsRecorded
<1>2. p \in Trades /\ 0 \in Legs /\ ack \in {"submitted", "rejected"}
      /\ orders \in [Trades -> [Legs -> OrderRows]]
  BY <1>p, <1>1, WorkerFields, LInvFacts, LegsFacts DEF LInv
<1>3. fills' = fills /\ \A q \in Trades, n \in Legs : ~AtAck(q, n)'
  BY <1>1 DEF EntryStatusTx, NoChange, ledgerVars, vars, UpdateEntryStatus, AtAck, Idle
<1>4. \A q \in Trades, n \in Legs :
        /\ RecordedLots(q, n)' = RecordedLots(q, n)
        /\ Known(q, n)' <=> Known(q, n)
        /\ CancelQueued(q, n)' <=> CancelQueued(q, n)
  BY <1>1, <1>3 DEF RecordedLots, FillsOf, Known, CancelQueued, IsUpdate
<1> SUFFICES ASSUME NEW q \in Trades, NEW n \in Legs, Known(q, n)
             PROVE  Follows(q, n)'
  BY <1>4 DEF FollowInv, Follows
<1>5. CASE q = p /\ n = 0
  <2>1. Unacked(p, 0) /\ AtAck(p, 0)
    BY <1>p, <1>1, <1>2, <1>5 DEF FollowInv, Follows, AtAck
  <2>2. UpdateEntryStatus(p, ack)
    BY <1>1, <1>2, <2>1 DEF EntryStatusTx, AckAdvances, Unacked
  <2>3. orders'[p][0].status = ack
    BY <1>2, <2>2 DEF UpdateEntryStatus, OrderRows
  <2>4. Acked(p, 0)'
    BY <1>p, <1>1, <1>2, <1>4, <2>1, <2>3 DEF Unacked, Acked, Progress
  <2> QED BY <1>3, <1>5, <2>4 DEF Follows
<1>6. CASE q # p \/ n # 0
  <2>1. orders'[q][n] = orders[q][n]
    BY <1>1, <1>2, <1>6
    DEF EntryStatusTx, NoChange, ledgerVars, vars, UpdateEntryStatus
  <2>2. ~AtAck(q, n) /\ (CancelComing(q, n) => CancelComing(q, n)')
    BY <1>p, <1>1, <1>4, <1>6 DEF AtAck, CancelComing
  <2> QED BY <1>1, <1>3, <1>4, <2>1, <2>2, KeptFollows DEF FollowInv
<1> QED BY <1>5, <1>6

LEMMA AckCloseFollows ==
  ASSUME LInv, BooksInv', [Next]_vars, FollowInv, AckClose, ReportsRecorded
  PROVE  FollowInv'
<1>p. PICK p, l, ack : p = worker.trade /\ l = worker.leg /\ ack = worker.ack
  OBVIOUS
<1>1. /\ worker.step = "ack_close" /\ NextPosition
      /\ book' = book /\ queue' = queue
      /\ SetStatusTx(p, l, ack)
  BY <1>p DEF AckClose, WorkerAt, DbStep, venueVars, bookVars, ReportsRecorded
<1>2. p \in Trades /\ l \in Legs /\ l \in CloseLegs /\ ack \in {"submitted", "rejected"}
      /\ <<p, l>> \in sent /\ IInv
  BY <1>p, <1>1, WorkerFields, LInvFacts DEF LInv, WorkerInv
<1>3. fills' = fills /\ \A q \in Trades, n \in Legs : ~AtAck(q, n)'
  BY <1>1 DEF SetStatusTx, NoChange, ledgerVars, vars, SetStatus, NextPosition, Servicing,
     AtAck
<1>4. \A q \in Trades, n \in Legs :
        /\ RecordedLots(q, n)' = RecordedLots(q, n)
        /\ Known(q, n)' <=> Known(q, n)
        /\ CancelQueued(q, n)' <=> CancelQueued(q, n)
  BY <1>1, <1>3 DEF RecordedLots, FillsOf, Known, CancelQueued, IsUpdate
<1> SUFFICES ASSUME NEW q \in Trades, NEW n \in Legs, Known(q, n)
             PROVE  Follows(q, n)'
  BY <1>4 DEF FollowInv, Follows
<1>a. ack \in Active \cup Terminal /\ ~EndsUnsent(q, n)
  BY <1>2, UnsentUnknown DEF Active, Terminal
<1>5. CASE q = p /\ n = l
  <2>1. Unacked(p, l) /\ AtAck(p, l)
    BY <1>p, <1>1, <1>2, <1>5 DEF FollowInv, Follows, AtAck
  <2>2. ~Unclaimed(p, l)
    BY <1>2, LInvFacts DEF Unclaimed, TradeInv, MarkerIsSent
  <2>3. SetStatus(p, l, ack)
    BY <1>1, <1>2, <2>1, <2>2 DEF SetStatusTx, StatusChanges, StatusAllowed, Unacked
  <2>4. orders'[p][l].status = ack
    BY <1>2, <1>5, <1>a, <2>3, StatusAlters
  <2>5. Acked(p, l)'
    BY <1>p, <1>1, <1>2, <1>4, <2>1, <2>4 DEF Unacked, Acked, Progress
  <2> QED BY <1>3, <1>5, <2>5 DEF Follows
<1>6. CASE q # p \/ n # l
  <2>1. orders'[q][n].status = orders[q][n].status
    <3>1. CASE SetStatus(p, l, ack)
      BY <1>2, <1>6, <1>a, <3>1, StatusAlters
    <3>2. CASE NoChange
      BY <3>2 DEF NoChange, ledgerVars, vars
    <3> QED BY <1>1, <3>1, <3>2 DEF SetStatusTx
  <2>2. ~AtAck(q, n) /\ (CancelComing(q, n) => CancelComing(q, n)')
    BY <1>p, <1>1, <1>4, <1>6 DEF AtAck, CancelComing
  <2> QED BY <1>1, <1>3, <1>4, <2>1, <2>2, KeptFollows DEF FollowInv
<1> QED BY <1>5, <1>6

(***************************************************************************)
(* The steps that tell the ledger nothing of the venue's orders.           *)
(***************************************************************************)
LEMMA CancelStands ==
  ASSUME queue' = queue
  PROVE  \A q, n : CancelQueued(q, n) => CancelQueued(q, n)'
BY DEF CancelQueued, IsUpdate

LEMMA TakeApprovalFollows ==
  ASSUME LInv, FollowInv, TakeApproval
  PROVE  FollowInv'
<1>p. PICK p : p = Head(queue).trade
  OBVIOUS
<1>1. /\ worker = Idle /\ queue # <<>> /\ queue' = Tail(queue)
      /\ queue[1].type = "approved"
  BY HeadItem DEF TakeApproval
<1>2. /\ book' = book
      /\ InsertEntry(p) \/ NoChange
      /\ worker' = worker \/ worker'.step = "place_entry"
  BY <1>p DEF TakeApproval, DbStep, bookVars, NoChange
<1>3. fills' = fills
  BY <1>2 DEF InsertEntry, NoChange, ledgerVars, vars
<1>4. ASSUME NEW q \in Trades, NEW n \in Legs, Known(q, n)
      PROVE  orders'[q][n].status = orders[q][n].status
  <2>1. orders[q][n].status # "none"
    BY <1>4, LInvFacts DEF Venued, Linked
  <2>2. CASE InsertEntry(p)
    <3>1. q # p \/ n # 0
      BY <2>1, <2>2 DEF InsertEntry
    <3> QED BY <2>2, <3>1, LInvFacts DEF InsertEntry
  <2>3. CASE NoChange
    BY <2>3 DEF NoChange, ledgerVars, vars
  <2> QED BY <1>2, <2>2, <2>3
<1>5. \A q \in Trades, n \in Legs : CancelQueued(q, n) => CancelQueued(q, n)'
  <2> TAKE q \in Trades, n \in Legs
  <2>1. ~IsUpdate(1, q, n)
    BY <1>1 DEF IsUpdate
  <2> QED BY <1>1, <2>1, CancelTail
<1>6. worker.step = "idle"
  BY <1>1 DEF Idle
<1> QED BY <1>2, <1>3, <1>4, <1>5, <1>6, SilentFollows

LEMMA BeginObservationsFollows ==
  ASSUME LInv, FollowInv, BeginObservations
  PROVE  FollowInv'
<1>1. /\ book' = book /\ fills' = fills /\ orders' = orders
      /\ worker.step = "idle" /\ worker'.step = "observe"
      /\ queue' = queue \/ Take("wake")
  BY DEF BeginObservations, WorkerAt, bookVars, ledgerVars, vars
<1>2. \A q \in Trades, n \in Legs : CancelQueued(q, n) => CancelQueued(q, n)'
  <2>1. CASE Take("wake")
    <3>1. queue # <<>> /\ queue' = Tail(queue) /\ queue[1].type = "wake"
      BY <2>1, HeadItem
    <3> TAKE q \in Trades, n \in Legs
    <3>2. ~IsUpdate(1, q, n)
      BY <3>1 DEF IsUpdate
    <3> QED BY <3>1, <3>2, CancelTail
  <2> QED BY <1>1, <2>1, CancelStands
<1> QED BY <1>1, <1>2, SilentFollows

LEMMA ServiceFollows ==
  ASSUME FollowInv, BeginService \/ EndService
  PROVE  FollowInv'
<1>1. /\ book' = book /\ fills' = fills /\ orders' = orders /\ queue' = queue
      /\ worker.step \in {"observe", "service"} /\ worker'.step \in {"idle", "service"}
  BY DEF BeginService, EndService, WorkerAt, bookVars, venueVars, ledgerVars, vars,
     Idle, Servicing
<1> QED BY <1>1, CancelStands, SilentFollows

LEMMA ObserveOneFollows ==
  ASSUME LInv, BooksInv', [Next]_vars, FollowInv, NEW p \in Trades, ObserveOne(p)
  PROVE  FollowInv'
<1>i. PICK r, ts : r = Head(pending[p]).reason /\ ts = Head(pending[p]).ts
  OBVIOUS
<1>l. PICK old, left : /\ old = worker.left
                       /\ left = [old EXCEPT ![p] = 0] \/ left = [old EXCEPT ![p] = @ - 1]
                       /\ worker' = [worker EXCEPT !.left = left]
  <2>1. \/ worker' = [worker EXCEPT !.left[p] = 0]
        \/ worker' = [worker EXCEPT !.left[p] = @ - 1]
    BY DEF ObserveOne, DbStep
  <2> QED BY <2>1
<1>1. /\ worker.step = "observe" /\ book' = book /\ queue' = queue
      /\ ObserveExit(p, r, ts, TRUE) \/ UNCHANGED ledgerVars
  BY <1>i DEF ObserveOne, WorkerAt, DbStep, venueVars, bookVars
<1>2. worker'.step = "observe"
  <2>1. worker = [step |-> "observe", left |-> worker.left]
    BY <1>1, WorkerFields DEF LInv
  <2> QED BY <1>l, <2>1
<1>3. fills' = fills
  BY <1>1 DEF ObserveExit, ledgerVars, vars
<1>4. \A q \in Trades, n \in Legs : Alters(q, n) => EndsUnsent(q, n)
  <2>1. CASE ObserveExit(p, r, ts, TRUE)
    BY <2>1, ObserveAlters, LInvFacts
  <2>2. CASE UNCHANGED ledgerVars
    BY <2>2 DEF ledgerVars, vars, Alters
  <2> QED BY <1>1, <2>1, <2>2
<1> QED BY <1>1, <1>2, <1>3, <1>4, WindowsSilent, CancelStands, SilentFollows

LEMMA PrepareFollows ==
  ASSUME LInv, BooksInv', [Next]_vars, FollowInv, NEW p \in Trades, Prepare(p)
  PROVE  FollowInv'
<1>1. /\ worker.step = "service" /\ book' = book /\ queue' = queue
      /\ PrepareExit(p) \/ UNCHANGED ledgerVars
      /\ worker' = Prepared(p) \/ worker' = Servicing(worker.todo \ {p})
  BY DEF Prepare, WorkerAt, DbStep, venueVars, bookVars
<1>2. worker'.step \in {"cancel_entry", "claim", "service"}
  <2>1. Servicing(worker.todo \ {p}).step = "service"
    BY DEF Servicing
  <2>2. \A s, n : At(s, p, n).step = s
    BY DEF At
  <2>3. Prepared(p).step \in {"cancel_entry", "claim", "service"}
    BY <2>1, <2>2 DEF Prepared
  <2> QED BY <1>1, <2>1, <2>3
<1>3. fills' = fills
  BY <1>1 DEF PrepareExit, ledgerVars, vars
<1>4. \A q \in Trades, n \in Legs : Alters(q, n) => EndsUnsent(q, n)
  <2>1. CASE PrepareExit(p)
    BY <2>1, PrepareAlters, LInvFacts
  <2>2. CASE UNCHANGED ledgerVars
    BY <2>2 DEF ledgerVars, vars, Alters
  <2> QED BY <1>1, <2>1, <2>2
<1> QED BY <1>1, <1>2, <1>3, <1>4, WindowsSilent, CancelStands, SilentFollows

LEMMA ClaimFollows ==
  ASSUME LInv, BooksInv', [Next]_vars, FollowInv, Claim
  PROVE  FollowInv'
<1>a. PICK p, n : p = worker.trade /\ n = worker.leg
  OBVIOUS
<1>1. /\ worker.step = "claim" /\ book' = book /\ queue' = queue
      /\ ClaimDispatch(p, n) \/ UNCHANGED ledgerVars
      /\ worker' = At("place_close", p, n) \/ NextPosition
  BY <1>a DEF Claim, WorkerAt, DbStep, venueVars, bookVars
<1>2. worker'.step \in {"place_close", "service"}
  BY <1>1 DEF At, NextPosition, Servicing
<1>3. p \in Trades /\ n \in CloseLegs
  BY <1>a, <1>1, WorkerFields DEF LInv, WorkerInv
<1>4. fills' = fills
  BY <1>1 DEF ClaimDispatch, ledgerVars, vars
<1>5. \A q \in Trades, m \in Legs : Alters(q, m) => EndsUnsent(q, m)
  <2>1. CASE ClaimDispatch(p, n)
    BY <1>3, <2>1, ClaimAlters, LInvFacts
  <2>2. CASE UNCHANGED ledgerVars
    BY <2>2 DEF ledgerVars, vars, Alters
  <2> QED BY <1>1, <2>1, <2>2
<1> QED BY <1>1, <1>2, <1>4, <1>5, WindowsSilent, CancelStands, SilentFollows

LEMMA SurroundingsFollow ==
  ASSUME LInv, FollowInv,
         \/ ApplyNextFill \/ Clock \/ UNCHANGED lifecycleVars
         \/ \E p \in Trades : Approve(p) \/ \E r \in ExitReasons : Latch(p, r)
  PROVE  FollowInv'
<1>1. /\ book' = book /\ fills' = fills /\ orders' = orders /\ worker' = worker
      /\ queue' = queue \/ \E x : queue' = Append(queue, x)
  <2>1. CASE ApplyNextFill \/ Clock
    BY <2>1 DEF ApplyNextFill, Clock, CommitFill, Tick, venueVars, bookVars
  <2>2. CASE UNCHANGED lifecycleVars
    BY <2>2 DEF lifecycleVars, ledgerVars, vars, venueVars, bookVars
  <2>3. ASSUME NEW p \in Trades, Approve(p) \/ \E r \in ExitReasons : Latch(p, r)
        PROVE  /\ book' = book /\ fills' = fills /\ orders' = orders /\ worker' = worker
               /\ \E x : queue' = Append(queue, x)
    BY <2>3 DEF Approve, Latch, ledgerVars, vars, bookVars
  <2> QED BY <2>1, <2>2, <2>3
<1>2. \A q \in Trades, n \in Legs : CancelQueued(q, n) => CancelQueued(q, n)'
  BY <1>1, CancelStands, CancelAppended
<1> QED BY <1>1, <1>2, SilentFollows

LEMMA RestartFollows ==
  ASSUME LInv', Crash \/ Start \/ Recover \/ mode' # "ready", LInv
  PROVE  FollowInv'
<1>1. book' = [p \in Trades |-> [n \in Legs |-> Venue!NoSimOrder]]
  <2>1. CASE Crash
    BY <2>1 DEF Crash
  <2>2. CASE Start \/ Recover
    BY <2>2 DEF Start, Recover, Venue!Connect, Venue!Disconnect, Venue!Register, LInv, Modes
  <2>3. CASE mode' # "ready"
    BY <2>3 DEF LInv, Modes
  <2> QED BY <2>1, <2>2, <2>3
<1>2. \A p \in Trades, n \in Legs : ~Known(p, n)'
  BY <1>1 DEF Known, Venue!NoSimOrder
<1> QED BY <1>2 DEF FollowInv, Follows

(***************************************************************************)
(* The steps of the venue.                                                 *)
(***************************************************************************)
LEMMA PlacedFollows ==
  ASSUME LInv, FollowInv, mode = "ready", NEW p \in Trades, NEW n \in Legs,
         NEW qty \in 1..EntryQty, NEW regular \in BOOLEAN,
         Venue!PlaceOrder(p, n, qty, regular), UNCHANGED ledgerVars,
         orders[p][n].status = "approved",
         worker.step \in {"place_entry", "place_close"},
         \A q, m : AtAck(q, m)' <=> q = p /\ m = n,
         worker'.ack = Venue!Ack(book'[p][n])
  PROVE  FollowInv'
<1>1. /\ orders' = orders /\ fills' = fills
      /\ \A q, m : ~AtAck(q, m)
      /\ \A q, m : RecordedLots(q, m)' = RecordedLots(q, m)
  BY DEF ledgerVars, vars, AtAck, RecordedLots, FillsOf
<1>2. ~Known(p, n)
  <2> SUFFICES ASSUME Known(p, n)
               PROVE  FALSE
    OBVIOUS
  <2> QED BY <1>1 DEF FollowInv, Follows, Acked, Progress
<1>b. PICK b : b = Venue!NewSimOrder(qty, regular)
  OBVIOUS
<1>3. /\ queue' = queue
      /\ b = [status |-> IF regular THEN "submitted" ELSE "rejected",
              qty |-> qty, fillTs |-> <<>>]
      /\ book'[p][n] = b
      /\ \A m \in Legs : m # n => book'[p][m] = book[p][m]
      /\ \A q \in Trades : q # p => book'[q] = book[q]
      /\ RecordedLots(p, n) = 0
  BY <1>2, <1>b, PlacedMoves DEF Active
<1> SUFFICES ASSUME NEW q \in Trades, NEW m \in Legs
             PROVE  Follows(q, m)'
  BY DEF FollowInv
<1>4. CASE q = p /\ m = n
  <2>1. /\ b.status \in {"submitted", "rejected"}
        /\ worker'.ack = "rejected" <=> b.status = "rejected"
    BY <1>3 DEF Venue!Ack
  <2>2. Unacked(p, n)'
    BY <1>1, <1>3, <2>1 DEF Unacked
  <2> QED BY <1>4, <2>2 DEF Follows
<1>5. CASE q # p \/ m # n
  <2>1. book'[q][m] = book[q][m] /\ (CancelComing(q, m) => CancelComing(q, m)')
    BY <1>3, <1>5, CancelStands DEF CancelComing
  <2> QED BY <1>1, <1>5, <2>1, KeptFollows DEF FollowInv
<1> QED BY <1>4, <1>5

LEMMA PlaceEntryFollows ==
  ASSUME LInv, FollowInv, PlaceEntry
  PROVE  FollowInv'
<1>p. PICK p : p = worker.trade
  OBVIOUS
<1>1. /\ worker.step = "place_entry" /\ mode = "ready" /\ UNCHANGED ledgerVars
      /\ Venue!PlaceOrder(p, 0, EntryQty, now \in RegularSession)
      /\ worker' = [step |-> "ack_entry", trade |-> p, ack |-> Venue!Ack(book'[p][0])]
  BY <1>p DEF PlaceEntry, WorkerAt
<1>2. /\ p \in Trades /\ 0 \in Legs /\ orders[p][0].status = "approved"
      /\ EntryQty \in 1..EntryQty /\ (now \in RegularSession) \in BOOLEAN
  BY <1>p, <1>1, WorkerFields, LegsFacts, LedgerAssumption DEF LInv, WorkerInv
<1>3. /\ \A q, m : AtAck(q, m)' <=> q = p /\ m = 0
      /\ worker'.ack = Venue!Ack(book'[p][0])
  BY <1>1 DEF AtAck
<1> QED BY <1>1, <1>2, <1>3, PlacedFollows

LEMMA PlaceCloseFollows ==
  ASSUME LInv, FollowInv, PlaceClose
  PROVE  FollowInv'
<1>p. PICK p, n : p = worker.trade /\ n = worker.leg
  OBVIOUS
<1>1. /\ worker.step = "place_close" /\ mode = "ready" /\ UNCHANGED ledgerVars
      /\ Venue!PlaceOrder(p, n, orders[p][n].qty, now \in RegularSession)
      /\ worker' = [step |-> "ack_close", trade |-> p, leg |-> n, todo |-> worker.todo,
                    ack |-> Venue!Ack(book'[p][n])]
  BY <1>p DEF PlaceClose, WorkerAt
<1>2. /\ p \in Trades /\ n \in CloseLegs /\ n \in Legs
      /\ orders[p][n].status = "approved" /\ (now \in RegularSession) \in BOOLEAN
  BY <1>p, <1>1, WorkerFields, LegsFacts DEF LInv, WorkerInv
<1>3. orders[p][n].qty \in 1..EntryQty
  BY <1>2, CloseQuantity
<1>4. /\ \A q, m : AtAck(q, m)' <=> q = p /\ m = n
      /\ worker'.ack = Venue!Ack(book'[p][n])
  BY <1>1 DEF AtAck
<1>5. PICK qty \in 1..EntryQty : qty = orders[p][n].qty
  BY <1>3
<1> QED BY <1>1, <1>2, <1>4, <1>5, PlacedFollows

LEMMA MarketTickFollows ==
  ASSUME LInv, FollowInv, NEW p \in Trades, MarketTick(p)
  PROVE  FollowInv'
<1>n. PICK n \in Legs, b \in Venue!SimOrders, f \in Nat : TickFills(p, n, b, f)
  BY TickMoves
<1>x. PICK x : x = Venue!Update(p, n, f + 1, now)
  OBVIOUS
<1>1. /\ orders' = orders /\ fills' = fills /\ worker' = worker
      /\ \A q, m : RecordedLots(q, m)' = RecordedLots(q, m)
  BY DEF MarketTick, ledgerVars, vars, RecordedLots, FillsOf
<1>2. /\ OnMarket(p, n) /\ b.qty = book[p][n].qty
      /\ b.status \in {"filled", "partially_filled"}
      /\ book'[p][n] = b
      /\ \A m \in Legs : m # n => book'[p][m] = book[p][m]
      /\ \A q \in Trades : q # p => book'[q] = book[q]
      /\ queue' = queue \o <<x>>
  BY <1>n, <1>x DEF TickFills
<1>3. queue' = Append(queue, x)
  BY <1>2, LInvFacts
<1> SUFFICES ASSUME NEW q \in Trades, NEW m \in Legs
             PROVE  Follows(q, m)'
  BY DEF FollowInv
<1>4. AtAck(q, m)' <=> AtAck(q, m)
  BY <1>1 DEF AtAck
<1>5. CASE q = p /\ m = n
  <2>1. Known(p, n) /\ book[p][n].status \notin {"cancelled", "rejected"}
    BY <1>2 DEF Known, OnMarket, Venue!Open
  <2>2. Progress(p, n)' = Progress(p, n)
    BY <1>1, <1>2 DEF Progress
  <2>3. CASE AtAck(p, n)
    <3>1. Unacked(p, n)
      BY <1>5, <2>1, <2>3 DEF FollowInv, Follows
    <3>2. Unacked(p, n)'
      BY <1>1, <1>2, <2>1, <3>1 DEF Unacked
    <3> QED BY <1>4, <1>5, <2>3, <3>2 DEF Follows
  <2>4. CASE ~AtAck(p, n)
    <3>1. Acked(p, n)
      BY <1>5, <2>1, <2>4 DEF FollowInv, Follows
    <3>2. Acked(p, n)'
      BY <1>1, <1>2, <2>1, <2>2, <3>1 DEF Acked
    <3> QED BY <1>4, <1>5, <2>4, <3>2 DEF Follows
  <2> QED BY <2>3, <2>4
<1>6. CASE q # p \/ m # n
  <2>1. book'[q][m] = book[q][m]
    BY <1>2, <1>6
  <2>2. CancelComing(q, m) => CancelComing(q, m)'
    BY <1>1, <1>3, CancelAppended DEF CancelComing
  <2> QED BY <1>1, <1>4, <2>1, <2>2, KeptFollows DEF FollowInv
<1> QED BY <1>5, <1>6

LEMMA CancelEntryFollows ==
  ASSUME LInv, FollowInv, CancelEntry
  PROVE  FollowInv'
<1>p. PICK p : p = worker.trade
  OBVIOUS
<1>1. /\ worker.step = "cancel_entry" /\ mode = "ready"
      /\ Venue!CancelOrder(p, 0)
      /\ worker'.step = "record_entry" /\ worker'.trade = p
      /\ orders' = orders /\ fills' = fills
  BY <1>p DEF CancelEntry, WorkerAt, ledgerVars, vars
<1>2. p \in Trades /\ 0 \in Legs
  BY <1>p, <1>1, WorkerFields, LegsFacts DEF LInv
<1>3. CASE ~OnMarket(p, 0)
  <2>1. book' = book /\ queue' = queue
    BY <1>1, <1>3 DEF Venue!CancelOrder, OnMarket, Venue!venueVars
  <2> QED BY <1>1, <2>1, CancelStands, SilentFollows
<1>4. CASE OnMarket(p, 0)
  <2>x. PICK x : x = Venue!Update(p, 0, 0, 0)
    OBVIOUS
  <2>0. listening /\ book \in [Trades -> [Legs -> Venue!SimOrders]]
    BY <1>1, LInvFacts DEF LInv, Modes
  <2>1. /\ book' = [book EXCEPT ![p][0].status = "cancelled"]
        /\ queue' = queue \o <<x>>
    BY <1>1, <1>4, <2>0, <2>x DEF Venue!CancelOrder, Venue!Dispatch, OnMarket
  <2>2. queue' = Append(queue, x)
    BY <2>1, LInvFacts
  <2>b. PICK b : b = [book[p][0] EXCEPT !.status = "cancelled"]
    OBVIOUS
  <2>3. /\ b.status = "cancelled" /\ b.qty = book[p][0].qty /\ b.fillTs = book[p][0].fillTs
        /\ book'[p][0] = b
        /\ \A q \in Trades, m \in Legs : q # p \/ m # 0 => book'[q][m] = book[q][m]
    BY <1>2, <2>0, <2>1, <2>b, BookFacts DEF Venue!SimOrders
  <2>4. /\ \A q, m : RecordedLots(q, m)' = RecordedLots(q, m)
        /\ \A q, m : ~AtAck(q, m) /\ ~AtAck(q, m)'
    BY <1>1 DEF RecordedLots, FillsOf, AtAck
  <2> SUFFICES ASSUME NEW q \in Trades, NEW m \in Legs
               PROVE  Follows(q, m)'
    BY DEF FollowInv
  <2>5. CASE q = p /\ m = 0
    <3>1. /\ Known(p, 0) /\ book[p][0].status \notin {"cancelled", "rejected"}
          /\ Filled(p, 0) < book[p][0].qty
      BY <1>2, <1>4, BookFacts DEF Known, OnMarket, Venue!Open
    <3>2. orders[p][0].status = Progress(p, 0)
      BY <1>2, <2>4, <3>1 DEF FollowInv, Follows, Acked
    <3>3. Filled(p, 0)' = Filled(p, 0) /\ Progress(p, 0)' = Progress(p, 0)
      BY <2>3, <2>4 DEF Filled, Venue!Filled, Progress
    <3>4. CancelComing(p, 0)'
      BY <1>1 DEF CancelComing
    <3>5. Acked(p, 0)'
      BY <1>1, <2>3, <3>1, <3>2, <3>3, <3>4 DEF Acked
    <3> QED BY <2>4, <2>5, <3>5 DEF Follows
  <2>6. CASE q # p \/ m # 0
    <3>1. CancelComing(q, m) => CancelComing(q, m)'
      BY <1>1, <2>2, CancelAppended DEF CancelComing
    <3> QED BY <1>1, <2>3, <2>4, <2>6, <3>1, KeptFollows DEF FollowInv
  <2> QED BY <2>5, <2>6
<1> QED BY <1>3, <1>4

(***************************************************************************)
(* The reports of the venue, recorded.                                     *)
(***************************************************************************)
LEMMA RecordedFillFollows ==
  ASSUME LInv, FollowInv, NEW p \in Trades, NEW n \in Legs, FillNext(p, n), book' = book,
         \A q, m : ~AtAck(q, m) /\ ~AtAck(q, m)',
         \A q \in Trades, m \in Legs : CancelComing(q, m) => CancelComing(q, m)'
  PROVE  FollowInv'
<1>r. PICK r \in Nat, f \in Nat : r = RecordedLots(p, n) /\ f = Filled(p, n)
  BY BookFacts
<1>a. PICK ts \in Times : VenueFill(p, n, ts) /\ ts = book[p][n].fillTs[r + 1]
  BY <1>r, FillNextBooks
<1>1. /\ Known(p, n) /\ Working(p, n)
      /\ r < f /\ f <= book[p][n].qty
      /\ book[p][n].qty = orders[p][n].qty /\ book[p][n].qty \in 0..EntryQty
      /\ IInv /\ orders \in [Trades -> [Legs -> OrderRows]]
  BY <1>r, Unrecorded, BookFacts, LInvFacts DEF FillNext
<1>2. /\ RecordedLots(p, n)' = r + 1
      /\ \A q \in Trades, m \in Legs :
           q # p \/ m # n => RecordedLots(q, m)' = RecordedLots(q, m)
  BY <1>r, FillNextBooks
<1>3. \A q \in Trades, m \in Legs : q # p \/ m # n => orders'[q][m] = orders[q][m]
  BY <1>1, <1>a, VenueFillStep
<1>q. PICK q0 \in Nat : q0 = orders[p][n].qty /\ q0 = book[p][n].qty
  BY <1>1, LedgerAssumption
<1> SUFFICES ASSUME NEW q \in Trades, NEW m \in Legs
             PROVE  Follows(q, m)'
  BY DEF FollowInv
<1>4. CASE q # p \/ m # n
  <2>1. book'[q][m] = book[q][m]
    OBVIOUS
  <2> QED BY <1>2, <1>3, <1>4, <2>1, KeptFollows DEF FollowInv
<1>5. CASE q = p /\ m = n
  <2>1. Acked(p, n) /\ orders[p][n].status \in Active
    BY <1>1 DEF FollowInv, Follows, Working
  <2>2. /\ book[p][n].status # "rejected"
        /\ orders[p][n].status = Progress(p, n)
        /\ book[p][n].status = "cancelled" => /\ CancelComing(p, n)
                                              /\ Filled(p, n) < book[p][n].qty
    BY <2>1 DEF Acked, Active
  <2>3. orders[p][n].status = IF r = 0 THEN "submitted" ELSE "partially_filled"
    BY <1>1, <1>r, <1>q, <2>2 DEF Progress
  <2>4. orders'[p][n].status = IF r + 1 = q0 THEN "filled" ELSE "partially_filled"
    <3>s. PICK from, to : /\ from = orders[p][n].status
                          /\ to = IF FillProgressRank(FillStatus(r + 1, q0)) > FillProgressRank(from)
                                  THEN FillStatus(r + 1, q0) ELSE from
      OBVIOUS
    <3>1. orders' = [orders EXCEPT ![p][n].status = to]
      BY <1>r, <1>a, <1>q, <3>s DEF VenueFill, RecordFill, RecordedLots
    <3>2. orders'[p][n].status = to
      BY <1>1, <3>1 DEF OrderRows
    <3>3. from \in {"submitted", "partially_filled"}
      BY <2>3, <3>s
    <3>4. to = IF r + 1 = q0 THEN "filled" ELSE "partially_filled"
      <4>1. CASE r + 1 = q0
        BY <3>3, <3>s, <4>1 DEF FillStatus, FillProgressRank
      <4>2. CASE r + 1 # q0
        BY <3>3, <3>s, <4>2 DEF FillStatus, FillProgressRank
      <4> QED BY <4>1, <4>2
    <3> QED BY <3>2, <3>4
  <2>5. Progress(p, n)' = IF r + 1 = q0 THEN "filled" ELSE "partially_filled"
    BY <1>2, <1>q DEF Progress
  <2>6. Filled(p, n)' = Filled(p, n)
    BY DEF Filled, Venue!Filled
  <2>7. Acked(p, n)'
    BY <2>2, <2>4, <2>5, <2>6 DEF Acked
  <2> QED BY <1>5, <2>7 DEF Follows
<1> QED BY <1>4, <1>5

LEMMA UnrecordedFollows ==
  ASSUME FollowInv, UNCHANGED ledgerVars, book' = book,
         \A q, m : ~AtAck(q, m) /\ ~AtAck(q, m)',
         \A q \in Trades, m \in Legs : CancelComing(q, m) => CancelComing(q, m)'
  PROVE  FollowInv'
<1>1. orders' = orders /\ \A q, m : RecordedLots(q, m)' = RecordedLots(q, m)
  BY DEF ledgerVars, vars, RecordedLots, FillsOf
<1> SUFFICES ASSUME NEW q \in Trades, NEW m \in Legs
             PROVE  Follows(q, m)'
  BY DEF FollowInv
<1>2. book'[q][m] = book[q][m]
  OBVIOUS
<1> QED BY <1>1, <1>2, KeptFollows DEF FollowInv

(* The ledger's entry is cancelled after the venue's. *)
LEMMA CancelledFollows ==
  ASSUME LInv, BooksInv', [Next]_vars, FollowInv, NEW p \in Trades, book' = book,
         Known(p, 0) => /\ book[p][0].status = "cancelled"
                        /\ RecordedLots(p, 0) = Filled(p, 0),
         SetStatusTx(p, 0, "cancelled"),
         \A q, m : ~AtAck(q, m) /\ ~AtAck(q, m)',
         \A q \in Trades : CancelComing(q, 0) /\ q # p => CancelComing(q, 0)'
  PROVE  FollowInv'
<1>0. /\ 0 \in Legs /\ 0 \notin CloseLegs /\ IInv
      /\ "cancelled" \in Active \cup Terminal
  BY LInvFacts, LegsFacts, LedgerAssumption DEF CloseLegs, Terminal
<1>1. fills' = fills /\ \A q, m : RecordedLots(q, m)' = RecordedLots(q, m)
  BY DEF SetStatusTx, SetStatus, NoChange, ledgerVars, vars, RecordedLots, FillsOf
<1> SUFFICES ASSUME NEW q \in Trades, NEW m \in Legs, Known(q, m)
             PROVE  Follows(q, m)'
  BY DEF FollowInv, Follows, Known
<1>2. ~EndsUnsent(q, m)
  BY UnsentUnknown
<1>3. CASE q # p \/ m # 0
  <2>1. orders'[q][m].status = orders[q][m].status
    <3>1. CASE SetStatus(p, 0, "cancelled")
      BY <1>0, <1>2, <1>3, <3>1, StatusAlters
    <3>2. CASE NoChange
      BY <3>2 DEF NoChange, ledgerVars, vars
    <3> QED BY <3>1, <3>2 DEF SetStatusTx
  <2>2. (book[q][m].status = "cancelled" /\ CancelComing(q, m)) => CancelComing(q, m)'
    <3>1. book[q][m].status = "cancelled" => m = 0
      BY LInvFacts DEF Venued, BookRow
    <3> QED BY <1>3, <3>1
  <2> QED BY <1>1, <2>1, <2>2, KeptFollows DEF FollowInv
<1>4. CASE q = p /\ m = 0
  <2>1. Acked(p, 0) /\ book[p][0].status = "cancelled" /\ RecordedLots(p, 0) = Filled(p, 0)
    BY <1>4 DEF FollowInv, Follows
  <2>2. orders'[p][0].status = "cancelled"
    <3>1. CASE orders[p][0].status = "cancelled"
      <4>1. ~StatusAllowed(orders[p][0].status, "cancelled")
        BY <3>1 DEF StatusAllowed
      <4>2. NoChange
        BY <4>1 DEF SetStatusTx, StatusChanges
      <4> QED BY <3>1, <4>2 DEF NoChange, ledgerVars, vars
    <3>2. CASE orders[p][0].status # "cancelled"
      <4>1. orders[p][0].status = Progress(p, 0) /\ Filled(p, 0) < book[p][0].qty
        BY <2>1, <3>2 DEF Acked
      <4>2. orders[p][0].status \in {"submitted", "partially_filled"}
        BY <1>0, <2>1, <4>1, BookFacts DEF Progress
      <4>3. SetStatus(p, 0, "cancelled")
        BY <4>2 DEF SetStatusTx, StatusChanges, StatusAllowed, Unclaimed
      <4> QED BY <1>0, <1>2, <1>4, <4>3, StatusAlters
    <3> QED BY <3>1, <3>2
  <2>3. Acked(p, 0)'
    BY <2>1, <2>2 DEF Acked
  <2> QED BY <1>4, <2>3 DEF Follows
<1> QED BY <1>3, <1>4

LEMMA TakeUpdateFollows ==
  ASSUME LInv, BooksInv', [Next]_vars, FollowInv, TakeUpdate, ReportsRecorded
  PROVE  FollowInv'
<1>u. PICK u : u = Head(queue)
  OBVIOUS
<1>v. PICK p, n : p = u.trade /\ n = u.leg
  OBVIOUS
<1>1. /\ worker = Idle /\ queue # <<>> /\ queue' = Tail(queue)
      /\ queue[1] = u /\ 1 \in DOMAIN queue /\ queue[1].type = "update"
  BY <1>u, HeadItem DEF TakeUpdate
<1>2. /\ p \in Trades /\ n \in Legs /\ u.lot \in Nat
      /\ IsUpdate(1, p, n)
      /\ \A q, m : IsUpdate(1, q, m) => q = p /\ m = n
  BY <1>1, <1>v, QueueItems DEF IsUpdate
<1>3. /\ book' = book /\ worker' = worker
      /\ u.lot > 0 => RecordFillTx(u)
      /\ ~(u.lot > 0) => SetStatusTx(p, n, "cancelled")
  BY <1>u, <1>v DEF TakeUpdate, DbStep, bookVars, ReportsRecorded
<1>4. \A q, m : ~AtAck(q, m) /\ ~AtAck(q, m)'
  BY <1>1, <1>3 DEF AtAck, Idle
<1>5. \A q \in Trades, m \in Legs :
        CancelComing(q, m) /\ ~(q = p /\ m = n /\ u.lot = 0) => CancelComing(q, m)'
  <2> SUFFICES ASSUME NEW q \in Trades, NEW m \in Legs, CancelComing(q, m),
                      ~(q = p /\ m = n /\ u.lot = 0)
               PROVE  CancelComing(q, m)'
    OBVIOUS
  <2>1. CancelQueued(q, m)
    BY <1>1 DEF CancelComing, Idle
  <2>2. ~(IsUpdate(1, q, m) /\ queue[1].lot = 0)
    BY <1>1, <1>2
  <2> QED BY <1>1, <2>1, <2>2, CancelTail DEF CancelComing
<1>6. CASE u.lot > 0
  <2>1. u.lot > RecordedLots(p, n) =>
           /\ u.lot = RecordedLots(p, n) + 1
           /\ RecordedLots(p, n) < Filled(p, n)
           /\ u.ts = book[p][n].fillTs[RecordedLots(p, n) + 1]
    BY <1>1, <1>2, <1>6, HeadLot
  <2>2. u.lot \in Nat \ {0}
    BY <1>2, <1>6
  <2>3. UNCHANGED ledgerVars \/ FillNext(p, n)
    BY <1>2, <1>3, <1>6, <1>v, <2>1, <2>2, FillTxNext
  <2>4. \A q \in Trades, m \in Legs : CancelComing(q, m) => CancelComing(q, m)'
    BY <1>5, <1>6
  <2>5. CASE UNCHANGED ledgerVars
    BY <1>3, <1>4, <2>4, <2>5, UnrecordedFollows
  <2>6. CASE FillNext(p, n)
    BY <1>2, <1>3, <1>4, <2>4, <2>6, RecordedFillFollows
  <2> QED BY <2>3, <2>5, <2>6
<1>7. CASE u.lot = 0
  <2>1. Known(p, n) /\ Over(p, n)
    BY <1>1, <1>2, <1>7, HeadCancellation
  <2>2. book[p][n].status = "cancelled"
    BY <1>1, <1>2, <1>7 DEF LInv, QueueInv, QueueTells
  <2>3. n = 0
    BY <1>2, <2>2, LInvFacts DEF Venued, BookRow
  <2>4. SetStatusTx(p, 0, "cancelled") /\ RecordedLots(p, 0) = Filled(p, 0)
    BY <1>3, <1>7, <2>1, <2>3 DEF Over
  <2>5. \A q \in Trades : CancelComing(q, 0) /\ q # p => CancelComing(q, 0)'
    BY <1>5, LegsFacts
  <2> QED BY <1>2, <1>3, <1>4, <2>2, <2>3, <2>4, <2>5, CancelledFollows
<1> QED BY <1>2, <1>6, <1>7

LEMMA RecordEntryFillFollows ==
  ASSUME LInv, FollowInv, RecordEntryFill, ReportsRecorded
  PROVE  FollowInv'
<1>u. PICK p, lots : p = worker.trade /\ lots = worker.lots
  OBVIOUS
<1>v. PICK u : u = Head(lots)
  OBVIOUS
<1>1. /\ worker.step = "record_entry" /\ lots # <<>>
      /\ book' = book /\ queue' = queue
      /\ RecordFillTx(u) /\ worker' = [worker EXCEPT !.lots = Tail(lots)]
  BY <1>u, <1>v DEF RecordEntryFill, WorkerAt, DbStep, venueVars, bookVars, ReportsRecorded
<1>2. /\ p \in Trades /\ 0 \in Legs /\ lots \in Seq(Venue!Updates)
      /\ worker = [step |-> "record_entry", trade |-> p, todo |-> worker.todo, lots |-> lots]
      /\ ReadBack(p, lots)
  BY <1>u, <1>1, WorkerFields, LegsFacts DEF LInv, WorkerInv
<1>3. worker'.step = "record_entry" /\ worker'.trade = p
  BY <1>1, <1>2
<1>4. /\ \A q, m : ~AtAck(q, m) /\ ~AtAck(q, m)'
      /\ \A q \in Trades, m \in Legs : CancelComing(q, m) => CancelComing(q, m)'
  BY <1>u, <1>1, <1>3, CancelStands DEF AtAck, CancelComing
<1>5. u.trade = p /\ u.leg = 0 /\ u.lot \in Nat \ {0}
  BY <1>v, <1>1, <1>2, ReadBackTail
<1>6. u.lot > RecordedLots(p, 0) =>
        /\ u.lot = RecordedLots(p, 0) + 1
        /\ RecordedLots(p, 0) < Filled(p, 0)
        /\ u.ts = book[p][0].fillTs[RecordedLots(p, 0) + 1]
  BY <1>v, <1>1, <1>2, ReadBackTail
<1>7. UNCHANGED ledgerVars \/ FillNext(p, 0)
  BY <1>1, <1>2, <1>5, <1>6, FillTxNext
<1>8. CASE UNCHANGED ledgerVars
  BY <1>1, <1>4, <1>8, UnrecordedFollows
<1>9. CASE FillNext(p, 0)
  BY <1>1, <1>2, <1>4, <1>9, RecordedFillFollows
<1> QED BY <1>7, <1>8, <1>9

LEMMA EntryCancelledFollows ==
  ASSUME LInv, BooksInv', [Next]_vars, FollowInv, EntryCancelled, ReportsRecorded
  PROVE  FollowInv'
<1>p. PICK p : p = worker.trade
  OBVIOUS
<1>1. /\ worker.step = "record_entry" /\ worker.lots = <<>>
      /\ book' = book /\ queue' = queue /\ NextPosition
      /\ IF book[p][0].status \in {"none", "cancelled"}
         THEN SetStatusTx(p, 0, "cancelled") ELSE NoChange
  BY <1>p DEF EntryCancelled, WorkerAt, DbStep, venueVars, bookVars, Venue!StatusReport,
     ReportsRecorded
<1>2. p \in Trades /\ 0 \in Legs /\ ReadBack(p, worker.lots) /\ Len(worker.lots) = 0
  BY <1>p, <1>1, WorkerFields, LegsFacts DEF LInv, WorkerInv
<1>3. \A q, m : ~AtAck(q, m) /\ ~AtAck(q, m)'
  BY <1>1 DEF AtAck, NextPosition, Servicing
<1>4. \A q \in Trades, m \in Legs : q # p => (CancelComing(q, m) => CancelComing(q, m)')
  BY <1>p, <1>1, CancelStands DEF CancelComing
<1>5. CASE book[p][0].status \in {"none", "cancelled"}
  <2>1. Known(p, 0) => RecordedLots(p, 0) = Filled(p, 0)
    <3>1. Filled(p, 0) <= RecordedLots(p, 0)
      BY <1>2, BookFacts DEF ReadBack
    <3>2. Known(p, 0) => RecordedLots(p, 0) <= Filled(p, 0)
      BY <1>2, LInvFacts DEF Venued, Linked
    <3> QED BY <1>2, <3>1, <3>2, BookFacts
  <2>2. Known(p, 0) => book[p][0].status = "cancelled"
    BY <1>5 DEF Known
  <2>3. \A q \in Trades : CancelComing(q, 0) /\ q # p => CancelComing(q, 0)'
    BY <1>2, <1>4
  <2> QED BY <1>1, <1>2, <1>3, <1>5, <2>1, <2>2, <2>3, CancelledFollows
<1>6. CASE book[p][0].status \notin {"none", "cancelled"}
  <2>1. orders' = orders /\ \A q, m : RecordedLots(q, m)' = RecordedLots(q, m)
    BY <1>1, <1>6 DEF NoChange, ledgerVars, vars, RecordedLots, FillsOf
  <2> SUFFICES ASSUME NEW q \in Trades, NEW m \in Legs
               PROVE  Follows(q, m)'
    BY DEF FollowInv
  <2>2. (book[q][m].status = "cancelled" /\ CancelComing(q, m)) => CancelComing(q, m)'
    <3>1. book[q][m].status = "cancelled" => m = 0
      BY LInvFacts DEF Venued, BookRow
    <3> QED BY <1>4, <1>6, <3>1
  <2>3. book'[q][m] = book[q][m]
    BY <1>1
  <2> QED BY <1>3, <2>1, <2>2, <2>3, KeptFollows DEF FollowInv
<1> QED BY <1>5, <1>6

(***************************************************************************)
(* The statuses agree at rest.                                             *)
(***************************************************************************)
LEMMA FollowStep ==
  ASSUME LInv, FollowInv, [LifecycleNext]_lifecycleVars, ReportsRecorded
  PROVE  LInv' /\ FollowInv'
<1>1. LInv' /\ [Next]_vars /\ BooksInv'
  BY LInvStep DEF ReportsRecorded, LInv
<1>2. CASE Worker
  BY <1>1, <1>2, TakeApprovalFollows, PlaceEntryFollows, AckEntryFollows, TakeUpdateFollows,
     BeginObservationsFollows, ObserveOneFollows, ServiceFollows, PrepareFollows,
     CancelEntryFollows, RecordEntryFillFollows, EntryCancelledFollows, ClaimFollows,
     PlaceCloseFollows, AckCloseFollows
  DEF Worker
<1>3. CASE \/ ApplyNextFill \/ Clock \/ UNCHANGED lifecycleVars
           \/ \E p \in Trades : Approve(p) \/ \E r \in ExitReasons : Latch(p, r)
  BY <1>1, <1>3, SurroundingsFollow
<1>4. CASE Crash \/ Start \/ Recover
  BY <1>1, <1>4, RestartFollows
<1>5. CASE \E p \in Trades : MarketTick(p)
  BY <1>1, <1>5, MarketTickFollows
<1> QED BY <1>2, <1>3, <1>4, <1>5 DEF LifecycleNext

LEMMA FollowInit ==
  ASSUME LifecycleInit
  PROVE  FollowInv
<1>1. \A p \in Trades, n \in Legs : ~Known(p, n)
  BY LegsFacts DEF LifecycleInit, Venue!Init, Venue!NoSimOrder, Venue!Legs, Legs, Known
<1> QED BY <1>1 DEF FollowInv, Follows

(* At rest every fill is recorded, so the ledger's progress is the venue's. *)
LEMMA RestFollows ==
  ASSUME LInv, FollowInv
  PROVE  AtRestOrdersAgree
<1> SUFFICES ASSUME AtRest, NEW p \in Trades, NEW n \in Legs, Known(p, n)
             PROVE  orders[p][n].status = book[p][n].status
  BY DEF AtRestOrdersAgree, Known
<1>1. queue = <<>> /\ worker.step = "idle"
  BY DEF AtRest, WorkerAt
<1>2. ~AtAck(p, n) /\ ~CancelComing(p, n)
  BY <1>1 DEF AtAck, CancelComing, CancelQueued
<1>3. Acked(p, n) /\ BookRow(p, n) /\ Linked(p, n)
  BY <1>2, LInvFacts DEF FollowInv, Follows, Venued
<1>r. PICK r \in Nat, f \in Nat : r = RecordedLots(p, n) /\ f = Filled(p, n)
  BY BookFacts
<1>4. r = f
  <2>1. r <= f
    BY <1>3, <1>r DEF Linked
  <2>2. ~(r < f)
    <3> SUFFICES ASSUME r < f
                 PROVE  FALSE
      OBVIOUS
    <3>1. \E i \in DOMAIN queue : IsUpdate(i, p, n) /\ queue[i].lot = f
      BY <1>r DEF LInv, QueueInv, QueueHolds
    <3> QED BY <1>1, <3>1
  <2> QED BY <2>1, <2>2
<1>5. book[p][n].status # "cancelled" /\ book[p][n].status # "rejected" =>
        orders[p][n].status = Progress(p, n)
  BY <1>3 DEF Acked
<1>6. book[p][n].status \in {"cancelled", "rejected"} =>
        orders[p][n].status = book[p][n].status
  BY <1>2, <1>3 DEF Acked
<1>7. /\ book[p][n].status \in {"submitted", "partially_filled", "filled", "cancelled", "rejected"}
      /\ book[p][n].qty \in Nat /\ book[p][n].qty # 0
  <2>1. book[p][n] \in Venue!SimOrders /\ book[p][n].qty \in 0..EntryQty
    BY BookFacts
  <2>2. book[p][n].qty = orders[p][n].qty /\ orders[p][n].status # "none"
    BY <1>3 DEF Linked
  <2>3. orders[p][n].qty # 0
    <3>1. CASE n = 0
      BY <2>2, <3>1, LInvFacts DEF Books, EntryRow
    <3>2. CASE n # 0
      BY <2>2, <3>2, LInvFacts, LegsFacts DEF TradeInv, CloseShape
    <3> QED BY <3>1, <3>2
  <2> QED BY <2>1, <2>2, <2>3, LedgerAssumption
      DEF Known, Venue!SimOrders, Venue!Open, Venue!Closed
<1>q. PICK q0 \in Nat : q0 = book[p][n].qty
  BY <1>7
<1>8. Progress(p, n) = IF r = 0 THEN "submitted"
                       ELSE IF r = q0 THEN "filled" ELSE "partially_filled"
  BY <1>r, <1>q DEF Progress
<1>9. CASE book[p][n].status = "submitted"
  <2>1. r = 0
    BY <1>3, <1>4, <1>r, <1>9 DEF BookRow
  <2> QED BY <1>5, <1>8, <1>9, <2>1
<1>10. CASE book[p][n].status = "partially_filled"
  <2>1. Filled(p, n) > 0 /\ Filled(p, n) < book[p][n].qty
    BY <1>3, <1>10 DEF BookRow, Venue!Open
  <2>2. f > 0 /\ f < q0
    BY <1>r, <1>q, <2>1
  <2>3. r # 0 /\ r # q0
    BY <1>4, <2>2
  <2> QED BY <1>5, <1>8, <1>10, <2>3
<1>11. CASE book[p][n].status = "filled"
  <2>1. Filled(p, n) = book[p][n].qty
    BY <1>3, <1>11 DEF BookRow
  <2>2. r # 0 /\ r = q0
    BY <1>4, <1>7, <1>r, <1>q, <2>1
  <2> QED BY <1>5, <1>8, <1>11, <2>2
<1> QED BY <1>6, <1>7, <1>9, <1>10, <1>11

(* At rest the ledger knows how every order of the venue's book stands,    *)
(* whatever ticks, cancellations, read-backs, crashes and restarts raced   *)
(* its reports, if the transactions that record a report do not fail: an   *)
(* acknowledgement or a cancellation is reported once.                     *)
THEOREM OrdersAgree ==
  ASSUME ReportsRecorded
  PROVE  LifecycleSpec => []AtRestOrdersAgree
<1>1. LifecycleInit => LInv /\ FollowInv
  BY LInvInit, FollowInit
<1>2. LInv /\ FollowInv /\ [LifecycleNext]_lifecycleVars => (LInv /\ FollowInv)'
  BY FollowStep
<1>3. LInv /\ FollowInv => AtRestOrdersAgree
  BY RestFollows
<1> QED BY <1>1, <1>2, <1>3, PTL DEF LifecycleSpec
=============================================================================
