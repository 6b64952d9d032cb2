---------------------------- MODULE SimulatedVenue ----------------------------
(***************************************************************************)
(* broker_adapters/simulated_venue.py: the in-memory order book of one     *)
(* process.  It runs on the event loop and never suspends inside a method, *)
(* so each method is one atomic step; _dispatch calls the registered       *)
(* callbacks synchronously, and what they are called with is appended to   *)
(* `dispatched', which a composition substitutes by the receiver's queue.  *)
(*                                                                         *)
(* Each trade has a symbol of its own, so the book is indexed by trade and *)
(* leg (the client order ID).  Orders are market orders, which every tick  *)
(* crosses.  The fill planner splits an order into lots, one per tick: one *)
(* lot per order is the default planner.                                   *)
(***************************************************************************)
EXTENDS Integers, Sequences, FiniteSets

CONSTANTS
  Trades,       \* trades, each on its own symbol
  MaxAttempts,  \* bound on the close legs of a trade
  MaxLots,      \* bound on the lots of an order
  Stamps        \* exchange timestamps of ticks

Legs == 0..MaxAttempts

ASSUME VenueAssumption ==
  /\ MaxAttempts \in Nat
  /\ MaxLots \in Nat \ {0}
  /\ Stamps \subseteq Nat

VARIABLES
  connected,   \* is_connected()
  listening,   \* a callback is registered
  book,        \* book[p][n]: the order with that client ID, _orders
  waiting,     \* waiting[p]: its symbol's pending orders, in acceptance order
  dispatched   \* the updates the callback was called with

venueVars == <<connected, listening, book, waiting, dispatched>>

Open == {"submitted", "partially_filled"}
Closed == {"filled", "cancelled", "rejected"}

(* `fillTs' holds the exchange timestamps of the order's fills, so its     *)
(* length is filled_qty and fill k has the venue_fill_id `<order>:f<k>'.   *)
NoSimOrder == [status |-> "none", qty |-> 0, fillTs |-> <<>>]
SimOrders == [status : {"none"} \cup Open \cup Closed, qty : 0..MaxLots,
              fillTs : Seq(Stamps)]

(* An OrderUpdate: fill number `lot', or the cancellation (lot 0). *)
Update(p, n, lot, ts) ==
  [type |-> "update", trade |-> p, leg |-> n, lot |-> lot, ts |-> ts]
Updates == [type : {"update"}, trade : Trades, leg : Legs,
            lot : 0..MaxLots, ts : Stamps \cup {0}]

Init ==
  /\ connected = FALSE
  /\ listening = FALSE
  /\ book = [p \in Trades |-> [n \in Legs |-> NoSimOrder]]
  /\ waiting = [p \in Trades |-> <<>>]
  /\ dispatched = <<>>

Filled(p, n) == Len(book[p][n].fillTs)

(* _dispatch *)
Dispatch(updates) ==
  dispatched' = IF listening THEN dispatched \o updates ELSE dispatched

Connect ==
  /\ connected' = TRUE
  /\ UNCHANGED <<listening, book, waiting, dispatched>>

(* on_order_update *)
Register ==
  /\ listening' = TRUE
  /\ UNCHANGED <<connected, book, waiting, dispatched>>

(* disconnect forgets the callbacks and keeps the book. *)
Disconnect ==
  /\ connected' = FALSE
  /\ listening' = FALSE
  /\ UNCHANGED <<book, waiting, dispatched>>

(* place_order: an ID it has seen is answered with its original            *)
(* acknowledgement and changes nothing.                                    *)
Known_OpenOnly(order) == order.status \in Open
Known(order) == order.status # "none"

NewSimOrder(qty, regular) ==
  [NoSimOrder EXCEPT
     !.qty = qty, !.status = IF connected /\ regular THEN "submitted" ELSE "rejected"]

PlaceOrder(p, n, qty, regular) ==
  IF Known(book[p][n])
  THEN UNCHANGED venueVars
  ELSE /\ book' = [book EXCEPT ![p][n] = NewSimOrder(qty, regular)]
       /\ waiting' = IF connected /\ regular
                     THEN [waiting EXCEPT ![p] = Append(@, n)] ELSE waiting
       /\ UNCHANGED <<connected, listening, dispatched>>

(* _ack_for, of the book a placement leaves. *)
Ack(order) == IF order.status = "rejected" THEN "rejected" ELSE "submitted"

(* The elements of a sequence that are in S, in its order: SelectSeq, by   *)
(* the rank of what is kept.                                               *)
KeptAt(s, S) == {i \in DOMAIN s : s[i] \in S}
Rank(s, S, i) == Cardinality({j \in KeptAt(s, S) : j <= i})
Keep(s, S) == [k \in 1..Cardinality(KeptAt(s, S)) |->
                 s[CHOOSE i \in KeptAt(s, S) : Rank(s, S, i) = k]]

(* _remove_from_pending *)
Without_Nothing(orders, n) == orders
Without(orders, n) == Keep(orders, Legs \ {n})

(* cancel_order: unknown and terminal orders are left alone. *)
CancelOrder_Always(p, n) ==
  /\ book' = [book EXCEPT ![p][n].status = "cancelled"]
  /\ waiting' = [waiting EXCEPT ![p] = Without(@, n)]
  /\ Dispatch(<<Update(p, n, 0, 0)>>)
  /\ UNCHANGED <<connected, listening>>
CancelOrder(p, n) ==
  IF book[p][n].status \in Open
  THEN /\ book' = [book EXCEPT ![p][n].status = "cancelled"]
       /\ waiting' = [waiting EXCEPT ![p] = Without(@, n)]
       /\ Dispatch(<<Update(p, n, 0, 0)>>)
       /\ UNCHANGED <<connected, listening>>
  ELSE UNCHANGED venueVars

(* get_order, get_fills *)
StatusReport(p, n) == book[p][n].status
FillReports(p, n) ==
  [k \in 1..Filled(p, n) |-> Update(p, n, k, book[p][n].fillTs[k])]

(* get_positions: the venue's net lots of a trade's symbol. *)
NetLots(p) ==
  Filled(p, 0) - Cardinality({x \in (Legs \ {0}) \X (1..MaxLots) :
                                x[2] <= Filled(p, x[1])})

(* _apply_fill *)
FillOne_OffByOne(order, ts) ==
  [order EXCEPT !.fillTs = Append(@, ts),
                !.status = IF Len(order.fillTs) = order.qty
                           THEN "filled" ELSE "partially_filled"]
FillOne(order, ts) ==
  [order EXCEPT !.fillTs = Append(@, ts),
                !.status = IF Len(order.fillTs) + 1 = order.qty
                           THEN "filled" ELSE "partially_filled"]

(* ingest_tick, for a valid tick: the next lot of every waiting order of   *)
(* the symbol, in acceptance order.  A tick reaches the venue through the  *)
(* bus, whose handler ignores it while the venue is not connected.         *)
IngestTick(p, ts) ==
  LET hit == {waiting[p][i] : i \in DOMAIN waiting[p]}
      after == [n \in Legs |-> IF n \in hit THEN FillOne(book[p][n], ts)
                                            ELSE book[p][n]]
  IN /\ connected
     /\ waiting[p] # <<>>
     /\ book' = [book EXCEPT ![p] = after]
     /\ waiting' = [waiting EXCEPT ![p] =
                      Keep(@, {n \in Legs : after[n].status \in Open})]
     /\ Dispatch([i \in DOMAIN waiting[p] |->
                    Update(p, waiting[p][i], Filled(p, waiting[p][i]) + 1, ts)])
     /\ UNCHANGED <<connected, listening>>

Next ==
  \/ Connect
  \/ Register
  \/ Disconnect
  \/ \E p \in Trades :
       \/ \E n \in Legs, q \in 1..MaxLots, r \in BOOLEAN : PlaceOrder(p, n, q, r)
       \/ \E n \in Legs : CancelOrder(p, n)
       \/ \E ts \in Stamps : IngestTick(p, ts)

Spec == Init /\ [][Next]_venueVars

(***************************************************************************)
(* Properties.                                                             *)
(***************************************************************************)
TypeOK ==
  /\ connected \in BOOLEAN
  /\ listening \in BOOLEAN
  /\ book \in [Trades -> [Legs -> SimOrders]]
  /\ waiting \in [Trades -> Seq(Legs)]
  /\ dispatched \in Seq(Updates)

(* The pending index and the order book agree: a symbol's pending list     *)
(* holds its open orders, each once, and an order is filled exactly when   *)
(* all its lots are.  Otherwise a tick would fill a finished order, or     *)
(* never fill an open one.                                                 *)
PendingAgrees ==
  \A p \in Trades :
    /\ {waiting[p][i] : i \in DOMAIN waiting[p]} =
         {n \in Legs : book[p][n].status \in Open}
    /\ Len(waiting[p]) = Cardinality({n \in Legs : book[p][n].status \in Open})
    /\ \A n \in Legs :
         /\ Filled(p, n) <= book[p][n].qty
         /\ book[p][n].status = "filled" <=> (book[p][n].qty > 0 /\ Filled(p, n) = book[p][n].qty)
         /\ book[p][n].status = "partially_filled" => Filled(p, n) > 0

(* A receiver sees an order's fills once each and in order, what it sees   *)
(* is what get_fills reports, and nothing follows the cancellation.        *)
UpdatesTellTheBook ==
  \A i \in DOMAIN dispatched :
    LET u == dispatched[i] IN
    /\ u.lot > 0 => /\ u.lot <= Filled(u.trade, u.leg)
                    /\ book[u.trade][u.leg].fillTs[u.lot] = u.ts
    /\ u.lot = 0 => book[u.trade][u.leg].status = "cancelled"
    /\ \A j \in i + 1 .. Len(dispatched) :
         (dispatched[j].trade = u.trade /\ dispatched[j].leg = u.leg) =>
           /\ u.lot > 0
           /\ dispatched[j].lot = 0 \/ dispatched[j].lot > u.lot

(* A client order ID is placed once: whatever is sent again, its terms and *)
(* its recorded fills stand and a terminal order stays as it is.           *)
BookStands ==
  [][\A p \in Trades, n \in Legs :
       LET old == book[p][n]
           new == book'[p][n]
       IN /\ old.status # "none" => new.qty = old.qty
          /\ old.status \in Closed => new = old
          /\ SubSeq(new.fillTs, 1, Len(old.fillTs)) = old.fillTs]_venueVars

=============================================================================
