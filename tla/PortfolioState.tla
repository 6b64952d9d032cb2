--------------------------- MODULE PortfolioState ---------------------------
(***************************************************************************)
(* portfolio_state/engine.py: the worker that keeps the committed read     *)
(* cache of positions and entries in flight.  Notifications only wake it;  *)
(* the numbers come from the ledger.  get_snapshot answers only while      *)
(* _ready, from any thread, so every step below is between two awaits and  *)
(* a reader may come between any two steps.                                *)
(*                                                                         *)
(* An entry is filled once and its position closed once; quantities,       *)
(* prices and P&L are left out (ExecutionLedger has the accounting).       *)
(* A mark is the exchange time of its tick.                                *)
(***************************************************************************)
EXTENDS Integers, Sequences, FiniteSets, SequencesExt

CONSTANTS
  Entries,        \* entry orders, named by their opportunity
  SymbolOf,
  MaxDisturbances  \* bounds ticks, failures and applications elsewhere

ASSUME PortfolioAssumption ==
  IsFiniteSet(Entries) /\ DOMAIN SymbolOf = Entries /\ MaxDisturbances \in Nat

VARIABLES
  \* the ledger
  status,     \* status[e]: "none", "reserved", "filled", "closed", "cancelled"
  fills,      \* recorded fills, as <<entry, effect>>, in ledger order
  applied,    \* the cursor: how many of them have a receipt
  \* the engine
  state,      \* the installed LedgerState; start() has awaited the first one
  ready, unresolved, anomaly, marks, queue, retry, pc, batch,
  \* its surroundings
  bus,        \* notifications published and not yet delivered
  clock, failures, elsewhere,
  \* history
  heard,      \* the ledger when the worker took its last notification
  closedEvents

ledgerVars == <<status, fills, applied>>
engineVars == <<state, ready, unresolved, anomaly, marks, queue, retry, pc, batch>>
portfolioVars == <<ledgerVars, engineVars, bus, clock, failures, elsewhere, heard, closedEvents>>

Restored == [cursor |-> 0, positions |-> {}, inflight |-> {}]
NoMark == -1
Refresh == [kind |-> "refresh"]
Symbols == {SymbolOf[e] : e \in Entries}
Room == clock + failures + elsewhere < MaxDisturbances

PortfolioInit ==
  /\ status = [e \in Entries |-> "none"] /\ fills = <<>> /\ applied = 0
  /\ state = Restored /\ ready = TRUE /\ unresolved = {} /\ anomaly = FALSE
  /\ marks = [e \in Entries |-> NoMark]
  /\ queue = <<>> /\ retry = FALSE /\ pc = "idle" /\ batch = <<>>
  /\ bus = <<>> /\ clock = 0 /\ failures = 0 /\ elsewhere = 0
  /\ heard = [fills |-> 0, reserved |-> {}] /\ closedEvents = <<>>

---------------------------------------------------------------------------
(* What the ledger answers                                                 *)

Applied(n) == {fills[i] : i \in 1 .. n}
OpenAfter(n) == {e \in Entries : <<e, "open">> \in Applied(n) /\ <<e, "close">> \notin Applied(n)}
Reserved == {e \in Entries : status[e] # "none"}

(* mutant: an approved entry counts only once it has an order row *)
LedgerState_NoReservations(n) ==
  [cursor |-> n, positions |-> OpenAfter(n), inflight |-> {}]

(* PostgresPositionLedger._state: positions from the receipts, entries in  *)
(* flight from the status of their order or from a bare reservation.       *)
LedgerState(n) ==
  [cursor |-> n, positions |-> OpenAfter(n),
   inflight |-> {e \in Entries : status[e] = "reserved"}]

(* _install_state: a mark survives only with the position it belongs to.   *)
Install(s) ==
  /\ state' = s
  /\ marks' = [e \in Entries |-> IF e \in state.positions \cap s.positions THEN marks[e] ELSE NoMark]

(* build_snapshot and PortfolioStateAdapter.get_snapshot.                  *)
Snapshot == state.positions \cup state.inflight

---------------------------------------------------------------------------
(* The worker                                                              *)

LedgerStill == UNCHANGED <<ledgerVars, bus, clock, elsewhere>>

(* _on_event: a price of a symbol without a position is dropped.           *)
Deliver ==
  /\ bus # <<>> /\ bus' = Tail(bus)
  /\ LET e == Head(bus)
     IN  IF e.kind = "price"
         THEN /\ queue' = IF \E p \in state.positions : SymbolOf[p] = e.symbol
                          THEN Append(queue, e) ELSE queue
              /\ UNCHANGED ready
         ELSE queue' = Append(queue, e) /\ ready' = FALSE
  /\ UNCHANGED <<ledgerVars, state, unresolved, anomaly, marks, retry, pc, batch,
                 clock, failures, elsewhere, heard, closedEvents>>

(* mutant: a tick may value a position it is older than *)
MarkAllowed_AnyTick(p, t) == SymbolOf[p] = t.symbol /\ t.ts > marks[p]

OpenedAt(p) == LET i == CHOOSE i \in DOMAIN fills : fills[i] = <<p, "open">> IN i
MarkAllowed(p, t) ==
  /\ SymbolOf[p] = t.symbol
  /\ t.fillsBefore >= OpenedAt(p)      \* not before opened_at
  /\ t.ts > marks[p]

(* update_mark *)
TakePrice ==
  /\ pc = "idle" /\ queue # <<>> /\ Head(queue).kind = "price"
  /\ queue' = Tail(queue)
  /\ marks' = [p \in Entries |->
        IF p \in state.positions /\ MarkAllowed(p, Head(queue)) THEN Head(queue).ts ELSE marks[p]]
  /\ UNCHANGED <<state, ready, unresolved, anomaly, retry, pc, batch,
                 failures, heard, closedEvents>>
  /\ LedgerStill

Take ==
  /\ pc = "idle" /\ queue # <<>> /\ Head(queue).kind # "price"
  /\ queue' = Tail(queue)
  /\ unresolved' = IF Head(queue).kind = "refresh" THEN unresolved
                   ELSE unresolved \cup {Head(queue).entry}
  /\ anomaly' = FALSE /\ ready' = FALSE /\ pc' = "load"
  /\ heard' = [fills |-> Len(fills), reserved |-> {e \in Entries : status[e] # "none"}]
  /\ UNCHANGED <<state, marks, retry, batch, failures, closedEvents>>
  /\ LedgerStill

Load ==
  /\ pc = "load" /\ Install(LedgerState(applied)) /\ pc' = "pending"
  /\ UNCHANGED <<ready, unresolved, anomaly, queue, retry, batch, failures, heard, closedEvents>>
  /\ LedgerStill

(* mutant: a failed step arms no retry *)
RetryArmed_Never == retry

RetryArmed == retry \/ ~anomaly     \* _schedule_retry: one task at a time

Fail ==
  /\ ready' = FALSE /\ pc' = "idle" /\ batch' = <<>>
  /\ retry' = RetryArmed
  /\ UNCHANGED <<state, unresolved, anomaly, marks, queue, heard>>

(* pending_fills insists on the cursor of the state just installed.        *)
Pending ==
  /\ pc = "pending"
  /\ IF state.cursor # applied THEN Fail
     ELSE /\ batch' = SubSeq(fills, applied + 1, Len(fills)) /\ pc' = "apply"
          /\ UNCHANGED <<state, ready, unresolved, anomaly, marks, queue, retry, heard>>
  /\ UNCHANGED <<failures, closedEvents>>
  /\ LedgerStill

(* commit_fill: the first pending fill at the expected cursor; one that    *)
(* has its receipt already makes the worker start over.                    *)
Apply ==
  /\ pc = "apply" /\ batch # <<>>
  /\ IF state.cursor < applied
     THEN /\ Install(LedgerState(applied))
          /\ queue' = Append(queue, Refresh) /\ batch' = <<>> /\ pc' = "idle"
          /\ UNCHANGED <<applied, bus, closedEvents>>
     ELSE /\ applied' = applied + 1
          /\ Install(LedgerState(applied + 1))
          /\ batch' = Tail(batch)
          /\ closedEvents' = IF Head(batch)[2] = "close"
                             THEN Append(closedEvents, Head(batch)[1]) ELSE closedEvents
          /\ UNCHANGED <<queue, pc, bus>>
  /\ UNCHANGED <<status, fills, ready, unresolved, anomaly, retry,
                 clock, failures, elsewhere, heard>>

(* The unresolved orders are looked up one by one; only they can make the  *)
(* snapshot unavailable without an error.                                  *)
Resolve ==
  /\ pc = "apply" /\ batch = <<>>
  /\ unresolved' = unresolved \ Reserved
  /\ ready' = (unresolved' = {}) /\ anomaly' = (unresolved' # {})
  /\ pc' = "idle"
  /\ UNCHANGED <<state, marks, queue, retry, batch, failures, heard, closedEvents>>
  /\ LedgerStill

(* A ledger call raises; the transaction of a commit may have committed.   *)
Raise ==
  /\ pc # "idle" /\ Room /\ failures' = failures + 1
  /\ Fail
  /\ \/ UNCHANGED applied
     \/ pc = "apply" /\ batch # <<>> /\ state.cursor = applied /\ applied' = applied + 1
  /\ UNCHANGED <<status, fills, bus, clock, elsewhere, closedEvents>>

(* _retry_after *)
Retry ==
  /\ retry /\ retry' = FALSE /\ queue' = Append(queue, Refresh)
  /\ UNCHANGED <<state, ready, unresolved, anomaly, marks, pc, batch, failures, heard, closedEvents>>
  /\ LedgerStill

Worker == TakePrice \/ Take \/ Load \/ Pending \/ Apply \/ Resolve

---------------------------------------------------------------------------
(* The execution engine's writes, each announced on the bus                *)

Announce(e) == bus' = Append(bus, [kind |-> "order", entry |-> e])
EngineStill == UNCHANGED <<engineVars, heard, closedEvents, failures>>

RecordFill(e, effect) ==
  /\ status[e] = IF effect = "open" THEN "reserved" ELSE "filled"
  /\ effect = "close" => e \in OpenAfter(applied)
  /\ status' = [status EXCEPT ![e] = IF effect = "open" THEN "filled" ELSE "closed"]
  /\ fills' = Append(fills, <<e, effect>>)
  /\ Announce(e)
  /\ UNCHANGED <<applied, clock, elsewhere>> /\ EngineStill

CancelEntry(e) ==
  /\ status[e] = "reserved" /\ status' = [status EXCEPT ![e] = "cancelled"]
  /\ Announce(e)
  /\ UNCHANGED <<fills, applied, clock, elsewhere>> /\ EngineStill

(* A tick is of this moment or older than every fill recorded so far.      *)
Price(s) ==
  /\ Room /\ clock' = clock + 1
  /\ \E ts \in {clock, clock + 1} :
       bus' = Append(bus, [kind |-> "price", symbol |-> s, ts |-> ts,
                           fillsBefore |-> IF ts = clock THEN 0 ELSE Len(fills)])
  /\ UNCHANGED <<ledgerVars, elsewhere>> /\ EngineStill

(* Reconciliation, or a second process, applies the next fill.             *)
Elsewhere ==
  /\ Room /\ elsewhere' = elsewhere + 1
  /\ applied < Len(fills) /\ applied' = applied + 1
  /\ UNCHANGED <<status, fills, bus, clock>> /\ EngineStill

PortfolioNext ==
  \/ Deliver \/ Worker \/ Raise \/ Retry \/ Elsewhere
  \/ \E e \in Entries : CancelEntry(e) \/ \E effect \in {"open", "close"} : RecordFill(e, effect)
  \/ \E s \in Symbols : Price(s)
=============================================================================
