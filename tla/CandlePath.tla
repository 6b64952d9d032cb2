------------------------------ MODULE CandlePath ------------------------------
(***************************************************************************)
(* From closed one-minute candles to stored rows to wider candles:         *)
(* services/candle_recorder.py, candle_store.py and candle_aggregator.py;  *)
(* and the bars that still form, as services/live_tick_relay.py publishes  *)
(* them.                                                                   *)
(*                                                                         *)
(* One symbol is recorded.  Minutes count from the start of the session; a *)
(* minute outside Session is one market_clock has no bounds for.           *)
(***************************************************************************)
EXTENDS Integers, Sequences, FiniteSets, SequencesExt

CONSTANTS
  CandleMinutes,      \* minutes at which candles close in the model
  SessionEnd, Widths, \* WIDTH_TO_LABEL: 5, 15 and 60 minutes
  MaxCloses, MaxDbFaults

CONSTANTS WatchedSymbols, MaxWatched, MaxRelayTicks, MaxSwitches, RelayMinutes

ASSUME RelayAssumption == MaxWatched \in Nat /\ MaxRelayTicks \in Nat /\ MaxSwitches \in Nat

VARIABLES
  \* the recorder
  writerQueue, writer,   \* writer: "idle", "stopping", "stopped"
  rows,                      \* the candles table: one row per minute
  closes, lostWrites, accepted, dbFaults,
  \* the relay
  active, bars, dirty, relayQueue,
  flushing,      \* symbols of the flush under way that are not published yet
  snapshots,     \* the last snapshot published of each symbol
  since,         \* the tick number at which a symbol was last made active
  relayTicks, switches

candleVars == <<writerQueue, writer, rows, closes, lostWrites, accepted, dbFaults>>

(* A candle of one minute; its prices follow from its minute and its copy. *)
Candle(m, copy) ==
  [ts |-> m, open |-> m % 7, high |-> (m % 7) + copy, low |-> (m % 5) - copy,
   close |-> m % 5, volume |-> copy]

CandleInit ==
  /\ writerQueue = <<>> /\ writer = "idle" /\ rows = {}
  /\ closes = 0 /\ lostWrites = {} /\ accepted = {} /\ dbFaults = 0

(* _on_candle_closed, which stays subscribed after stop().                 *)
CandleCloses ==
  /\ closes < MaxCloses /\ closes' = closes + 1
  /\ \E m \in CandleMinutes :
       LET c == Candle(m, closes')
       IN /\ writerQueue' = Append(writerQueue, c)
          /\ accepted' = IF writer \in {"stopping", "stopped"} THEN accepted ELSE accepted \cup {c}
  /\ UNCHANGED <<writer, rows, lostWrites, dbFaults>>

Sentinel == [ts |-> -1]

(* stop() puts a sentinel behind what is queued.                           *)
StopWriter ==
  /\ writer = "idle" /\ writer' = "stopping"
  /\ writerQueue' = Append(writerQueue, Sentinel)
  /\ UNCHANGED <<rows, closes, lostWrites, accepted, dbFaults>>

(* mutant: a candle that comes again replaces the row *)
Upserted_Replaces(c) == {r \in rows : r.ts # c.ts} \cup {c}

(* on_conflict_do_nothing *)
Upserted(c) == IF \E r \in rows : r.ts = c.ts THEN rows ELSE rows \cup {c}

(* _writer_loop: one item at a time, a failing write is dropped.           *)
WriteOne ==
  /\ writer \in {"idle", "stopping"} /\ writerQueue # <<>>
  /\ writerQueue' = Tail(writerQueue)
  /\ LET c == Head(writerQueue)
     IN \/ /\ c = Sentinel /\ writer' = "stopped"
           /\ UNCHANGED <<rows, lostWrites, dbFaults>>
        \/ /\ c # Sentinel /\ rows' = Upserted(c)
           /\ UNCHANGED <<writer, lostWrites, dbFaults>>
        \/ /\ c # Sentinel /\ dbFaults < MaxDbFaults /\ dbFaults' = dbFaults + 1
           /\ lostWrites' = lostWrites \cup {c} /\ UNCHANGED <<writer, rows>>
  /\ UNCHANGED <<closes, accepted>>

CandleNext == CandleCloses \/ StopWriter \/ WriteOne

(* get_latest_recorded_candle: what the feed's status tells is latest.     *)
LatestRecorded == {r \in rows : \A q \in rows : q.ts <= r.ts}

---------------------------------------------------------------------------
(* candle_aggregator.py                                                    *)

Sorted(cs) == SetToSortSeq(cs, LAMBDA a, b : a.ts < b.ts)
Highest(S) == CHOOSE x \in S : \A y \in S : y <= x
Lowest(S) == CHOOSE x \in S : \A y \in S : x <= y

BucketStart(ts, width) == (ts \div width) * width

(* mutant: the range of a wider candle is that of the closes *)
Merged_Closes(start, members) ==
  [ts |-> start, open |-> Sorted(members)[1].open,
   high |-> Highest({c.close : c \in members}), low |-> Lowest({c.close : c \in members}),
   close |-> Sorted(members)[Cardinality(members)].close,
   volume |-> FoldSeq(LAMBDA c, n : c.volume + n, 0, Sorted(members))]

Merged(start, members) ==
  [ts |-> start, open |-> Sorted(members)[1].open,
   high |-> Highest({c.high : c \in members}), low |-> Lowest({c.low : c \in members}),
   close |-> Sorted(members)[Cardinality(members)].close,
   volume |-> FoldSeq(LAMBDA c, n : c.volume + n, 0, Sorted(members))]

InSession(cs) == {c \in cs : c.ts \in 0 .. SessionEnd - 1}

(* _bucket_and_aggregate; each member's bucket is taken from its own ts.   *)
Aggregated(cs, width) ==
  {Merged(b, {c \in InSession(cs) : BucketStart(c.ts, width) = b}) :
    b \in {BucketStart(c.ts, width) : c \in InSession(cs)}}

(* aggregate_from_recorded, 1h from 15m from 5m from 1m.                   *)
FromRecorded(cs, width) ==
  LET five == Aggregated(cs, 5)
      fifteen == Aggregated(five, 15)
  IN CASE width = 5 -> five [] width = 15 -> fifteen [] width = 60 -> Aggregated(fifteen, 60)

---------------------------------------------------------------------------
(* live_tick_relay.py: ticks of a few watched symbols are queued, applied  *)
(* to one forming bar each, and the bars that changed are published every  *)
(* few seconds.  A bar is its minute and its tick numbers.                 *)

relayVars == <<active, bars, dirty, relayQueue, flushing, snapshots, since,
               relayTicks, switches>>

NoBar == [minute |-> -1, ticks |-> {}]

RelayInit ==
  /\ active = {} /\ bars = [s \in WatchedSymbols |-> NoBar] /\ dirty = {}
  /\ relayQueue = <<>> /\ flushing = {}
  /\ snapshots = [s \in WatchedSymbols |-> NoBar]
  /\ since = [s \in WatchedSymbols |-> 0]
  /\ relayTicks = 0 /\ switches = 0

(* set_active_symbols: refused above the limit, otherwise wholesale.       *)
SetActive ==
  /\ switches < MaxSwitches /\ switches' = switches + 1
  /\ \E new \in SUBSET WatchedSymbols :
       /\ Cardinality(new) <= MaxWatched /\ active' = new
       /\ bars' = [s \in WatchedSymbols |-> IF s \in active \ new THEN NoBar ELSE bars[s]]
       /\ dirty' = dirty \ (active \ new)
       /\ since' = [s \in WatchedSymbols |-> IF s \in new \ active THEN relayTicks ELSE since[s]]
  /\ UNCHANGED <<relayQueue, flushing, snapshots, relayTicks>>

PriceUpdated ==
  /\ relayTicks < MaxRelayTicks /\ relayTicks' = relayTicks + 1
  /\ \E s \in active, m \in RelayMinutes :
       relayQueue' = Append(relayQueue, [sym |-> s, minute |-> m, n |-> relayTicks'])
  /\ UNCHANGED <<active, bars, dirty, flushing, snapshots, since, switches>>

Applied(bar, t) ==
  IF bar.minute = t.minute THEN [bar EXCEPT !.ticks = @ \cup {t.n}]
  ELSE [minute |-> t.minute, ticks |-> {t.n}]

(* _apply_tick: also for a symbol that is watched no more.                 *)
ApplyTick ==
  /\ relayQueue # <<>> /\ relayQueue' = Tail(relayQueue)
  /\ LET t == Head(relayQueue)
     IN /\ bars' = [bars EXCEPT ![t.sym] = Applied(@, t)]
        /\ dirty' = dirty \cup {t.sym}
  /\ UNCHANGED <<active, flushing, snapshots, relayTicks, since, switches>>

BeginFlush ==
  /\ flushing = {} /\ dirty # {} /\ flushing' = dirty /\ dirty' = {}
  /\ UNCHANGED <<active, bars, relayQueue, snapshots, relayTicks, since, switches>>

Publishable(s) == bars[s] # NoBar /\ s \in active

PublishBar ==
  /\ \E s \in flushing :
       /\ flushing' = flushing \ {s}
       /\ snapshots' = IF Publishable(s) THEN [snapshots EXCEPT ![s] = bars[s]] ELSE snapshots
  /\ UNCHANGED <<active, bars, dirty, relayQueue, relayTicks, since, switches>>

RelayNext == SetActive \/ PriceUpdated \/ ApplyTick \/ BeginFlush \/ PublishBar

---------------------------------------------------------------------------
CandleTypeOK == \A r \in rows : r.ts \in CandleMinutes /\ r.volume \in 1 .. MaxCloses

(* Each minute has one row, its first candle that could be written; and    *)
(* a stopped writer has written, or failed to write, everything that was   *)
(* accepted before the stop.  With nothing left to write, the row told as  *)
(* the latest is of the latest minute that could be written.               *)
FirstCandleStays ==
  /\ \A r, s \in rows : r.ts = s.ts => r = s
  /\ \A r \in rows : \A c \in accepted \ lostWrites : c.ts = r.ts => r.volume <= c.volume
  /\ writer = "stopped" => \A c \in accepted \ lostWrites : \E r \in rows : r.ts = c.ts
  /\ writerQueue = <<>> /\ accepted \ lostWrites # {} =>
       {r.ts : r \in LatestRecorded} = {Highest({c.ts : c \in accepted \ lostWrites})}

(* A wider candle built through the narrower ones is the one built from    *)
(* the minutes at once: nothing is lost or counted twice between them.     *)
AggregationAgrees ==
  \A w \in Widths : FromRecorded(rows, w) = Aggregated(rows, w)

RelayTypeOK == Cardinality(active) <= MaxWatched /\ dirty \cup flushing \subseteq WatchedSymbols

(* What was last published of a watched symbol is its bar, unless a change *)
(* is waiting for a flush.  A bar left behind by ticks that were queued    *)
(* when its symbol was dropped counts once the symbol gets ticks again.    *)
SnapshotsFresh ==
  \A s \in active : (\E n \in bars[s].ticks : n > since[s]) =>
    s \in dirty \cup flushing \/ snapshots[s] = bars[s]
=============================================================================
