--------------------------- MODULE PositionMonitor ---------------------------
(***************************************************************************)
(* position_monitor/engine.py: ticks are journaled in arrival order before *)
(* any position is read; one worker replays them against the positions of  *)
(* the Portfolio State snapshot, handles closed candles and timer pulses,  *)
(* and creates observation slots that the execution engine acknowledges or *)
(* hands back.  Everything but the queue is synchronous, so each handler   *)
(* is one step.                                                            *)
(*                                                                         *)
(* Abstractions.  A price is a small integer compared with the position's  *)
(* levels.  One trading day, whose EOD window is FlattenAt .. CloseAt - 1. *)
(* Invalid or future-stamped ticks change nothing and are not generated.   *)
(* Wall clock and monotonic clock are one clock.  Incident records, log    *)
(* throttling, the diagnostic tick cache and the diagnostic list of first  *)
(* intents are left out; lost_window is kept.                              *)
(***************************************************************************)
EXTENDS Integers, Sequences, FiniteSets, FiniteSetsExt, SequencesExt

CONSTANTS
  Positions, Symbols,
  SymbolOf,        \* the symbol of each position
  Levels,          \* Levels[p] = [side, stop, target]; a level 0 is absent
  PricesOf,        \* the prices at which each symbol trades
  LagsOf,          \* how old a tick of each symbol may be when it arrives
  CandlesOf,       \* the candles of each symbol, as <<low, high>>
  Restorable,      \* the positions that may be open at start()
  MaxTicksPerSymbol, MaxSymbols, Retention,   \* the journal's limits
  FlattenAt, CloseAt,
  MaxTime, MaxTicks, MaxEvents, MaxOutages    \* bounds of the model

ASSUME MonitorAssumption ==
  /\ Restorable \subseteq Positions
  /\ SymbolOf \in [Positions -> Symbols]
  /\ \A s \in Symbols : /\ PricesOf[s] \subseteq Int /\ LagsOf[s] \subseteq Nat
                        /\ CandlesOf[s] \subseteq Int \X Int
  /\ MaxTicksPerSymbol \in Nat \ {0} /\ MaxSymbols \in Nat \ {0}
  /\ Retention \in Nat \ {0}
  /\ FlattenAt \in Nat /\ CloseAt \in Nat /\ FlattenAt < CloseAt
  /\ MaxEvents \in Nat

VARIABLES
  \* the monitor
  seq,
  queue,        \* items [kind, seq, ...] of the worker
  journal,      \* journal[s]: the retained ticks
  progress,     \* progress[p]: arrival number of the last tick evaluated
  visible, unavailable, fillPending, lost,
  slots,        \* slots[p][k]: NoSlot or [state, reason, ts]
  closed,       \* reported closed by the consumer
  tickFloor,    \* the EOD tick an INVALID release refused
  \* its environment
  stage,        \* stage[p]: "none", "open", "closed" in the ledger
  openedAt, held, notices, now,
  outages,
  \* history
  accepted, evicted, expiredFlat, invalid

monitorVars == <<seq, queue, journal, progress, visible, unavailable,
                 fillPending, lost, slots, closed, tickFloor>>
envVars == <<stage, openedAt, held, notices, now, outages>>
history == <<accepted, evicted, expiredFlat, invalid>>
vars == <<monitorVars, envVars, history>>

Kinds == {"protective", "eod"}
NoTime == -1
NoSlot == [state |-> "none", reason |-> "none", ts |-> NoTime]
NoSlots == [k \in Kinds |-> NoSlot]
Pending(reason, ts) == [state |-> "pending", reason |-> reason, ts |-> ts]

(* restore_observation: a committed request of an earlier process is       *)
(* re-armed before start(), never as pending.                              *)
Restored == {NoSlots} \cup
  {[NoSlots EXCEPT !["eod"] = [state |-> st, reason |-> "eod_flatten", ts |-> 0]] :
     st \in {"acknowledged", "expired"}}

Init ==
  /\ seq = 0 /\ queue = <<>>
  /\ journal = [s \in Symbols |-> {}]
  /\ progress = [p \in Positions |-> 0]
  /\ visible = {} /\ unavailable = FALSE /\ lost = FALSE
  /\ fillPending = [s \in Symbols |-> NoTime]
  /\ closed = {} /\ tickFloor = [p \in Positions |-> NoTime]
  /\ held \in {{p} : p \in Restorable} \cup {{}}
  /\ stage = [p \in Positions |-> IF p \in held THEN "open" ELSE "none"]
  /\ openedAt = [p \in Positions |-> IF p \in held THEN 0 ELSE NoTime]
  /\ slots \in {[p \in Positions |-> IF p \in held THEN r ELSE NoSlots] : r \in Restored}
  /\ outages = 0
  /\ notices = [p \in Positions |-> 0] /\ now = 0
  /\ accepted = {} /\ evicted = {} /\ expiredFlat = {} /\ invalid = {}

---------------------------------------------------------------------------
(* Evaluation                                                              *)

(* _stop_touched, _target_touched, _evaluate: the stop is checked first.   *)
Below(price, level) == level # 0 /\ price <= level
Above(price, level) == level # 0 /\ price >= level

Evaluate(p, low, high) ==
  LET L == Levels[p]
      stop == IF L.side = "BUY" THEN Below(low, L.stop) ELSE Above(high, L.stop)
      target == IF L.side = "BUY" THEN Above(high, L.target) ELSE Below(low, L.target)
  IN  IF stop THEN "stop" ELSE IF target THEN "target" ELSE "none"

Touches(p, t) == t.ts >= openedAt[p] /\ Evaluate(p, t.price, t.price) # "none"

First(ticks) == CHOOSE t \in ticks : \A u \in ticks : t.seq <= u.seq
Latest(ticks) ==   \* by exchange time, first received wins a tie
  CHOOSE t \in ticks : \A u \in ticks : u.ts < t.ts \/ (u.ts = t.ts /\ t.seq <= u.seq)

---------------------------------------------------------------------------
(* What the journal must keep.  m is the monitor's state as a record, so   *)
(* that replay can be judged with the slots it has just filled.            *)

Now == [journal |-> journal, progress |-> progress, visible |-> visible,
        unavailable |-> unavailable, fillPending |-> fillPending, slots |-> slots,
        closed |-> closed]

(* mutant: a position the consumer reported closed is observed again *)
ProtectiveOpen_Finished(m, p) == m.slots[p]["protective"] = NoSlot

ProtectiveOpen(m, p) == p \notin m.closed /\ m.slots[p]["protective"] = NoSlot

Queued(kind) == {i \in DOMAIN queue : queue[i].kind = kind}
PulseSeq == IF Queued("pulse") = {} THEN 0 ELSE queue[Min(Queued("pulse"))].seq

EodCandidates(m, s) ==
  UNION {LET eligible == {t \in m.journal[s] : t.ts >= openedAt[p]}
             prior == {t \in eligible : t.seq <= PulseSeq}
         IN  {Latest(T) : T \in {eligible, prior} \ {{}}} :
           p \in {q \in m.visible : /\ SymbolOf[q] = s /\ ProtectiveOpen(m, q)
                                    /\ m.slots[q]["eod"] = NoSlot}}

(* mutant: the touch that no replay has read yet may expire *)
Owed_ReadOnly(m, s, t) ==
  \/ m.unavailable \/ m.fillPending[s] # NoTime
  \/ t \in EodCandidates(m, s)

Owed(m, s, t) ==
  \/ m.unavailable \/ m.fillPending[s] # NoTime
  \/ t \in EodCandidates(m, s)
  \/ \E p \in m.visible : /\ SymbolOf[p] = s /\ t.ts >= openedAt[p]
                          /\ ProtectiveOpen(m, p) /\ t.seq > m.progress[p]

Kept(m, s) == {t \in m.journal[s] : now - t.arrived < Retention \/ Owed(m, s, t)}

---------------------------------------------------------------------------
(* _replay_through: drop what left the snapshot, then evaluate each        *)
(* position's unread ticks up to the boundary in arrival order, stopping   *)
(* at the first touch; then prune.                                         *)

(* mutant: a replay stops before its own boundary *)
Unread_Short(m, p, boundary) ==
  {t \in m.journal[SymbolOf[p]] : m.progress[p] < t.seq /\ t.seq < boundary}

Unread(m, p, boundary) ==
  {t \in m.journal[SymbolOf[p]] : m.progress[p] < t.seq /\ t.seq <= boundary}

ReplayThrough(boundary) ==
  LET gone == visible \ held
      before == [Now EXCEPT
        !.visible = held, !.unavailable = FALSE, !.closed = closed \ gone,
        !.progress = [p \in Positions |-> IF p \in gone THEN 0 ELSE progress[p]],
        !.slots = [p \in Positions |-> IF p \in gone THEN NoSlots ELSE slots[p]],
        !.fillPending = [s \in Symbols |->
           IF \E p \in held : SymbolOf[p] = s THEN NoTime ELSE fillPending[s]]]
      unread == [p \in Positions |->
        IF p \in held /\ ProtectiveOpen(before, p) THEN Unread(before, p, boundary) ELSE {}]
      touching == [p \in Positions |-> {t \in unread[p] : Touches(p, t)}]
      after == [before EXCEPT
        !.slots = [p \in Positions |->
           IF touching[p] = {} THEN @[p]
           ELSE LET t == First(touching[p])
                IN  [@[p] EXCEPT !["protective"] = Pending(Evaluate(p, t.price, t.price), t.ts)]],
        !.progress = [p \in Positions |->
           IF touching[p] # {} THEN First(touching[p]).seq
           ELSE Max({@[p]} \cup {t.seq : t \in unread[p]})]]
  IN  [after EXCEPT !.journal = [s \in Symbols |-> Kept(after, s)]]

(* What replay leaves behind the boundary asks for another one.            *)
Requeued(m, boundary, rest) ==
  IF /\ \A i \in DOMAIN rest : rest[i].kind # "replay"
     /\ \E s \in Symbols : \E t \in m.journal[s] : t.seq > boundary
  THEN Append(rest, [kind |-> "replay", seq |-> seq]) ELSE rest

(* _process_event: a candle of a held symbol, also when it began before    *)
(* the position was opened.                                                *)
AfterCandle(m, c) ==
  [p \in Positions |->
     LET reason == Evaluate(p, c.low, c.high)
     IN  IF p \in held /\ SymbolOf[p] = c.symbol /\ ProtectiveOpen(m, p) /\ reason # "none"
         THEN [m.slots[p] EXCEPT !["protective"] = Pending(reason, c.ts)]
         ELSE m.slots[p]]

(* mutant: a tick from before the opening supports the EOD observation *)
AfterPulse_AnyTick(m, boundary) ==
  [p \in Positions |->
     LET ticks == {t \in m.journal[SymbolOf[p]] : t.seq <= boundary}
     IN  IF /\ p \in held \ m.closed /\ m.slots[p] = NoSlots /\ ticks # {}
            /\ FlattenAt <= now /\ now < CloseAt
         THEN [m.slots[p] EXCEPT !["eod"] = Pending("eod_flatten", Latest(ticks).ts)]
         ELSE m.slots[p]]

(* _process_pulse with _eligible_tick.                                     *)
AfterPulse(m, boundary) ==
  [p \in Positions |->
     LET ticks == {t \in m.journal[SymbolOf[p]] : t.seq <= boundary}
         t == Latest(ticks)
         eligible == /\ p \in held \ m.closed /\ m.slots[p] = NoSlots
                     /\ FlattenAt <= now /\ now < CloseAt
                     /\ ticks # {} /\ openedAt[p] <= t.ts /\ t.ts <= now
                     /\ t.ts > (IF p \in visible \ held THEN NoTime ELSE tickFloor[p])
         reason == Evaluate(p, t.price, t.price)
     IN  IF ~eligible THEN m.slots[p]
         ELSE IF reason # "none"
         THEN [m.slots[p] EXCEPT !["protective"] = Pending(reason, t.ts)]
         ELSE [m.slots[p] EXCEPT !["eod"] = Pending("eod_flatten", t.ts)]]

(* _worker_loop: one item.  A reader that raises leaves everything where   *)
(* it is for the next wake-up.                                             *)
Unreadable ==
  /\ queue # <<>> /\ outages < MaxOutages
  /\ outages' = outages + 1
  /\ unavailable' = TRUE
  /\ queue' = Tail(queue)
  /\ UNCHANGED <<seq, journal, progress, visible, fillPending, lost, slots, closed, tickFloor,
                 stage, openedAt, held, notices, now, history>>

Process ==
  /\ queue # <<>>
  /\ \E item \in {Head(queue)}, m \in {ReplayThrough(Head(queue).seq)} :
     LET expired == {s \in Symbols : journal[s] # m.journal[s]}
         flat == {s \in expired : \A p \in held : SymbolOf[p] # s}
     IN  /\ journal' = m.journal /\ progress' = m.progress /\ visible' = m.visible
         /\ unavailable' = FALSE /\ fillPending' = m.fillPending /\ closed' = m.closed
         /\ slots' = CASE item.kind = "replay" -> m.slots
                       [] item.kind = "candle" -> AfterCandle(m, item)
                       [] item.kind = "pulse" -> AfterPulse(m, item.seq)
         /\ tickFloor' = [p \in Positions |-> IF p \in visible \ held THEN NoTime ELSE tickFloor[p]]
         /\ lost' = (lost \/ flat # {})
         /\ expiredFlat' = expiredFlat \cup UNION {journal[s] \ m.journal[s] : s \in flat}
         /\ queue' = Requeued(m, item.seq, Tail(queue))
  /\ UNCHANGED <<seq, envVars, accepted, evicted, invalid>>

Work == Unreadable \/ Process

---------------------------------------------------------------------------
(* _on_market_event and the timers                                         *)

(* mutant: wake-ups are not coalesced *)
Enqueued_Always(kind, n) == Append(queue, [kind |-> kind, seq |-> n])

Enqueued(kind, n) ==
  IF Queued(kind) # {} THEN queue ELSE Append(queue, [kind |-> kind, seq |-> n])

Room == seq < MaxEvents

(* _journal_tick.  A new symbol beyond the limit evicts one that owes      *)
(* nothing, or else any (the code takes the oldest).                       *)
Tick(s, price, ts) ==
  /\ Room /\ Cardinality(accepted) < MaxTicks /\ ts >= 0
  /\ LET tick == [symbol |-> s, price |-> price, ts |-> ts, seq |-> seq + 1, arrived |-> now]
         used == {u \in Symbols : journal[u] # {}}
         unowed == {u \in used : \A t \in journal[u] : ~Owed(Now, u, t)}
         full == s \notin used /\ Cardinality(used) >= MaxSymbols
     IN  \E victims \in IF ~full THEN {{}}
                        ELSE {{v} : v \in IF unowed # {} THEN unowed ELSE used} :
           LET over == IF Cardinality(journal[s]) >= MaxTicksPerSymbol
                       THEN {First(journal[s])} ELSE {}
               out == over \cup UNION {journal[v] : v \in victims}
           IN  /\ journal' = [u \in Symbols |->
                     IF u \in victims THEN {}
                     ELSE IF u = s THEN (journal[s] \ over) \cup {tick} ELSE journal[u]]
               /\ lost' = (lost \/ out # {})
               /\ evicted' = evicted \cup out
         /\ accepted' = accepted \cup {tick}
  /\ seq' = seq + 1
  /\ queue' = Enqueued("replay", seq + 1)
  /\ UNCHANGED <<progress, visible, unavailable, fillPending, slots, closed,
                 tickFloor, envVars, expiredFlat, invalid>>

(* ORDER_FILLED marks its symbol; the oldest marker makes room.            *)
FillNotice(p) ==
  LET s == SymbolOf[p]
      marked == {u \in Symbols : fillPending[u] # NoTime}
  IN
  /\ Room /\ notices[p] > 0
  /\ notices' = [notices EXCEPT ![p] = @ - 1]
  /\ \E oldest \in IF s \notin marked /\ Cardinality(marked) >= MaxSymbols
                   THEN {{u} : u \in {u \in marked : \A v \in marked : fillPending[u] <= fillPending[v]}}
                   ELSE {{}} :
       /\ fillPending' = [u \in Symbols |->
            IF u \in oldest THEN NoTime
            ELSE IF u = s /\ u \notin marked THEN now ELSE fillPending[u]]
       /\ lost' = (lost \/ oldest # {})
  /\ seq' = seq + 1
  /\ queue' = Enqueued("replay", seq + 1)
  /\ UNCHANGED <<journal, progress, visible, unavailable, slots, closed, tickFloor,
                 stage, openedAt, held, now, outages, history>>

Candle(s, low, high) ==
  /\ Room
  /\ seq' = seq + 1
  /\ \/ /\ queue' = IF \E p \in held : SymbolOf[p] = s
                     THEN Append(queue, [kind |-> "candle", seq |-> seq + 1, symbol |-> s,
                                         low |-> low, high |-> high, ts |-> now])
                     ELSE queue
        /\ UNCHANGED <<unavailable, outages>>
     \/ /\ outages < MaxOutages /\ outages' = outages + 1   \* the read raises
        /\ unavailable' = TRUE
        /\ UNCHANGED queue
  /\ UNCHANGED <<journal, progress, visible, fillPending, lost, slots, closed, tickFloor,
                 stage, openedAt, held, notices, now, history>>

EnqueuePulse ==
  /\ Room /\ Queued("pulse") = {}
  /\ seq' = seq + 1
  /\ queue' = Enqueued("pulse", seq + 1)
  /\ UNCHANGED <<journal, progress, visible, unavailable, fillPending, lost, slots,
                 closed, tickFloor, envVars, history>>

(* _recovery_loop *)
Recover ==
  /\ Queued("replay") = {}
  /\ unavailable \/ \E s \in Symbols : journal[s] # {} \/ fillPending[s] # NoTime
  /\ queue' = Enqueued("replay", seq)
  /\ UNCHANGED <<seq, journal, progress, visible, unavailable, fillPending, lost,
                 slots, closed, tickFloor, envVars, history>>

---------------------------------------------------------------------------
(* The consumer: acknowledge_observation and release_observation           *)

ConsumerUnchanged == UNCHANGED <<seq, queue, journal, progress, visible,
                                 unavailable, fillPending, lost, envVars,
                                 accepted, evicted, expiredFlat>>

Acknowledge(p, k) ==
  /\ slots[p][k] # NoSlot /\ slots[p][k].state # "expired"
  /\ slots' = [slots EXCEPT ![p][k].state = "acknowledged"]
  /\ UNCHANGED <<closed, tickFloor, invalid>> /\ ConsumerUnchanged

WindowClosed(p) ==
  /\ slots[p]["eod"].state \in {"pending", "expired"} /\ now >= CloseAt
  /\ slots' = [slots EXCEPT ![p]["eod"].state = "expired"]
  /\ UNCHANGED <<closed, tickFloor, invalid>> /\ ConsumerUnchanged

PositionClosed(p) ==
  /\ stage[p] = "closed"
  /\ closed' = closed \cup {p}
  /\ slots' = [slots EXCEPT ![p] = NoSlots]
  /\ UNCHANGED <<tickFloor, invalid>> /\ ConsumerUnchanged

(* A refused observation; the model refuses each position once.            *)
Invalid(p, k) ==
  /\ slots[p][k].state = "pending" /\ p \notin invalid
  /\ invalid' = invalid \cup {p}
  /\ tickFloor' = IF k = "eod" THEN [tickFloor EXCEPT ![p] = slots[p][k].ts] ELSE tickFloor
  /\ slots' = [slots EXCEPT ![p][k] = NoSlot]
  /\ UNCHANGED closed /\ ConsumerUnchanged

---------------------------------------------------------------------------
(* The environment: Portfolio State, the ledger and the clock              *)

EnvUnchanged == UNCHANGED <<monitorVars, history>>

(* A position is opened by a fill once its symbol is flat in the snapshot  *)
(* an approval needs; its row and its notice come in any order, and the    *)
(* closing fill is announced as well.                                      *)
Open(p) ==
  /\ stage[p] = "none" /\ now < CloseAt   \* the venue fills in regular hours
  /\ \A q \in Positions : SymbolOf[q] = SymbolOf[p] =>
                            stage[q] # "open" /\ q \notin held
  /\ stage' = [stage EXCEPT ![p] = "open"]
  /\ openedAt' = [openedAt EXCEPT ![p] = now]
  /\ notices' = [notices EXCEPT ![p] = @ + 1]
  /\ UNCHANGED <<held, now, outages>> /\ EnvUnchanged

Close(p) ==
  /\ stage[p] = "open" /\ p \in held
  /\ stage' = [stage EXCEPT ![p] = "closed"]
  /\ notices' = [notices EXCEPT ![p] = @ + 1]
  /\ UNCHANGED <<openedAt, held, now, outages>> /\ EnvUnchanged

(* A new committed snapshot.                                               *)
Refresh ==
  /\ held' = {p \in Positions : stage[p] = "open"} /\ held' # held
  /\ UNCHANGED <<stage, openedAt, notices, now, outages>> /\ EnvUnchanged

Pass ==
  /\ now < MaxTime /\ now' = now + 1
  /\ UNCHANGED <<stage, openedAt, held, notices, outages>> /\ EnvUnchanged

Next ==
  \/ Work \/ EnqueuePulse \/ Recover
  \/ \E s \in Symbols :
       \/ \E price \in PricesOf[s], lag \in LagsOf[s] : Tick(s, price, now - lag)
       \/ \E c \in CandlesOf[s] : Candle(s, c[1], c[2])
  \/ \E p \in Positions :
       \/ FillNotice(p) \/ WindowClosed(p) \/ PositionClosed(p) \/ Open(p) \/ Close(p)
       \/ \E k \in Kinds : Acknowledge(p, k) \/ Invalid(p, k)
  \/ Refresh \/ Pass

Spec == Init /\ [][Next]_vars

(* The worker and the recovery timer run; outages are bounded.             *)
FairSpec == Spec /\ WF_vars(Work) /\ WF_vars(Recover)

---------------------------------------------------------------------------
(* Properties                                                              *)

TypeOK ==
  /\ seq \in 0 .. MaxEvents
  /\ \A s \in Symbols : /\ Cardinality(journal[s]) <= MaxTicksPerSymbol
                        /\ journal[s] \subseteq accepted
  /\ Cardinality({s \in Symbols : journal[s] # {}}) <= MaxSymbols
  /\ Cardinality({s \in Symbols : fillPending[s] # NoTime}) <= MaxSymbols
  /\ Cardinality(Queued("pulse")) <= 1 /\ Cardinality(Queued("replay")) <= 1
  /\ visible \subseteq Positions /\ closed \subseteq Positions
  /\ \A p \in Positions, k \in Kinds :
       slots[p][k].state \in {"none", "pending", "acknowledged", "expired"}

Excused(t) == t \in evicted \cup expiredFlat

(* No touch is lost: a tick that touched an open position and arrived at   *)
(* any time, also before the position's row, during an outage or between   *)
(* a fill and its snapshot, has led to a protective slot, or is still      *)
(* journaled and unread; unless a capacity limit or the retention of a     *)
(* flat symbol took it, which the sticky lost_window then reports.         *)
TouchNotLost ==
  /\ \A p \in Positions : stage[p] = "open" /\ p \notin invalid =>
       \A t \in accepted : t.symbol = SymbolOf[p] /\ Touches(p, t) =>
         \/ slots[p]["protective"] # NoSlot
         \/ t \in journal[t.symbol] /\ t.seq > progress[p]
         \/ Excused(t)
  /\ evicted \cup expiredFlat # {} => lost

(* Stop and target come first: an EOD slot appears only inside the window, *)
(* on the strength of a tick after the opening, and only when no touch     *)
(* that arrived before the pulse is unaccounted for.                       *)
EodOnlyUntouched ==
  [][\A p \in Positions :
       slots[p]["eod"] = NoSlot /\ slots'[p]["eod"] # NoSlot =>
         /\ FlattenAt <= now /\ now < CloseAt /\ slots'[p]["protective"] = NoSlot
         /\ slots'[p]["eod"].ts >= openedAt[p]
         /\ p \notin invalid =>
              \A t \in accepted :
                (t.symbol = SymbolOf[p] /\ t.seq <= Head(queue).seq /\ Touches(p, t))
                  => Excused(t)]_vars

(* The slots keep the promise of the handoff.                              *)
Slots == INSTANCE ExitObservations WITH
  slot <- [p \in Positions |-> [k \in Kinds |-> slots[p][k].state]],
  finished <- closed
SlotContract == Slots!Spec

(* A touch of a position in the snapshot becomes a protective slot, also   *)
(* when its tick was the last event the market sent.                       *)
Owing(p) ==
  /\ p \in held /\ stage[p] = "open" /\ p \notin invalid /\ p \notin closed
  /\ slots[p]["protective"] = NoSlot
  /\ \E t \in journal[SymbolOf[p]] : t.seq > progress[p] /\ Touches(p, t)

TouchIsLatched == \A p \in Positions : Owing(p) ~> ~Owing(p)

(* A symbol stays marked as having an unapplied fill only as long as one   *)
(* is unapplied.                                                           *)
Settled ==
  /\ queue = <<>> /\ ~unavailable
  /\ \A p \in Positions : notices[p] = 0
  /\ held = {p \in Positions : stage[p] = "open"} /\ visible = held
MarkerMeansUnapplied ==
  Settled => \A s \in Symbols : fillPending[s] = NoTime
=============================================================================
